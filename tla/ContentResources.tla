-------------------------- MODULE ContentResources --------------------------
(***************************************************************************)
(* The content of one attachment between the client that owns it, the      *)
(* Agent Host and the Agents.                                              *)
(*                                                                         *)
(* An Agent opens the content, reads it, has it materialized as a          *)
(* directory of the Host, and releases both (agentContentResourceService.ts).  *)
(* The Host opens a lease at the client in turn, through a connection      *)
(* (clientContentResources.ts).  Every call is raced against a token that  *)
(* the caller, a timer or the end of the connection cancels: the caller is *)
(* told at once, while what the call has begun goes on in the background   *)
(* and looks at the token where the code does.                             *)
(*                                                                         *)
(* The connections differ in what a cancellation does to a request of the  *)
(* Host: over Electron's IPC and over a tunnel it is rejected at once and  *)
(* its answer dropped; a remote server's channel sends the cancellation    *)
(* and waits for an answer.  The client executes a request and answers it  *)
(* within one task.  When its transport hands over every frame in a task   *)
(* of its own ("remote"), a cancellation therefore finds the request done. *)
(* A transport that hands over several in one task, or in the middle of    *)
(* the sender's ("coalesced"), may bring the cancellation first: the       *)
(* client answers with it and drops what the request returns.              *)
(***************************************************************************)
EXTENDS Naturals, Sequences, FiniteSets

CONSTANTS
  Turns,                \* who opens the content
  Leases,               \* identities of leases, which the client draws and never uses again
  Calls,                \* bound: calls that are under way at once, in the background too
  Transports,           \* the connections, among "electron", "remote", "coalesced" and "tunnel"
  MaxOpenLeases,        \* maximumOpenLeases
  MaxMaterializations,  \* maximumMaterializations
  MaxPerLease,          \* maximumConcurrentOperationsPerLease
  Budget                \* bound: cancellations, failures, interruptions and ends of the connection

None == "none"
NoDir == <<>>
ASSUME NoneAssumption == None \notin Turns \cup Leases \cup Calls
ASSUME TransportsAssumption == Transports \subseteq {"electron", "remote", "coalesced", "tunnel"}
ASSUME FiniteAssumption == IsFiniteSet(Leases) /\ IsFiniteSet(Calls)
ASSUME IdentitiesAssumption == Leases \cap (Calls \X Leases) = {}   \* a lease is not a directory
ASSUME LimitsAssumption == {MaxOpenLeases, MaxMaterializations, MaxPerLease, Budget} \subseteq Nat

VARIABLES
  transport, shape,  \* the connection; is the content a file or a tree, with bytes or without?
  bound,         \* is the client's reader bound?
  disposed,      \* is the service disposed?
  jobs,          \* [Calls -> what the call is doing]
  leases,        \* the Host's leases
  materialized,  \* leases whose materialization is set
  mats,          \* the recorded materializations, each a directory
  disk,          \* directories, each <<the call that made it, its lease>>
  known,         \* leases and materializations whose identity an Agent was told
  up,            \* requests on their way to the client
  holder,        \* client: the Turn of each lease that is open there
  drawn,         \* client: identities of leases that were drawn
  requested,     \* client: has the publication been released?
  interrupted, budget

client == <<holder, drawn, requested>>
files == <<materialized, mats, disk>>
shared == <<transport, shape, bound, disposed, interrupted>>
vars == <<shared, jobs, leases, files, known, up, client, budget>>

Idle == [kind |-> None, at |-> "idle", turn |-> None, lease |-> None, dir |-> NoDir,
         cut |-> FALSE, answer |-> None]

\* An empty tree has entries, but each of its files is of no bytes.
Shapes == {"blob", "tree", "emptyBlob", "emptyTree"}
IsTree == shape \in {"tree", "emptyTree"}
Empty == shape \in {"emptyBlob", "emptyTree"}

Fails == budget < Budget /\ budget' = budget + 1

-----------------------------------------------------------------------------
(* What the counters and flags of the service say.  A call that was cut is  *)
(* over for its caller, and for these.                                      *)
Awaited(kind) == {c \in Calls : jobs[c].kind = kind /\ ~jobs[c].cut}
On(kind, l) == {c \in Awaited(kind) : jobs[c].lease = l}
OperationsOn(l) == On("read", l) \cup On("materialize", l)

Usable(l) == bound /\ l \in leases /\ l \in known       \* requireLease
HasRoom(l) == On("release", l) = {} /\ Cardinality(OperationsOn(l)) < MaxPerLease

Request(what, c) == [what |-> what, call |-> c, turn |-> jobs'[c].turn, lease |-> jobs'[c].lease]
Send(what, c) == up' = Append(up, Request(what, c))

\* Which of the free identities a call or a lease gets makes no difference.
Begin(c, job) ==
  /\ jobs[c] = Idle /\ c = CHOOSE d \in Calls : jobs[d] = Idle
  /\ jobs' = [jobs EXCEPT ![c] = job]
Step(c, at) == jobs' = [jobs EXCEPT ![c].at = at]
Asking(c, at) == jobs' = [jobs EXCEPT ![c].at = at, ![c].answer = None]
End(c) == jobs' = [jobs EXCEPT ![c] = Idle]

(* The calls of an Agent *)

Open(c, t) ==
  /\ bound
  /\ Cardinality(leases) + Cardinality(Awaited("open")) < MaxOpenLeases
  /\ Begin(c, [Idle EXCEPT !.kind = "open", !.at = "ask", !.turn = t])
  /\ Send("open", c)
  /\ UNCHANGED <<shared, leases, files, known, client, budget>>

Read(c, l) ==
  /\ Usable(l) /\ HasRoom(l)
  /\ Begin(c, [Idle EXCEPT !.kind = "read", !.at = "ask", !.lease = l])
  /\ Send("read", c)
  /\ UNCHANGED <<shared, leases, files, known, client, budget>>

Materialize(c, l) ==
  /\ Usable(l) /\ HasRoom(l)
  /\ On("materialize", l) = {} /\ l \notin materialized
  /\ Cardinality(mats) + Cardinality(Awaited("materialize")) < MaxMaterializations
  /\ Begin(c, [Idle EXCEPT !.kind = "materialize", !.at = "stage", !.lease = l, !.dir = <<c, l>>])
  /\ UNCHANGED <<shared, leases, files, known, up, client, budget>>

ReleaseThoughMaterialized(c, l) ==
  /\ Usable(l) /\ On("release", l) = {} /\ OperationsOn(l) = {}
  /\ Begin(c, [Idle EXCEPT !.kind = "release", !.at = "ask", !.lease = l])
  /\ Send("release", c)
  /\ UNCHANGED <<shared, leases, files, known, client, budget>>

Release(c, l) ==
  /\ Usable(l) /\ On("release", l) = {} /\ OperationsOn(l) = {}
  /\ \A dir \in mats : dir[2] # l
  /\ Begin(c, [Idle EXCEPT !.kind = "release", !.at = "ask", !.lease = l])
  /\ Send("release", c)
  /\ UNCHANGED <<shared, leases, files, known, client, budget>>

ReleaseMaterialization(c, dir) ==
  /\ dir \in mats \cap known
  /\ \A d \in Awaited("remove") : jobs[d].dir # dir
  /\ Begin(c, [Idle EXCEPT !.kind = "remove", !.at = "remove", !.dir = dir])
  /\ UNCHANGED <<shared, leases, files, known, up, client, budget>>

-----------------------------------------------------------------------------
(* Opening *)

Commits(c) == leases' = leases \cup {jobs[c].lease} /\ Step(c, "return") /\ UNCHANGED up
GivesUpSilently(c) == End(c) /\ UNCHANGED <<leases, up>>
\* The catch releases the lease that nobody will know, with a token nobody cancels.
GivesUp(c) ==
  /\ IF bound THEN Asking(c, "giveUp") /\ Send("release", c)
              ELSE UNCHANGED up /\ jobs' = [jobs EXCEPT ![c].at = "giveUp", ![c].answer = "error"]
  /\ UNCHANGED leases

OpenedThoughCut(c) ==
  LET job == jobs[c] IN
  /\ job.kind = "open" /\ job.at = "ask" /\ job.answer # None
  /\ \/ job.answer = "error" /\ End(c) /\ UNCHANGED <<leases, up>>
     \/ job.answer = "ok" /\ Commits(c)
  /\ UNCHANGED <<shared, files, known, client, budget>>

Opened(c) ==
  LET job == jobs[c]
      pages == Asking(c, "page") /\ Send("read", c) /\ UNCHANGED leases
  IN
  /\ job.kind = "open" /\ job.at = "ask" /\ job.answer # None
  /\ \/ job.answer = "error" /\ End(c) /\ UNCHANGED <<leases, up>>
     \/ job.answer = "ok" /\ IF job.cut THEN GivesUp(c) ELSE IF IsTree THEN pages ELSE Commits(c)
  /\ UNCHANGED <<shared, files, known, client, budget>>

\* loadTreeManifest has read the pages; what it reads may not be the manifest that was promised.
ManifestRead(c) ==
  LET job == jobs[c] IN
  /\ job.at = "page" /\ job.answer # None
  /\ \/ job.answer = "ok" /\ UNCHANGED budget /\ IF job.cut THEN GivesUp(c) ELSE Commits(c)
     \/ job.answer = "ok" /\ Fails /\ GivesUp(c)
     \/ job.answer = "error" /\ UNCHANGED budget /\ GivesUp(c)
  /\ UNCHANGED <<shared, files, known, client>>

GivenUp(c) ==
  /\ jobs[c].at = "giveUp" /\ jobs[c].answer # None
  /\ End(c)
  /\ UNCHANGED <<shared, leases, files, known, up, client, budget>>

\* The race is decided in a continuation after the commit: until then a
\* cancellation tells the caller that there is nothing.
Return(c) ==
  LET job == jobs[c] IN
  /\ job.at = "return"
  /\ known' = IF job.cut THEN known ELSE known \cup {IF job.kind = "open" THEN job.lease ELSE job.dir}
  /\ End(c)
  /\ UNCHANGED <<shared, leases, files, up, client, budget>>

ReadDone(c) ==
  /\ jobs[c].kind = "read" /\ jobs[c].answer # None
  /\ End(c)
  /\ UNCHANGED <<shared, leases, files, known, up, client, budget>>

-----------------------------------------------------------------------------
(* Materializing: a directory is made, filled and given its name. *)

Staged(c) ==
  /\ jobs[c].at = "stage"
  /\ disk' = disk \cup {jobs[c].dir}
  /\ \/ jobs[c].cut /\ Step(c, "discard") /\ UNCHANGED up
     \/ ~jobs[c].cut /\ ~Empty /\ Step(c, "ask") /\ Send("read", c)
     \/ ~jobs[c].cut /\ Empty /\ Step(c, "rename") /\ UNCHANGED up
  /\ UNCHANGED <<shared, leases, materialized, mats, known, client, budget>>

\* Everything is read and its digest compared, or not.
Filled(c) ==
  LET job == jobs[c] IN
  /\ job.kind = "materialize" /\ job.at = "ask" /\ job.answer # None
  /\ \/ (job.answer = "error" \/ job.cut) /\ Step(c, "discard") /\ UNCHANGED budget
     \/ job.answer = "ok" /\ ~job.cut /\ Step(c, "rename") /\ UNCHANGED budget
     \/ job.answer = "ok" /\ ~job.cut /\ Fails /\ Step(c, "discard")
  /\ UNCHANGED <<shared, leases, files, known, up, client>>

RenamedUnchecked(c) ==
  LET job == jobs[c] IN
  /\ job.at = "rename"
  /\ mats' = mats \cup {job.dir} /\ materialized' = materialized \cup {job.lease}
  /\ Step(c, "return")
  /\ UNCHANGED <<shared, leases, disk, known, up, client, budget>>

Renamed(c) ==
  LET job == jobs[c] IN
  /\ job.at = "rename"
  /\ IF job.cut
     THEN Step(c, "discard") /\ UNCHANGED <<materialized, mats>>
     ELSE /\ mats' = mats \cup {job.dir} /\ materialized' = materialized \cup {job.lease}
          /\ Step(c, "return")
  /\ UNCHANGED <<shared, leases, disk, known, up, client, budget>>

Discarded(c) ==
  /\ jobs[c].at = "discard"
  /\ disk' = disk \ {jobs[c].dir}
  /\ End(c)
  /\ UNCHANGED <<shared, leases, materialized, mats, known, up, client, budget>>

Removed(c) ==
  LET dir == jobs[c].dir IN
  /\ jobs[c].at = "remove"
  /\ \/ dir \in disk /\ disk' = disk \ {dir} /\ mats' = mats \ {dir} /\ UNCHANGED budget
     \/ dir \notin disk /\ UNCHANGED <<disk, mats, budget>>
     \/ dir \in disk /\ Fails /\ UNCHANGED <<disk, mats>>
  /\ End(c)
  /\ UNCHANGED <<shared, leases, materialized, known, up, client>>

Released(c) ==
  /\ jobs[c].kind = "release" /\ jobs[c].answer # None
  /\ leases' = IF jobs[c].answer = "ok" THEN leases \ {jobs[c].lease} ELSE leases
  /\ End(c)
  /\ UNCHANGED <<shared, files, known, up, client, budget>>

-----------------------------------------------------------------------------
(* The client *)

OpenThere == {l \in Leases : holder[l] # None}
Accepts(t) ==
  /\ drawn # Leases    \* bound: an identity is left; the code's own limit is on those that are open
  /\ requested => OpenThere # {}
  /\ \A l \in OpenThere : holder[l] = t

\* The request of a call that was rejected has no listener any more.
Answer(c, answer) == jobs' = IF c = None THEN jobs ELSE [jobs EXCEPT ![c].answer = answer]
Opens(c, l) == jobs' = IF c = None THEN jobs ELSE [jobs EXCEPT ![c].answer = "ok", ![c].lease = l]

ClientHandles ==
  LET m == Head(up) IN
  /\ up # <<>> /\ up' = Tail(up)
  /\ \/ /\ m.what = "open" /\ Accepts(m.turn)
        /\ LET l == CHOOSE l \in Leases : l \notin drawn IN
             drawn' = drawn \cup {l} /\ holder' = [holder EXCEPT ![l] = m.turn] /\ Opens(m.call, l)
     \/ /\ m.what = "open" /\ ~Accepts(m.turn)
        /\ Answer(m.call, "error") /\ UNCHANGED <<drawn, holder>>
     \/ /\ m.what # "open"
        /\ Answer(m.call, IF holder[m.lease] # None THEN "ok" ELSE "error")
        /\ holder' = IF m.what = "release" THEN [holder EXCEPT ![m.lease] = None] ELSE holder
        /\ UNCHANGED drawn
  /\ UNCHANGED <<shared, leases, files, known, requested, budget>>

\* The composer lets go of what it has published.
PublicationReleased ==
  /\ bound /\ ~requested /\ requested' = TRUE
  /\ UNCHANGED <<shared, jobs, leases, files, known, up, holder, drawn, budget>>

-----------------------------------------------------------------------------
(* What disturbs *)

AtClient == {"ask", "page", "giveUp"}
Asks(c) == jobs[c].at \in AtClient
Orphaned(gone) == [i \in DOMAIN up |-> IF up[i].call \in gone THEN [up[i] EXCEPT !.call = None] ELSE up[i]]

\* A request is rejected when its answer was not received.
Rejected(gone, received) ==
  [c \in Calls |->
     IF c \notin gone \ received THEN jobs[c]
     ELSE [jobs[c] EXCEPT !.answer = "error",
                          !.lease = IF jobs[c].kind = "open" /\ jobs[c].at = "ask" THEN None ELSE @]]
Answered == {c \in Calls : Asks(c) /\ jobs[c].answer # None}

\* The call c is cut, and the requests of those that are gone are rejected: an
\* answer may be received by now, or in the same task.
CutOff(c, gone) ==
  /\ \E received \in SUBSET (Answered \cap gone) :
       jobs' = [Rejected(gone, received) EXCEPT ![c].cut = TRUE]
  /\ up' = Orphaned(gone)
  /\ UNCHANGED <<shared, leases, files, known, client>>

\* The caller's token or the timer.
Cut(c) ==
  /\ jobs[c].kind # None /\ ~jobs[c].cut /\ Fails
  /\ CutOff(c, IF transport \in {"remote", "coalesced"} \/ jobs[c].at \notin {"ask", "page"} THEN {} ELSE {c})

\* The cancellation comes before the client has answered, which executes the
\* request nevertheless.
CancellationAnswered(c) ==
  /\ transport = "coalesced" /\ jobs[c].cut /\ jobs[c].at \in {"ask", "page"} /\ jobs[c].answer = None
  /\ CutOff(c, {c})
  /\ UNCHANGED budget

InterruptSilently ==
  /\ bound /\ transport # "electron" /\ interrupted' = TRUE /\ Fails
  /\ up' = <<>>
  /\ UNCHANGED <<transport, shape, bound, disposed, jobs, leases, files, known, client>>

\* The connection loses its transport and gets another one.
Interrupt ==
  /\ bound /\ transport # "electron" /\ interrupted' = TRUE /\ Fails
  /\ \E received \in SUBSET Answered : jobs' = Rejected({c \in Calls : Asks(c)}, received)
  /\ up' = <<>>
  /\ UNCHANGED <<transport, shape, bound, disposed, leases, files, known, client>>

\* invalidateBinding: the connection ends, and the client with it.
Ends ==
  /\ bound' = FALSE /\ leases' = {} /\ up' = <<>> /\ Fails
  /\ \E received \in SUBSET Answered :
       LET rejected == Rejected({c \in Calls : Asks(c)}, received) IN
       jobs' = [c \in Calls |-> IF jobs[c].kind \in {None, "remove"} THEN jobs[c]
                                ELSE [rejected[c] EXCEPT !.cut = TRUE]]
  /\ holder' = [l \in Leases |-> None]
  /\ UNCHANGED <<transport, shape, interrupted, materialized, known, drawn, requested>>

Unbind == bound /\ Ends /\ UNCHANGED <<disposed, mats, disk>>
Dispose ==
  /\ ~disposed /\ disposed' = TRUE
  /\ Ends
  /\ mats' = {} /\ disk' = disk \ mats

-----------------------------------------------------------------------------
Init ==
  /\ transport \in Transports /\ shape \in Shapes
  /\ bound = TRUE /\ disposed = FALSE /\ interrupted = FALSE
  /\ jobs = [c \in Calls |-> Idle]
  /\ leases = {} /\ materialized = {} /\ mats = {} /\ disk = {} /\ known = {}
  /\ up = <<>>
  /\ holder = [l \in Leases |-> None] /\ drawn = {} /\ requested = FALSE
  /\ budget = 0

Continue(c) ==
  \/ Opened(c) \/ ManifestRead(c) \/ GivenUp(c) \/ Return(c) \/ ReadDone(c)
  \/ Staged(c) \/ Filled(c) \/ Renamed(c) \/ Discarded(c) \/ Removed(c) \/ Released(c)

Next ==
  \/ \E c \in Calls :
       \/ Continue(c) \/ Cut(c) \/ CancellationAnswered(c)
       \/ \E t \in Turns : Open(c, t)
       \/ \E l \in Leases : Read(c, l) \/ Materialize(c, l) \/ Release(c, l)
       \/ \E dir \in disk : ReleaseMaterialization(c, dir)
  \/ ClientHandles \/ PublicationReleased
  \/ Interrupt \/ Unbind \/ Dispose

Spec == Init /\ [][Next]_vars

\* The client's event loop and the Host's run; a call that awaits neither of
\* them awaits the file system, which answers.
Fairness == WF_vars(ClientHandles) /\ \A c \in Calls : WF_vars(Continue(c))
FairSpec == Spec /\ Fairness

-----------------------------------------------------------------------------
Job == [kind : {None, "open", "read", "materialize", "release", "remove"},
        at : {"idle", "stage", "rename", "discard", "remove", "return"} \cup AtClient,
        turn : Turns \cup {None}, lease : Leases \cup {None},
        dir : (Calls \X Leases) \cup {NoDir}, cut : BOOLEAN, answer : {None, "ok", "error"}]

Message == [what : {"open", "read", "release"}, call : Calls \cup {None},
            turn : Turns \cup {None}, lease : Leases \cup {None}]

TypeOK ==
  /\ transport \in Transports /\ shape \in Shapes
  /\ {bound, disposed, requested, interrupted} \subseteq BOOLEAN
  /\ jobs \in [Calls -> Job]
  /\ leases \cup materialized \cup drawn \subseteq Leases
  /\ mats \cup disk \subseteq Calls \X Leases
  /\ known \subseteq Leases \cup (Calls \X Leases)
  /\ up \in Seq(Message)
  /\ holder \in [Leases -> Turns \cup {None}]
  /\ budget \in 0..Budget

\* The limits on leases and on materializations hold whatever is cancelled:
\* the room that a cancelled call gives back is not taken by the work it left
\* in the background.
CapacityHolds ==
  /\ Cardinality(leases) <= MaxOpenLeases
  /\ Cardinality(mats) <= MaxMaterializations

\* Every directory under the Host's root is a recorded materialization or
\* belongs to a call that has yet to remove or to record it; what is recorded
\* is there; and once the service is disposed nothing is recorded any more,
\* which nobody would remove.
DirectoriesAreAccounted ==
  /\ \A dir \in disk \ mats : \E c \in Calls :
       jobs[c].dir = dir /\ jobs[c].kind = "materialize" /\ jobs[c].at \in {"ask", "rename", "discard"}
  /\ mats \subseteq disk
  /\ disposed => mats = {}

\* A materialized directory is scoped to its lease (ATTACHMENTS.md, Content
\* ownership and leases): as long as the client is connected, the lease of a
\* recorded materialization is open at the Host.  Not so for an empty file or a
\* tree of such: a release that was cancelled ends the lease in the background, a
\* materialization that has begun in between has nothing to read and does not
\* meet it.
FilesHaveTheirLease == bound /\ ~Empty => \A dir \in mats : dir[2] \in leases

\* Does not hold (README).  ATTACHMENTS.md: the materialized path is scoped to
\* that Host and lease.
EveryPathHasItsLease == bound => \A dir \in mats : dir[2] \in leases

\* Over a connection that waits for its answers, hands over each frame in a task
\* of its own and is not interrupted, what is open at the client is known to the
\* Host or being handled by a call, and what the Host holds is open at the client
\* or being released.
Undisturbed == bound /\ transport = "remote" /\ ~interrupted
LeasesAgree == Undisturbed =>
  /\ \A l \in OpenThere \ leases : \E c \in Calls : jobs[c].lease = l /\ jobs[c].kind \in {"open", "release"}
  /\ \A l \in leases \ OpenThere : \E c \in Calls : jobs[c].lease = l /\ jobs[c].kind = "release"

\* Does not hold (README).  When no call is under way, nothing is open at the
\* client that the Host does not hold.
CancelledOpenLeavesNothing ==
  bound /\ ~interrupted /\ (\A c \in Calls : jobs[c] = Idle) /\ up = <<>> => OpenThere \subseteq leases

\* Every call ends, and what it left in the background too, whatever was
\* cancelled, lost or disposed.
CallsEnd == \A c \in Calls : jobs[c].kind # None ~> jobs[c].kind = None
=============================================================================
