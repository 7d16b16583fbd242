------------------------ MODULE PackageMutation_proofs ------------------------
(***************************************************************************)
(* A package operation meets a working Host: what TLC checks on two Agents *)
(* and a few calls is proved here for any number of Agents, operations,    *)
(* calls, emitted resume values and failures.                              *)
(*                                                                         *)
(* First what is true whenever the Host works: every variable has its      *)
(* type, complete stands in the catalog queue once, an open Turn has one   *)
(* end to come, and the gate is closed where the drain relies on it.  With *)
(* that a drained Agent rests.  Then the flags of the Host: between the    *)
(* Agent's answer to a call and the commit of that call the runtime is     *)
(* ahead of its flag, at every other point they agree; the operation moves *)
(* both together, Chats before Sessions.                                   *)
(*                                                                         *)
(* Last the two stores.  Who holds the state lock follows from where the   *)
(* job and the operation are, so that a staged commit is not overtaken;    *)
(* what the operation awaits of the catalog queue holds every resume value *)
(* that its Agent has emitted; so the record that it carries from its      *)
(* checkpoints to its commit is the Host's, and a commit, its rollback and *)
(* the operation's own return each leave the stores in agreement.          *)
(* The types that are left, one gate closed and the awaited tail within the*)
(* queue, come at the end, for they rest on all of it.                     *)
(***************************************************************************)
EXTENDS PackageMutation, SequenceTheorems, FiniteSetTheorems, TLAPS

-----------------------------------------------------------------------------
(* Types *)

Captured == [Agents -> [lifecycle : {"available", "released", "unavailable"}, up : SUBSET Parts,
                        turn : BOOLEAN, resume : Resume]]
Records == UNION {[R -> Resume] : R \in SUBSET Agents}
Stores == [revision : Nat, active : [Agents -> Registration], retained : Records, up : [Agents -> SUBSET Parts]]
Jobs == [kind : Calls \cup {"terminal", "complete"}, agent : Agents]
        \cup [kind : {"resume"}, agent : Agents, resume : Resume]
Runs == {NoRun} \cup [at : {"agent", "compensate"}]
        \cup [at : {"lock"}, next : Captured, revision : Nat]
        \cup [at : {"commit"}, next : Captured, backing : {FALSE}]
        \cup [at : {"commit", "undo"}, next : Captured, backing : {TRUE}, previous : Stores]
Places == {"recorded", "prepared", "gate", "drain", "asleep", "stuck", "finished", "failed"} \cup Drained
Operations == [at : Places, agent : Agents, kind : {"update", "uninstall", "install"}, next : Registration,
               previous : Stores, records : SUBSET Parts, released : SUBSET Parts, carried : Resume]

\* Where a job of each kind can be.
RunShape ==
  /\ run.at \in {"agent", "compensate"} => Job.kind \in {"release", "materialize"}
  /\ run.at \in {"lock", "undo"} => Job.kind \in {"resume", "release", "materialize"}
  /\ run.at = "commit" => (run.backing <=> Job.kind \in {"resume", "release", "materialize"})

Typed ==
  /\ host \in Captured /\ live \in [Agents -> Registration] /\ store \in Stores
  /\ queue \in Seq(Jobs) /\ run \in Runs /\ op \in Operations \cup {NoOperation}
  /\ run # NoRun => queue # <<>> /\ RunShape
  /\ gates \subseteq Agents /\ busy \subseteq Agents /\ tail \in Nat
  /\ loaded \in [Agents -> SUBSET Parts]
  /\ spent \in [operations : Nat, calls : Nat, emits : Nat, failures : Nat]

\* The Host's part of an operation is asked for once, and awaited.
Completing ==
  /\ \A i \in DOMAIN queue : queue[i].kind = "complete" => op.at = "complete" /\ queue[i].agent = op.agent
  /\ \A i, j \in DOMAIN queue : queue[i].kind = "complete" /\ queue[j].kind = "complete" => i = j

LEMMA NoResumeTyped == NoResume \in Resume
BY BoundsAssumption DEF NoResume, Resume

LEMMA Spending ==
  ASSUME Typed, NEW what \in {"operations", "calls", "emits", "failures"}, Spend(what)
  PROVE  spent' \in [operations : Nat, calls : Nat, emits : Nat, failures : Nat]
BY DEF Spend, Typed

LEMMA FailTyped ==
  ASSUME Typed, Fail \/ UNCHANGED spent
  PROVE  spent' \in [operations : Nat, calls : Nat, emits : Nat, failures : Nat]
BY Spending DEF Fail, Typed

\* A resume value that an Agent emits is one more, and in its own schema.
LEMMA EmittedTyped ==
  ASSUME Typed, NEW a \in Agents, Emit(a)
  PROVE  [stamp |-> spent.emits + 1, schema |-> live[a].schema] \in Resume
<1>1. spent.emits < MaxEmits /\ spent.emits \in Nat /\ MaxEmits \in Nat
  BY BoundsAssumption DEF Emit, Spend, Typed
<1>2. live[a].schema \in 0 .. MaxSchema
  BY DEF Typed, Registration
<1> QED BY <1>1, <1>2 DEF Resume

LEMMA RunFacts ==
  ASSUME Typed
  PROVE  /\ run.at \in {"idle", "agent", "compensate", "lock", "commit", "undo"}
         /\ run.at = "idle" <=> run = NoRun
         /\ run.at \in {"lock", "commit", "undo"} => run.next \in Captured
         /\ run.at = "lock" => run.revision \in Nat
         /\ run.at \in {"commit", "undo"} => run.backing \in BOOLEAN
         /\ run.at = "undo" => run.backing
         /\ run.at \in {"commit", "undo"} /\ run.backing =>
               run.previous \in Stores /\ [run EXCEPT !.at = "undo"] \in Runs
               /\ [run EXCEPT !.at = "undo"].at = "undo" /\ [run EXCEPT !.at = "undo"].next = run.next
<1>1. run \in Runs
  BY DEF Typed
<1>2. CASE run = NoRun
  BY <1>2 DEF NoRun
<1>3. CASE run \in [at : {"agent", "compensate"}]
  BY <1>3 DEF NoRun
<1>4. CASE run \in [at : {"lock"}, next : Captured, revision : Nat]
  BY <1>4 DEF NoRun
<1>5. CASE run \in [at : {"commit"}, next : Captured, backing : {FALSE}]
  <2>1. run.at = "commit" /\ run.next \in Captured /\ run # NoRun
    BY <1>5 DEF NoRun
  <2>2. run.backing \in {FALSE}
    BY <1>5
  <2>3. ~run.backing /\ run.backing \in BOOLEAN
    BY <2>2, Zenon
  <2> QED BY <2>1, <2>3
<1>6. CASE run \in [at : {"commit", "undo"}, next : Captured, backing : {TRUE}, previous : Stores]
  <2>1. /\ run.at \in {"commit", "undo"} /\ run.next \in Captured /\ run.backing = TRUE
        /\ run.previous \in Stores
    BY <1>6
  <2>2. /\ [run EXCEPT !.at = "undo"] \in
             [at : {"commit", "undo"}, next : Captured, backing : {TRUE}, previous : Stores]
        /\ [run EXCEPT !.at = "undo"].at = "undo" /\ [run EXCEPT !.at = "undo"].next = run.next
    BY <1>6
  <2> QED BY <2>1, <2>2 DEF Runs, NoRun
<1> QED BY <1>1, <1>2, <1>3, <1>4, <1>5, <1>6 DEF Runs

LEMMA OpFacts ==
  ASSUME Typed
  PROVE  /\ op.at \in Places \cup {"idle"}
         /\ op.at = "idle" <=> op = NoOperation
         /\ op.at # "idle" => op \in Operations
<1>1. op \in Operations \cup {NoOperation}
  BY DEF Typed
<1> QED BY <1>1 DEF Operations, NoOperation, Places, Drained

LEMMA JobFacts ==
  ASSUME Typed, queue # <<>>
  PROVE  /\ Job \in Jobs /\ Job = queue[1] /\ 1 \in DOMAIN queue /\ Job.agent \in Agents
         /\ Job.kind \in Calls \cup {"terminal", "complete", "resume"}
         /\ Job.kind = "resume" => Job.resume \in Resume
         /\ Tail(queue) \in Seq(Jobs) /\ Len(Tail(queue)) = Len(queue) - 1
         /\ \A i \in DOMAIN Tail(queue) : i \in Nat \ {0} /\ i + 1 \in DOMAIN queue /\ Tail(queue)[i] = queue[i + 1]
<1>1. Job \in Jobs /\ Job = queue[1] /\ 1 \in DOMAIN queue
  BY DEF Typed, Job
<1>2. /\ Tail(queue) \in Seq(Jobs) /\ Len(Tail(queue)) = Len(queue) - 1
      /\ \A i \in DOMAIN Tail(queue) : i \in Nat \ {0} /\ i + 1 \in DOMAIN queue /\ Tail(queue)[i] = queue[i + 1]
  BY DEF Typed
<1>3. /\ Job.agent \in Agents /\ Job.kind \in Calls \cup {"terminal", "complete", "resume"}
      /\ Job.kind = "resume" => Job.resume \in Resume
  BY <1>1 DEF Jobs, Calls
<1> QED BY <1>1, <1>2, <1>3

LEMMA ChangedTyped ==
  ASSUME Typed, NEW job \in Jobs, job.kind # "complete"
  PROVE  Changed(job) \in Captured
<1>1. job.agent \in Agents /\ host[job.agent] \in
        [lifecycle : {"available", "released", "unavailable"}, up : SUBSET Parts, turn : BOOLEAN, resume : Resume]
  BY DEF Typed, Jobs, Captured
<1>2. job.kind = "resume" => job.resume \in Resume
  BY DEF Jobs, Calls
<1>3. Parts \in SUBSET Parts /\ {} \in SUBSET Parts
  OBVIOUS
<1> QED BY <1>1, <1>2, <1>3 DEF Changed, Typed, Captured, Jobs, Calls

LEMMA BackingsTyped ==
  ASSUME Typed, NEW sessions \in Captured
  PROVE  Backings(sessions) \in Stores
<1> DEFINE registered == {a \in Agents : store.active[a] # Unregistered}
           retained == [a \in registered |-> sessions[a].resume]
           ups == [a \in Agents |-> IF a \in registered THEN sessions[a].up ELSE {}]
<1>1. store \in Stores
  BY DEF Typed
<1>2. retained \in Records
  <2>1. \A a \in Agents : sessions[a].resume \in Resume
    BY DEF Captured
  <2>2. registered \in SUBSET Agents /\ retained \in [registered -> Resume]
    BY <2>1
  <2> HIDE DEF registered, retained
  <2> QED BY <2>2 DEF Records
<1>3. ups \in [Agents -> SUBSET Parts]
  BY DEF Captured
<1>4. Backings(sessions) = [[[store EXCEPT !.revision = @ + 1] EXCEPT !.retained = retained] EXCEPT !.up = ups]
  BY DEF Backings
<1> HIDE DEF retained, ups
<1>5. store.revision + 1 \in Nat
  BY <1>1 DEF Stores
<1>6. PICK n \in Nat : n = store.revision + 1
  BY <1>5
<1>7. Backings(sessions) = [[[store EXCEPT !.revision = n] EXCEPT !.retained = retained] EXCEPT !.up = ups]
  BY <1>4, <1>6
<1> QED BY <1>1, <1>2, <1>3, <1>7 DEF Stores

LEMMA DequeueTyped ==
  ASSUME Typed, queue # <<>>, Dequeue
  PROVE  queue' \in Seq(Jobs) /\ run' \in Runs /\ run' = NoRun /\ tail' \in Nat /\ queue' = Tail(queue)
<1>1. tail' \in Nat
  BY DEF Dequeue, Typed
<1> QED BY <1>1, JobFacts DEF Dequeue, Runs

\* The operation goes to a place.
LEMMA OpMoves ==
  ASSUME Typed, op # NoOperation, NEW at \in Places
  PROVE  LET to == [op EXCEPT !.at = at] IN
         to \in Operations /\ to.at = at /\ to.agent = op.agent /\ to.kind = op.kind /\ to.records = op.records
         /\ to.released = op.released /\ to.previous = op.previous /\ to.next = op.next /\ to.carried = op.carried
<1>1. op \in Operations
  BY DEF Typed
<1> QED BY <1>1 DEF Operations

LEMMA NotifiedTyped ==
  ASSUME Typed
  PROVE  /\ Notified \in Operations \cup {NoOperation}
         /\ Notified.at = IF op.at = "asleep" THEN "drain" ELSE op.at
         /\ op # NoOperation => Notified.agent = op.agent /\ Notified # NoOperation
<1>1. CASE op.at = "asleep"
  <2>1. op # NoOperation /\ "drain" \in Places
    BY <1>1 DEF NoOperation, Places
  <2> QED BY <1>1, <2>1, OpMoves DEF Notified, Operations, NoOperation
<1>2. CASE op.at # "asleep"
  BY <1>2 DEF Notified, Typed
<1> QED BY <1>1, <1>2

\* A job ends, by its commit or by throwing.
LEMMA ThrowTyped ==
  ASSUME Typed, queue # <<>>, Throw
  PROVE  /\ queue' \in Seq(Jobs) /\ run' \in Runs /\ run' = NoRun /\ tail' \in Nat /\ queue' = Tail(queue)
         /\ op' \in Operations \cup {NoOperation}
<1>1. Dequeue /\ (op' = Notified \/ op' = op)
  BY DEF Throw
<1> QED BY <1>1, DequeueTyped, NotifiedTyped DEF Typed

LEMMA AbandonTyped ==
  ASSUME Typed, run # NoRun, Abandon
  PROVE  /\ queue' \in Seq(Jobs) /\ run' \in Runs /\ tail' \in Nat /\ op' \in Operations \cup {NoOperation}
         /\ run' # NoRun => queue' # <<>> /\ RunShape'
         /\ \/ run' = NoRun
            \/ /\ run' = [at |-> "compensate"] /\ Job.kind \in {"release", "materialize"}
               /\ UNCHANGED <<queue, tail, op>>
<1>1. CASE Job.kind \in {"release", "materialize"}
  <2>1. run' = [at |-> "compensate"] /\ UNCHANGED <<queue, tail, op>>
    BY <1>1 DEF Abandon
  <2> QED BY <1>1, <2>1 DEF Typed, Runs, RunShape, Job
<1>2. CASE Job.kind \notin {"release", "materialize"}
  <2>1. Throw /\ queue # <<>>
    BY <1>2 DEF Abandon, Typed
  <2> QED BY <2>1, ThrowTyped
<1> QED BY <1>1, <1>2

\* What is put at the end of the queue leaves its head.
LEMMA AppendTyped ==
  ASSUME Typed, NEW job \in Jobs, queue' = Append(queue, job), UNCHANGED run
  PROVE  /\ queue' \in Seq(Jobs) /\ run' \in Runs /\ Len(queue') = Len(queue) + 1
         /\ run' # NoRun => queue' # <<>> /\ RunShape' /\ Job' = Job
         /\ queue # <<>> => Job' = Job
         /\ \A i \in DOMAIN queue : i \in DOMAIN queue' /\ queue'[i] = queue[i]
         /\ queue'[Len(queue) + 1] = job /\ DOMAIN queue' = DOMAIN queue \cup {Len(queue) + 1}
<1>1. queue \in Seq(Jobs)
  BY DEF Typed
<1>2. queue # <<>> => Job' = Job
  BY <1>1 DEF Job
<1> HIDE DEF Job
<1> QED BY <1>1, <1>2 DEF Typed, RunShape

LEMMA AwaitLockTyped ==
  ASSUME Typed, queue # <<>>, Job.kind # "complete", AwaitLock
  PROVE  run' \in Runs /\ run'.at = "lock" /\ run'.next = Changed(Job)
<1>1. Changed(Job) \in Captured
  BY JobFacts, ChangedTyped
<1>2. store.revision \in Nat
  BY DEF Typed, Stores
<1> QED BY <1>1, <1>2 DEF AwaitLock, Runs

LEMMA CompleteFacts ==
  ASSUME Typed, Completing, queue # <<>>, Job.kind = "complete"
  PROVE  op # NoOperation /\ op.at = "complete" /\ Job.agent = op.agent
<1>1. op.at = "complete" /\ Job.agent = op.agent
  BY JobFacts DEF Completing
<1> QED BY <1>1 DEF NoOperation

\* What a job does keeps every variable in its type.
LEMMA JobTyped ==
  ASSUME Typed, Completing, JobStep
  PROVE  Typed'
<1>1. CASE Refuse
  <2>1. Dequeue /\ queue # <<>> /\ (op' = Notified \/ op' = op)
    BY <1>1 DEF Refuse
  <2> QED BY <1>1, <2>1, DequeueTyped, NotifiedTyped DEF Refuse, Typed, agentVars
<1>2. CASE Start
  <2>1. queue # <<>> /\ Job.kind # "complete" /\ Job.kind \in Calls \cup {"terminal", "resume"}
    BY <1>2, JobFacts DEF Start
  <2>2. Changed(Job) \in Captured
    BY <2>1, JobFacts, ChangedTyped
  <2>3. Job' = Job
    BY <1>2 DEF Start, Job
  <2>4. run' \in Runs /\ RunShape'
    <3>1. CASE Job.kind \in {"submit", "terminal"}
      <4>1. run' = [at |-> "commit", next |-> Changed(Job), backing |-> FALSE]
        BY <1>2, <3>1 DEF Start
      <4> QED BY <2>2, <2>3, <3>1, <4>1 DEF Runs, RunShape
    <3>2. CASE Job.kind = "resume"
      <4>1. AwaitLock
        BY <1>2, <3>2 DEF Start
      <4> QED BY <2>1, <2>3, <3>2, <4>1, AwaitLockTyped DEF RunShape
    <3>3. CASE Job.kind \in {"release", "materialize"}
      <4>1. run' = [at |-> "agent"]
        BY <1>2, <3>3 DEF Start
      <4> QED BY <2>3, <3>3, <4>1 DEF Runs, RunShape
    <3> QED BY <2>1, <3>1, <3>2, <3>3 DEF Calls
  <2> QED BY <1>2, <2>1, <2>4 DEF Start, Typed, agentVars
<1>3. CASE AgentAnswers
  <2>1. run # NoRun /\ queue # <<>> /\ run.at = "agent" /\ Job.kind \in {"release", "materialize"}
    BY <1>3 DEF AgentAnswers, NoRun, Typed, RunShape
  <2>2. run' \in Runs /\ RunShape'
    <3>1. Job' = Job
      BY <1>3 DEF AgentAnswers, Job
    <3>2. run' \in Runs /\ run'.at = "lock"
      BY <1>3, <2>1, AwaitLockTyped DEF AgentAnswers
    <3> QED BY <2>1, <3>1, <3>2 DEF RunShape
  <2>3. loaded' \in [Agents -> SUBSET Parts]
    BY <1>3, <2>1 DEF AgentAnswers, Typed, Parts
  <2> QED BY <1>3, <2>1, <2>2, <2>3 DEF AgentAnswers, Typed, agentVars
<1>4. CASE AgentRefuses
  <2>1. queue # <<>>
    BY <1>4 DEF AgentRefuses, NoRun, Typed
  <2>2. Throw /\ (Fail \/ UNCHANGED spent)
    BY <1>4 DEF AgentRefuses
  <2> QED BY <1>4, <2>1, <2>2, ThrowTyped, FailTyped DEF AgentRefuses, Typed, agentVars
<1>5. CASE Stage
  <2>1. run.at = "lock" /\ run # NoRun /\ queue # <<>> /\ RunShape /\ run.next \in Captured /\ store \in Stores
    BY <1>5, RunFacts DEF Stage, NoRun, Typed
  <2>2. store' = Backings(run.next) /\ store' \in Stores
    BY <1>5, <2>1, BackingsTyped DEF Stage
  <2>3. run' = [at |-> "commit", next |-> run.next, backing |-> TRUE, previous |-> store]
    BY <1>5 DEF Stage
  <2>4. run' \in Runs
    BY <2>1, <2>3 DEF Runs
  <2>5. RunShape'
    <3>1. Job' = Job
      BY <1>5 DEF Stage, Job
    <3> QED BY <2>1, <2>3, <3>1 DEF RunShape
  <2> QED BY <1>5, <2>1, <2>2, <2>4, <2>5 DEF Stage, Typed, agentVars
<1>6. CASE StageRefused
  <2>1. run # NoRun /\ Abandon /\ (Fail \/ UNCHANGED spent)
    BY <1>6 DEF StageRefused, NoRun
  <2> QED BY <1>6, <2>1, AbandonTyped, FailTyped DEF StageRefused, Typed, agentVars
<1>7. CASE Commit
  <2>1. run # NoRun /\ queue # <<>> /\ Dequeue /\ host' = run.next /\ run.next \in Captured
    BY <1>7, RunFacts DEF Commit, NoRun, Typed
  <2>2. op' \in Operations \cup {NoOperation}
    <3>1. CASE Job.kind = "complete"
      <4>1. op # NoOperation /\ "settled" \in Places
        BY <2>1, <3>1, CompleteFacts DEF Places, Drained
      <4>2. op' = [op EXCEPT !.at = "settled"]
        BY <1>7, <3>1 DEF Commit
      <4> QED BY <4>1, <4>2, OpMoves
    <3>2. CASE Job.kind # "complete"
      <4>1. op' = op \/ op' = Notified
        BY <1>7, <3>2 DEF Commit
      <4> QED BY <4>1, NotifiedTyped DEF Typed
    <3> QED BY <3>1, <3>2
  <2>3. busy' \subseteq Agents
    <3>1. busy' = IF Job.kind = "submit" THEN busy \cup {Job.agent} ELSE busy
      BY <1>7 DEF Commit
    <3> QED BY <2>1, <3>1, JobFacts DEF Typed
  <2>4. UNCHANGED <<live, store, gates, loaded, spent>>
    BY <1>7 DEF Commit
  <2> QED BY <2>1, <2>2, <2>3, <2>4, DequeueTyped DEF Typed
<1>8. CASE CommitRefused
  <2>1. /\ run.at = "commit" /\ run # NoRun /\ queue # <<>> /\ RunShape /\ run \in Runs
        /\ spent' \in [operations : Nat, calls : Nat, emits : Nat, failures : Nat]
        /\ UNCHANGED <<host, store, lock, gates, agentVars, doubtful>>
    BY <1>8, FailTyped DEF CommitRefused, NoRun, Typed
  <2>2. CASE run.backing /\ run' = [run EXCEPT !.at = "undo"] /\ UNCHANGED <<live, queue, tail, op>>
    <3>1. run' \in Runs /\ run'.at = "undo"
      BY <2>1, <2>2, RunFacts
    <3>2. RunShape' /\ queue' # <<>>
      BY <2>1, <2>2, <3>1 DEF RunShape, Job
    <3> QED BY <2>1, <2>2, <3>1, <3>2 DEF Typed, agentVars
  <2>3. CASE /\ ~run.backing /\ Job.kind = "complete"
             /\ live' = [live EXCEPT ![op.agent] = op.previous.active[op.agent]]
             /\ Dequeue /\ op' = [op EXCEPT !.at = "restore"]
    <3>1. op # NoOperation /\ "restore" \in Places /\ op \in Operations
      BY <2>1, <2>3, CompleteFacts DEF Places, Drained, Typed
    <3>2. op' \in Operations
      BY <2>3, <3>1, OpMoves
    <3>3. op.previous.active[op.agent] \in Registration
      BY <3>1 DEF Operations, Stores
    <3>4. live' \in [Agents -> Registration]
      BY <2>3, <3>3 DEF Typed
    <3> QED BY <2>1, <2>3, <3>2, <3>4, DequeueTyped DEF Typed, agentVars
  <2>4. CASE Abandon /\ UNCHANGED live
    BY <2>1, <2>4, AbandonTyped DEF Typed, agentVars
  <2> QED BY <1>8, <2>2, <2>3, <2>4 DEF CommitRefused
<1>9. CASE Undo
  <2>1. run.at = "undo" /\ run # NoRun /\ Abandon /\ UNCHANGED <<host, live, gates, agentVars, doubtful>>
    BY <1>9 DEF Undo, NoRun
  <2>2. store' \in Stores
    <3>1. run.previous \in Stores /\ store.revision \in Nat
      BY <2>1, RunFacts DEF Typed, Stores
    <3>2. PICK n \in Nat : n = store.revision + 1
      BY <3>1
    <3>3. store' = [run.previous EXCEPT !.revision = n] \/ store' = store
      BY <1>9, <3>2 DEF Undo
    <3> QED BY <3>1, <3>3 DEF Stores, Typed
  <2>3. Fail \/ UNCHANGED spent
    BY <1>9 DEF Undo
  <2> QED BY <2>1, <2>2, <2>3, AbandonTyped, FailTyped DEF Typed, agentVars
<1>10. CASE Compensate
  <2>1. /\ run # NoRun /\ queue # <<>> /\ Throw /\ (Fail \/ UNCHANGED spent)
        /\ UNCHANGED <<host, live, store, lock, gates, busy>>
    BY <1>10 DEF Compensate, NoRun, Typed
  <2>2. loaded' \in [Agents -> SUBSET Parts]
    BY <1>10, <2>1 DEF Compensate, Typed, Parts
  <2> QED BY <2>1, <2>2, ThrowTyped, FailTyped DEF Typed
<1>11. CASE Complete
  <2>1. queue # <<>> /\ Job.kind = "complete" /\ op \in Operations /\ op.agent \in Agents
    BY <1>11, CompleteFacts DEF Complete, Typed, Operations
  <2> DEFINE next == [host EXCEPT ![op.agent].lifecycle = IF op.next = Unregistered THEN "unavailable" ELSE "released"]
  <2>2. /\ UNCHANGED <<host, store, lock, queue, gates, op, tail, agentVars, doubtful, spent>>
        /\ live' = [live EXCEPT ![op.agent] = op.next]
        /\ run' = [at |-> "commit", backing |-> FALSE, next |-> next]
    BY <1>11 DEF Complete
  <2>3. next \in Captured
    <3> DEFINE lifecycle == IF op.next = Unregistered THEN "unavailable" ELSE "released"
    <3>1. lifecycle \in {"available", "released", "unavailable"}
      OBVIOUS
    <3>2. next = [host EXCEPT ![op.agent].lifecycle = lifecycle]
      OBVIOUS
    <3> HIDE DEF next, lifecycle
    <3> QED BY <2>1, <3>1, <3>2, ZenonT(60) DEF Typed, Captured
  <2> HIDE DEF next
  <2>4. run' \in Runs
    BY <2>2, <2>3 DEF Runs
  <2>5. RunShape'
    <3>1. Job' = Job
      BY <2>2 DEF Job
    <3> QED BY <2>1, <2>2, <3>1 DEF RunShape
  <2>6. live' \in [Agents -> Registration]
    BY <2>1, <2>2 DEF Typed, Operations
  <2> QED BY <2>1, <2>2, <2>4, <2>5, <2>6 DEF Typed, agentVars
<1>12. CASE CompleteRefused
  <2>1. /\ queue # <<>> /\ Job.kind = "complete" /\ Dequeue /\ op' = [op EXCEPT !.at = "restore"]
        /\ UNCHANGED <<host, live, store, lock, gates, agentVars, doubtful>> /\ (Fail \/ UNCHANGED spent)
    BY <1>12 DEF CompleteRefused
  <2>2. op # NoOperation /\ "restore" \in Places
    BY <2>1, CompleteFacts DEF Places, Drained
  <2>3. op' \in Operations
    BY <2>1, <2>2, OpMoves
  <2> QED BY <2>1, <2>3, DequeueTyped, FailTyped DEF Typed, agentVars
<1> QED BY <1>1, <1>2, <1>3, <1>4, <1>5, <1>6, <1>7, <1>8, <1>9, <1>10, <1>11, <1>12 DEF JobStep

LEMMA RecordTyped ==
  ASSUME Typed, Record
  PROVE  store' \in Stores
<1>1. store \in Stores /\ store.revision \in Nat
  BY DEF Typed, Stores
<1>2. PICK n \in Nat : n = store.revision + 1
  BY <1>1
<1>3. store' = [store EXCEPT !.revision = n]
  BY <1>2 DEF Record
<1> QED BY <1>1, <1>3 DEF Stores

\* A step of the operation that leaves the queue and its job alone.
LEMMA QuietTyped ==
  ASSUME Typed, UNCHANGED <<queue, run>>, host' \in Captured, live' \in [Agents -> Registration], store' \in Stores,
         op' \in Operations \cup {NoOperation}, gates' \subseteq Agents, busy' \subseteq Agents, tail' \in Nat,
         loaded' \in [Agents -> SUBSET Parts], Fail \/ UNCHANGED spent
  PROVE  Typed'
<1>1. spent' \in [operations : Nat, calls : Nat, emits : Nat, failures : Nat]
  BY FailTyped
<1> QED BY <1>1 DEF Typed, RunShape, Job

\* The most frequent of them: the operation goes to a place.
LEMMA MoveTyped ==
  ASSUME Typed, op # NoOperation, NEW at \in Places, op' = [op EXCEPT !.at = at],
         UNCHANGED <<queue, run, host, live, loaded, busy>>, store' \in Stores, gates' \subseteq Agents, tail' \in Nat,
         Fail \/ UNCHANGED spent
  PROVE  Typed'
<1>1. op' \in Operations
  BY OpMoves
<1> QED BY <1>1, QuietTyped DEF Typed

LEMMA FlagsTyped ==
  ASSUME Typed, NEW a \in Agents, NEW up \in SUBSET Parts
  PROVE  [host EXCEPT ![a].up = up] \in Captured /\ [loaded EXCEPT ![a] = up] \in [Agents -> SUBSET Parts]
BY DEF Typed, Captured

\* What the operation does keeps every variable in its type.
LEMMA OperationTyped ==
  ASSUME Typed, Completing, OperationStep
  PROVE  Typed'
<1> DEFINE Begun == op \in Operations /\ op # NoOperation /\ op.agent \in Agents /\ store \in Stores
<1>0. op # NoOperation => Begun
  BY DEF Typed, Operations
<1>1. CASE CommitRecord
  <2>1. /\ op.at \in {"recorded", "prepared", "activated", "finished", "failed"} /\ Record
        /\ UNCHANGED <<host, live, queue, run, gates, tail, agentVars, doubtful, spent>>
    BY <1>1 DEF CommitRecord
  <2>2. op # NoOperation
    BY <2>1 DEF NoOperation
  <2>3. PICK at \in Places : op' = [op EXCEPT !.at = at] \/ op' = NoOperation
    BY <1>1, <2>1 DEF CommitRecord, Places, Drained
  <2>4. op' \in Operations \cup {NoOperation}
    BY <2>2, <2>3, OpMoves
  <2> QED BY <2>1, <2>4, RecordTyped, QuietTyped DEF Typed, agentVars
<1>2. CASE CommitRecordRefused
  <2>1. /\ op.at \in {"recorded", "prepared", "activated", "finished", "failed"} /\ Fail
        /\ UNCHANGED <<host, live, store, queue, run, gates, tail, agentVars, doubtful>>
    BY <1>2 DEF CommitRecordRefused
  <2>2. op # NoOperation
    BY <2>1 DEF NoOperation
  <2>3. \E at \in Places : op' = [op EXCEPT !.at = at]
    <3>1. CASE op.at = "activated"
      BY <1>2, <3>1 DEF CommitRecordRefused, Places, Drained
    <3>2. CASE op.at # "activated"
      <4>1. op' = [op EXCEPT !.at = IF op.at = "finished" THEN "finished" ELSE "failed"]
        BY <1>2, <3>2 DEF CommitRecordRefused
      <4> QED BY <4>1 DEF Places
    <3> QED BY <3>1, <3>2
  <2> QED BY <1>0, <2>1, <2>2, <2>3, MoveTyped DEF Typed, agentVars
<1>3. CASE Gate
  <2>1. op # NoOperation /\ op' = [op EXCEPT !.at = "drain"] /\ "drain" \in Places /\ gates' = gates \cup {op.agent}
        /\ tail' = Len(queue)
        /\ UNCHANGED <<host, live, store, lock, queue, run, agentVars, doubtful, spent>>
    BY <1>3 DEF Gate, NoOperation, Places
  <2>2. tail' \in Nat /\ gates' \subseteq Agents
    BY <1>0, <2>1 DEF Typed
  <2> QED BY <1>0, <2>1, <2>2, MoveTyped DEF Typed, agentVars
<1>4. CASE Drain
  <2>1. op # NoOperation /\ UNCHANGED <<host, live, store, lock, queue, run, gates, tail, agentVars, doubtful, spent>>
    BY <1>4 DEF Drain, NoOperation
  <2>2. PICK at \in {"checkpoint", "asleep"} : op' = [op EXCEPT !.at = at]
    BY <1>4 DEF Drain
  <2> QED BY <2>1, <2>2, MoveTyped DEF Typed, agentVars, Places, Drained
<1>5. CASE Checkpoint
  <2>1. op # NoOperation /\ UNCHANGED <<host, live, store, lock, queue, run, gates, tail, agentVars, doubtful, spent>>
    BY <1>5 DEF Checkpoint, NoOperation
  <2>2. PICK records \in SUBSET Parts : records = IF op.kind = "install" THEN {} ELSE store.up[op.agent]
    BY <1>0, <2>1 DEF Stores
  <2>3. PICK carried \in Resume : carried = Retained(op.agent)
    <3>1. NoResume \in Resume
      BY NoResumeTyped
    <3>2. store.retained \in Records
      BY <1>0, <2>1 DEF Stores
    <3>3. \A a \in DOMAIN store.retained : store.retained[a] \in Resume
      BY <3>2 DEF Records
    <3> QED BY <3>1, <3>3 DEF Retained
  <2>4. PICK at \in Places : op' = [op EXCEPT !.records = records, !.carried = carried, !.at = at]
    <3> DEFINE at == CASE op.kind = "install" -> "migrate"
                       [] op.kind # "install" /\ Mismatched(op.agent, records) -> "rollback"
                       [] OTHER -> "release"
    <3>1. at \in Places
      BY DEF Places, Drained
    <3>2. op' = [op EXCEPT !.records = records, !.carried = carried, !.at = at]
      BY <1>5, <2>2, <2>3 DEF Checkpoint
    <3> HIDE DEF at
    <3> QED BY <3>1, <3>2
  <2>5. op' \in Operations
    BY <1>0, <2>1, <2>4 DEF Operations
  <2> QED BY <2>1, <2>5, QuietTyped DEF Typed, agentVars
<1>6. CASE Release
  <2> DEFINE part == IF "chat" \in Unreleased THEN "chat" ELSE "session"
             gone == IF part = "chat" THEN {"chat"} ELSE Parts
  <2>1. /\ op # NoOperation /\ UNCHANGED <<live, store, lock, queue, run, gates, tail, busy, doubtful, spent>>
        /\ loaded' = [loaded EXCEPT ![op.agent] = @ \ gone]
        /\ host' = [host EXCEPT ![op.agent].up = @ \ gone]
        /\ op' = [op EXCEPT !.released = @ \cup {part}]
    BY <1>6 DEF Release, NoOperation
  <2>2. part \in Parts
    BY DEF Parts
  <2> HIDE DEF part, gone
  <2>3. host' \in Captured /\ loaded' \in [Agents -> SUBSET Parts]
    BY <1>0, <2>1 DEF Typed, Captured
  <2>4. op' \in Operations
    BY <1>0, <2>1, <2>2 DEF Operations
  <2> QED BY <2>1, <2>3, <2>4, QuietTyped DEF Typed
<1>7. CASE ReleaseRefused \/ MigrateRefused \/ CommitStateRefused
  <2>1. /\ op # NoOperation /\ Fail /\ UNCHANGED <<host, live, store, queue, run, gates, tail, agentVars, doubtful>>
        /\ \E at \in {"unrelease", "rollback"} : op' = [op EXCEPT !.at = at]
    BY <1>7 DEF ReleaseRefused, MigrateRefused, CommitStateRefused, NoOperation
  <2>2. PICK at \in Places : op' = [op EXCEPT !.at = at]
    BY <2>1 DEF Places, Drained
  <2> QED BY <2>1, <2>2, MoveTyped DEF Typed, agentVars
<1>8. CASE Released
  <2>1. op # NoOperation /\ op' = [op EXCEPT !.at = "settle"] /\ "settle" \in Places /\ tail' \in Nat
        /\ UNCHANGED <<host, live, store, lock, queue, run, gates, agentVars, doubtful, spent>>
    BY <1>8 DEF Released, NoOperation, Places, Drained, Typed
  <2> QED BY <2>1, MoveTyped DEF Typed, agentVars
<1>9. CASE TakeCheckpoints
  <2>1. op # NoOperation /\ UNCHANGED <<host, live, store, lock, queue, run, gates, tail, agentVars, doubtful, spent>>
    BY <1>9 DEF TakeCheckpoints, NoOperation
  <2>2. CASE op' = [op EXCEPT !.at = "rollback", !.released = {}]
    <3>1. op' \in Operations
      BY <1>0, <2>1, <2>2 DEF Operations, Places, Drained
    <3> QED BY <2>1, <3>1, QuietTyped DEF Typed, agentVars
  <2>3. ASSUME NEW carried \in Resume, op' = [op EXCEPT !.at = "migrate", !.carried = carried]
        PROVE  Typed'
    <3>1. op' \in Operations
      BY <1>0, <2>1, <2>3 DEF Operations, Places, Drained
    <3> QED BY <2>1, <3>1, QuietTyped DEF Typed, agentVars
  <2>4. host[op.agent].resume \in Resume /\ op.carried \in Resume
    BY <1>0, <2>1 DEF Typed, Captured, Operations
  <2> QED BY <1>9, <2>2, <2>3, <2>4 DEF TakeCheckpoints
<1>10. CASE Migrate
  <2>1. op # NoOperation /\ UNCHANGED <<host, live, store, queue, run, gates, tail, agentVars, doubtful, spent>>
    BY <1>10 DEF Migrate, NoOperation
  <2>2. PICK carried \in Resume : carried = Migrated(op.carried)
    BY <1>0, <2>1 DEF Migrated, Operations, Resume, Registration
  <2>3. op' = [op EXCEPT !.carried = carried, !.at = "activated"]
    BY <1>10, <2>2 DEF Migrate
  <2>4. op' \in Operations
    BY <1>0, <2>1, <2>3 DEF Operations, Places, Drained
  <2> QED BY <2>1, <2>4, QuietTyped DEF Typed, agentVars
<1>11. CASE CommitState
  <2>1. /\ op # NoOperation /\ op' = [op EXCEPT !.at = "complete", !.previous = store]
        /\ queue' = Append(queue, [kind |-> "complete", agent |-> op.agent])
        /\ UNCHANGED <<host, live, lock, run, gates, tail, agentVars, doubtful, spent>>
    BY <1>11 DEF CommitState, NoOperation
  <2>2. [kind |-> "complete", agent |-> op.agent] \in Jobs
    BY <1>0, <2>1 DEF Jobs
  <2>3. op' \in Operations
    BY <1>0, <2>1 DEF Operations, Places, Drained
  <2>4. store' \in Stores
    <3> DEFINE active == [store.active EXCEPT ![op.agent] = op.next]
               retained == [a \in DOMAIN store.retained \cup {op.agent} |->
                              IF a = op.agent THEN op.carried ELSE store.retained[a]]
               ups == [store.up EXCEPT ![op.agent] = {}]
    <3>1. active \in [Agents -> Registration] /\ ups \in [Agents -> SUBSET Parts]
      BY <1>0, <2>1 DEF Stores, Operations
    <3>2. retained \in Records
      <4>1. PICK R \in SUBSET Agents : store.retained \in [R -> Resume]
        BY <1>0, <2>1 DEF Stores, Records
      <4>2. op.carried \in Resume /\ op.agent \in Agents
        BY <1>0, <2>1 DEF Operations
      <4>3. retained \in [R \cup {op.agent} -> Resume]
        BY <4>1, <4>2
      <4>4. R \cup {op.agent} \in SUBSET Agents
        BY <4>1, <4>2
      <4> HIDE DEF retained
      <4> QED BY <4>3, <4>4 DEF Records
    <3>3. PICK n \in Nat : n = store.revision + 1
      BY <1>0, <2>1 DEF Stores
    <3>4. store' = [[[[store EXCEPT !.revision = n] EXCEPT !.active = active] EXCEPT !.retained = retained]
                      EXCEPT !.up = ups]
      BY <1>11, <1>0, <2>1, <3>3 DEF CommitState, Stores
    <3> HIDE DEF active, retained, ups
    <3> QED BY <1>0, <2>1, <3>1, <3>2, <3>3, <3>4 DEF Stores
  <2> QED BY <2>1, <2>2, <2>3, <2>4, AppendTyped DEF Typed, agentVars
<1>12. CASE Settled
  <2>1. /\ op # NoOperation /\ op' = [op EXCEPT !.at = "finished"] /\ "finished" \in Places /\ gates' \subseteq gates
        /\ UNCHANGED <<host, live, store, queue, run, tail, agentVars, doubtful, spent>>
    BY <1>12 DEF Settled, NoOperation, Places
  <2> QED BY <2>1, MoveTyped DEF Typed, agentVars
<1>13. CASE Restore
  <2>1. op # NoOperation /\ UNCHANGED <<host, live, queue, run, gates, tail, agentVars, doubtful>>
        /\ (Fail \/ UNCHANGED spent)
        /\ \E at \in {"rollback", "stuck"} : op' = [op EXCEPT !.at = at]
    BY <1>13 DEF Restore, NoOperation
  <2>2. PICK at \in Places : op' = [op EXCEPT !.at = at]
    BY <2>1 DEF Places, Drained
  <2>3. store' \in Stores
    <3>1. PICK n \in Nat : n = store.revision + 1
      BY <1>0, <2>1 DEF Stores
    <3>2. store' = [op.previous EXCEPT !.revision = n] \/ store' = store
      BY <1>13, <3>1 DEF Restore
    <3> QED BY <1>0, <2>1, <3>2 DEF Stores, Operations
  <2> QED BY <2>1, <2>2, <2>3, MoveTyped DEF Typed, agentVars
<1>14. CASE Rematerialize
  <2> DEFINE part == IF "session" \in op.released THEN "session" ELSE "chat"
  <2>1. /\ op # NoOperation /\ UNCHANGED <<live, store, lock, queue, run, gates, tail, busy, doubtful, spent>>
        /\ loaded' = [loaded EXCEPT ![op.agent] = @ \cup {part}]
        /\ host' = [host EXCEPT ![op.agent].up = @ \cup {part}]
        /\ op' = [op EXCEPT !.released = @ \ {part}]
    BY <1>14 DEF Rematerialize, NoOperation
  <2>2. part \in Parts
    BY DEF Parts
  <2> HIDE DEF part
  <2>3. host' \in Captured /\ loaded' \in [Agents -> SUBSET Parts]
    BY <1>0, <2>1, <2>2, SMTT(40) DEF Typed, Captured
  <2>4. op' \in Operations
    BY <1>0, <2>1 DEF Operations
  <2> QED BY <2>1, <2>3, <2>4, QuietTyped DEF Typed
<1>15. CASE RematerializeRefused
  <2>1. op # NoOperation /\ Fail /\ UNCHANGED <<host, live, store, lock, queue, run, gates, tail, agentVars>>
    BY <1>15 DEF RematerializeRefused, NoOperation
  <2>2. op' \in Operations
    <3>1. [op EXCEPT !.at = "rollback", !.released = {}] \in Operations /\ [op EXCEPT !.at = "stuck"] \in Operations
      BY <1>0, <2>1 DEF Operations, Places, Drained
    <3> QED BY <1>15, <3>1 DEF RematerializeRefused
  <2> QED BY <2>1, <2>2, QuietTyped DEF Typed, agentVars
<1>16. CASE RolledBack
  <2>1. /\ op # NoOperation /\ op' = [op EXCEPT !.at = "failed"] /\ "failed" \in Places /\ gates' \subseteq gates
        /\ UNCHANGED <<host, live, store, queue, run, tail, agentVars, doubtful, spent>>
    BY <1>16 DEF RolledBack, AwaitStateLock, NoOperation, Places
  <2> QED BY <2>1, MoveTyped DEF Typed, agentVars
<1> QED BY <1>1, <1>2, <1>3, <1>4, <1>5, <1>6, <1>7, <1>8, <1>9, <1>10, <1>11, <1>12, <1>13, <1>14, <1>15, <1>16
        DEF OperationStep

\* So does what clients and Agents put in the queue.
LEMMA EnvironmentTyped ==
  ASSUME Typed, Environment
  PROVE  Typed'
<1>1. ASSUME NEW a \in Agents, NEW call \in Calls, Ask(a, call)
      PROVE  Typed'
  <2>1. [kind |-> call, agent |-> a] \in Jobs
    BY DEF Jobs
  <2>2. spent' \in [operations : Nat, calls : Nat, emits : Nat, failures : Nat]
    BY <1>1, Spending DEF Ask
  <2>3. /\ queue' = Append(queue, [kind |-> call, agent |-> a])
        /\ UNCHANGED <<host, live, store, lock, run, gates, op, tail, agentVars, doubtful>>
    BY <1>1 DEF Ask
  <2> QED BY <2>1, <2>2, <2>3, AppendTyped DEF Typed, agentVars
<1>2. ASSUME NEW a \in Agents, Emit(a)
      PROVE  Typed'
  <2> DEFINE resume == [stamp |-> spent.emits + 1, schema |-> live[a].schema]
             job == [kind |-> "resume", agent |-> a, resume |-> resume]
  <2>1. resume \in Resume
    BY <1>2, EmittedTyped
  <2>2. job \in Jobs
    BY <2>1 DEF Jobs
  <2>3. spent' \in [operations : Nat, calls : Nat, emits : Nat, failures : Nat]
    BY <1>2, Spending DEF Emit
  <2>4. /\ queue' = Append(queue, job)
        /\ UNCHANGED <<host, live, store, lock, run, gates, op, tail, agentVars, doubtful>>
    BY <1>2 DEF Emit
  <2> HIDE DEF job
  <2> QED BY <2>2, <2>3, <2>4, AppendTyped DEF Typed, agentVars
<1>3. ASSUME NEW a \in Agents, EndTurn(a)
      PROVE  Typed'
  <2>1. [kind |-> "terminal", agent |-> a] \in Jobs
    BY DEF Jobs
  <2>2. /\ queue' = Append(queue, [kind |-> "terminal", agent |-> a]) /\ busy' \subseteq busy
        /\ UNCHANGED <<host, live, store, lock, run, gates, op, tail, loaded, doubtful, spent>>
    BY <1>3 DEF EndTurn
  <2> QED BY <2>1, <2>2, AppendTyped DEF Typed
<1>4. ASSUME NEW a \in Agents, NEW kind \in {"update", "uninstall", "install"}, NEW next \in Registration,
             Open(a, kind, next)
      PROVE  Typed'
  <2>1. spent' \in [operations : Nat, calls : Nat, emits : Nat, failures : Nat]
    BY <1>4, Spending DEF Open
  <2>2. /\ op' = [at |-> "recorded", agent |-> a, kind |-> kind, next |-> next, previous |-> store,
                  records |-> {}, released |-> {}, carried |-> NoResume]
        /\ UNCHANGED <<host, live, store, queue, run, gates, tail, agentVars, doubtful>>
    BY <1>4 DEF Open
  <2>3. op' \in Operations
    BY <2>2, NoResumeTyped DEF Operations, Places, Typed
  <2> QED BY <2>1, <2>2, <2>3 DEF Typed, RunShape, Job, agentVars
<1>5. ASSUME NEW schema \in 1 .. MaxSchema, Spend("operations")
      PROVE  [revision |-> spent.operations + 2, schema |-> schema] \in Registration
  <2>1. spent.operations < MaxOperations /\ spent.operations \in Nat /\ MaxOperations \in Nat
    BY <1>5, BoundsAssumption DEF Spend, Typed
  <2>2. spent.operations + 2 \in 0 .. MaxOperations + 1 /\ schema \in 0 .. MaxSchema
    BY <2>1, BoundsAssumption
  <2> QED BY <2>2 DEF Registration
<1>6. Unregistered \in Registration
  BY BoundsAssumption DEF Unregistered, Registration
<1>7. CASE \E a \in Agents, kind \in {"update", "install"}, schema \in 1 .. MaxSchema :
             Open(a, kind, [revision |-> spent.operations + 2, schema |-> schema])
  <2>1. PICK a \in Agents, kind \in {"update", "install"}, schema \in 1 .. MaxSchema :
          Open(a, kind, [revision |-> spent.operations + 2, schema |-> schema])
    BY <1>7
  <2>2. Spend("operations")
    BY <2>1 DEF Open
  <2> QED BY <1>4, <1>5, <2>1, <2>2
<1>8. CASE \E a \in Agents : Open(a, "uninstall", Unregistered)
  BY <1>4, <1>6, <1>8
<1> QED BY <1>1, <1>2, <1>3, <1>7, <1>8 DEF Environment

-----------------------------------------------------------------------------
\* How a job leaves the queue: the operation is woken, or goes on when it was
\* the Host's part of it.
Leaves ==
  /\ queue # <<>> /\ Dequeue
  /\ IF Job.kind = "complete" THEN op' \in {[op EXCEPT !.at = "settled"], [op EXCEPT !.at = "restore"]}
                              ELSE op' \in {op, Notified}

LEMMA JobLeaves ==
  ASSUME Typed, Completing, JobStep
  PROVE  \/ Leaves
         \/ UNCHANGED <<queue, op, tail>> /\ queue # <<>>
<1>1. CASE Refuse \/ Start \/ Complete \/ CompleteRefused
  BY <1>1 DEF Refuse, Start, Complete, CompleteRefused, Leaves
<1>2. CASE run # NoRun
  <2>1. queue # <<>>
    BY <1>2 DEF Typed
  <2>2. Throw => Leaves \/ Job.kind = "complete"
    BY <2>1 DEF Throw, Leaves
  <2>3. run.at = "agent" \/ run.at = "compensate" => Job.kind \in {"release", "materialize"}
    BY <1>2 DEF Typed, RunShape
  <2>4. run.at \in {"lock", "undo"} => Job.kind \in {"resume", "release", "materialize"}
    BY <1>2 DEF Typed, RunShape
  <2>5. Abandon /\ Job.kind # "complete" => Leaves \/ UNCHANGED <<queue, op, tail>>
    BY <2>2 DEF Abandon
  <2>6. CASE AgentAnswers \/ Stage
    BY <2>1, <2>6 DEF AgentAnswers, Stage
  <2>7. CASE AgentRefuses \/ Compensate
    BY <2>2, <2>3, <2>7 DEF AgentRefuses, Compensate
  <2>8. CASE StageRefused \/ Undo
    BY <2>1, <2>4, <2>5, <2>8 DEF StageRefused, Undo
  <2>9. CASE Commit
    BY <2>1, <2>9 DEF Commit, Leaves
  <2>10. CASE CommitRefused
    BY <2>1, <2>5, <2>10 DEF CommitRefused, Leaves
  <2> QED BY <1>1, <2>6, <2>7, <2>8, <2>9, <2>10 DEF JobStep
<1>3. CASE run = NoRun
  <2>1. run.at = "idle"
    BY <1>3 DEF NoRun
  <2> QED BY <1>1, <2>1 DEF JobStep, AgentAnswers, AgentRefuses, Stage, StageRefused, Commit, CommitRefused,
                            Undo, Compensate
<1> QED BY <1>2, <1>3

\* complete stands in the catalog queue once, and only while the operation awaits it.
LEMMA CompletingKept ==
  ASSUME Typed, Completing, JobStep \/ OperationStep \/ Environment
  PROVE  Completing'
<1>1. CASE Leaves
  <2>1. \A i \in DOMAIN queue' : i \in Nat \ {0} /\ i + 1 \in DOMAIN queue /\ queue'[i] = queue[i + 1]
    BY <1>1, JobFacts DEF Leaves, Dequeue
  <2>2. CASE Job.kind = "complete"
    <3>1. \A i \in DOMAIN queue' : queue'[i].kind # "complete"
      <4>1. 1 \in DOMAIN queue /\ queue[1].kind = "complete"
        BY <1>1, <2>2, JobFacts DEF Leaves
      <4>2. \A i \in DOMAIN queue : queue[i].kind = "complete" => i = 1
        BY <4>1 DEF Completing
      <4> QED BY <2>1, <4>2
    <3> QED BY <3>1 DEF Completing
  <2>3. CASE Job.kind # "complete"
    <3>1. op.at = "complete" => op' = op
      BY <1>1, <2>3 DEF Leaves, Notified
    <3> QED BY <2>1, <3>1 DEF Completing
  <2> QED BY <2>2, <2>3
<1>2. CASE UNCHANGED <<queue, op>>
  BY <1>2 DEF Completing
<1>3. CASE OperationStep
  <2>1. op.at # "complete"
    BY <1>3 DEF OperationStep, CommitRecord, CommitRecordRefused, Gate, Drain, Checkpoint, Release, ReleaseRefused,
                Released, TakeCheckpoints, Migrate, MigrateRefused, CommitState, CommitStateRefused, Settled,
                Restore, Rematerialize, RematerializeRefused, RolledBack
  <2>2. \A i \in DOMAIN queue : queue[i].kind # "complete"
    BY <2>1 DEF Completing
  <2>3. CASE UNCHANGED queue
    BY <2>2, <2>3 DEF Completing
  <2>4. CASE CommitState
    <3>1. op # NoOperation /\ op \in Operations /\ op.agent \in Agents
      BY <2>4 DEF CommitState, NoOperation, Typed, Operations
    <3> DEFINE job == [kind |-> "complete", agent |-> op.agent]
    <3>2. job \in Jobs /\ job.kind = "complete" /\ job.agent = op.agent
      BY <3>1 DEF Jobs
    <3>3. queue' = Append(queue, job) /\ op' = [op EXCEPT !.at = "complete", !.previous = store] /\ UNCHANGED run
      BY <2>4 DEF CommitState
    <3>4. op'.at = "complete" /\ op'.agent = op.agent
      BY <3>1, <3>3 DEF Operations
    <3> HIDE DEF job
    <3> QED BY <2>2, <3>2, <3>3, <3>4, AppendTyped DEF Completing
  <2> QED BY <1>3, <2>3, <2>4
          DEF OperationStep, CommitRecord, CommitRecordRefused, Gate, Drain, Checkpoint, Release, ReleaseRefused,
              Released, TakeCheckpoints, Migrate, MigrateRefused, CommitStateRefused, Settled,
              Restore, Rematerialize, RematerializeRefused, RolledBack
<1>4. CASE Environment
  <2>1. ASSUME NEW job, job.kind # "complete", queue' = Append(queue, job), UNCHANGED op
        PROVE  Completing'
    <3>1. queue \in Seq(Jobs)
      BY DEF Typed
    <3>2. /\ DOMAIN queue' = DOMAIN queue \cup {Len(queue) + 1}
          /\ \A i \in DOMAIN queue : queue'[i] = queue[i]
          /\ queue'[Len(queue) + 1] = job
      BY <2>1, <3>1
    <3> QED BY <2>1, <3>2 DEF Completing
  <2>2. ASSUME NEW a \in Agents, NEW call \in Calls, Ask(a, call)
        PROVE  Completing'
    BY <2>1, <2>2 DEF Ask, Calls
  <2>3. ASSUME NEW a \in Agents, Emit(a) \/ EndTurn(a)
        PROVE  Completing'
    BY <2>1, <2>3 DEF Emit, EndTurn
  <2>4. ASSUME NEW a, NEW kind, NEW next, Open(a, kind, next)
        PROVE  Completing'
    <3>1. op.at # "complete" /\ queue' = queue
      BY <2>4 DEF Open, NoOperation
    <3> QED BY <3>1 DEF Completing
  <2> QED BY <1>4, <2>2, <2>3, <2>4 DEF Environment
<1> QED BY <1>1, <1>2, <1>3, <1>4, JobLeaves

-----------------------------------------------------------------------------
(* Turns *)

\* What a job captured differs from the Host's Turns where the job changes one.
Capturing == run.at \in {"lock", "commit", "undo"}
TurnAfter(a) ==
  IF Job.agent = a /\ Job.kind = "submit" THEN TRUE
  ELSE IF Job.agent = a /\ Job.kind = "terminal" THEN FALSE ELSE host[a].turn
TurnsCaptured == Capturing => \A a \in Agents : run.next[a].turn = TurnAfter(a)
Submits == run # NoRun /\ Job.kind = "submit" => ~host[Job.agent].turn

\* The Host takes a Turn for open as long as the Agent runs it, and afterwards
\* until its end, which is reported once.
Ending(i, a) == queue[i].kind = "terminal" /\ queue[i].agent = a
OpenTurns ==
  \A a \in Agents :
    /\ a \in busy => host[a].turn /\ \A i \in DOMAIN queue : ~Ending(i, a)
    /\ \A i \in DOMAIN queue : Ending(i, a) => host[a].turn
    /\ \A i, j \in DOMAIN queue : Ending(i, a) /\ Ending(j, a) => i = j
Turns == TurnsCaptured /\ Submits /\ OpenTurns

Gated == op.at \in Drained \cup {"drain", "asleep"} => op.agent \in gates

LEMMA HostTurns ==
  ASSUME Typed, NEW a \in Agents
  PROVE  host[a].turn \in BOOLEAN
BY DEF Typed, Captured

LEMMA ChangedTurns ==
  ASSUME Typed, queue # <<>>, Job.kind # "complete", NEW a \in Agents
  PROVE  Changed(Job)[a].turn = TurnAfter(a)
<1>1. Job.agent \in Agents /\ Job.kind \in Calls \cup {"terminal", "resume"}
  BY JobFacts
<1>2. DOMAIN host = Agents /\ \A b \in Agents : DOMAIN host[b] = {"lifecycle", "up", "turn", "resume"}
  BY DEF Typed, Captured
<1> HIDE DEF Job
<1> QED BY <1>1, <1>2 DEF Changed, TurnAfter, Calls

\* Steps that touch neither a Turn nor the first job.
LEMMA TurnsQuiet ==
  ASSUME Typed, Turns, \A a \in Agents : host'[a].turn = host[a].turn, busy' = busy,
         queue' = queue \/ \E job \in Jobs : job.kind # "terminal" /\ queue' = Append(queue, job),
         \/ run' = run
         \/ run # NoRun /\ queue' = queue /\ run'.at \in {"agent", "compensate"}
         \/ Capturing /\ queue' = queue /\ run'.next = run.next
  PROVE  Turns'
<1>1. /\ \A i \in DOMAIN queue' : (i \in DOMAIN queue /\ queue'[i] = queue[i]) \/ queue'[i].kind # "terminal"
      /\ queue # <<>> => Job' = Job
  <2>1. CASE queue' = queue
    BY <2>1 DEF Job
  <2>2. ASSUME NEW job \in Jobs, job.kind # "terminal", queue' = Append(queue, job)
        PROVE  /\ \A i \in DOMAIN queue' : (i \in DOMAIN queue /\ queue'[i] = queue[i]) \/ queue'[i].kind # "terminal"
               /\ queue # <<>> => Job' = Job
    <3>1. queue \in Seq(Jobs)
      BY DEF Typed
    <3> QED BY <2>2, <3>1 DEF Job
  <2> QED BY <2>1, <2>2
<1>2. OpenTurns'
  BY <1>1 DEF Turns, OpenTurns, Ending
<1>3. run # NoRun => queue # <<>> /\ Job' = Job /\ Job.agent \in Agents
  BY <1>1, JobFacts DEF Typed
<1>4. Capturing => run # NoRun
  BY DEF Capturing, NoRun
<1>5. Capturing' => Capturing /\ run'.next = run.next
  BY DEF Capturing
<1>6. run' # NoRun => run # NoRun
  BY <1>4
<1>7. TurnsCaptured'
  BY <1>3, <1>4, <1>5 DEF Turns, TurnsCaptured, TurnAfter
<1>8. Submits'
  BY <1>3, <1>6 DEF Turns, Submits
<1> QED BY <1>2, <1>7, <1>8 DEF Turns

\* The first job leaves the queue without having changed a Turn.
LEMMA TurnsLeft ==
  ASSUME Typed, Turns, queue # <<>>, Dequeue, host' = host, busy' = busy
  PROVE  Turns'
<1>1. /\ run' = NoRun
      /\ \A i \in DOMAIN queue' : i \in Nat \ {0} /\ i + 1 \in DOMAIN queue /\ queue'[i] = queue[i + 1]
  BY JobFacts DEF Dequeue
<1>2. OpenTurns'
  BY <1>1 DEF Turns, OpenTurns, Ending
<1> QED BY <1>1, <1>2 DEF Turns, TurnsCaptured, Submits, Capturing, NoRun

\* The first job begins to run, or its Agent has answered.
LEMMA TurnsBegun ==
  ASSUME Typed, Turns, queue # <<>>, UNCHANGED <<queue, host, busy>>, Job.kind = "submit" => ~host[Job.agent].turn,
         \/ run'.at = "agent"
         \/ Job.kind # "complete" /\ run'.next = Changed(Job)
         \/ Job.kind = "complete" /\ \A a \in Agents : run'.next[a].turn = host[a].turn
  PROVE  Turns'
<1>1. Job' = Job
  BY DEF Job
<1>2. \A a \in Agents : TurnAfter(a)' = TurnAfter(a)
  BY <1>1 DEF TurnAfter
<1>3. Job.kind = "complete" => \A a \in Agents : TurnAfter(a) = host[a].turn
  BY DEF TurnAfter
<1>4. TurnsCaptured'
  BY <1>2, <1>3, ChangedTurns DEF TurnsCaptured, Capturing
<1>5. Submits'
  BY <1>1 DEF Submits
<1>6. OpenTurns'
  BY DEF Turns, OpenTurns, Ending
<1> QED BY <1>4, <1>5, <1>6 DEF Turns

LEMMA TurnsCommitted ==
  ASSUME Typed, Completing, Turns, Commit
  PROVE  Turns'
<1>1. run # NoRun /\ queue # <<>> /\ Capturing /\ Dequeue
  BY DEF Commit, Capturing, NoRun, Typed
<1>2. /\ run' = NoRun /\ Job = queue[1] /\ 1 \in DOMAIN queue /\ Job.agent \in Agents
      /\ \A i \in DOMAIN queue' : i \in Nat \ {0} /\ i + 1 \in DOMAIN queue /\ queue'[i] = queue[i + 1]
  BY <1>1, JobFacts DEF Dequeue
<1>3. \A a \in Agents : host'[a].turn = TurnAfter(a)
  BY <1>1 DEF Commit, Turns, TurnsCaptured
<1>4. busy' = IF Job.kind = "submit" THEN busy \cup {Job.agent} ELSE busy
  BY DEF Commit
<1>5. ASSUME NEW a \in Agents
      PROVE  /\ a \in busy' => host'[a].turn /\ \A i \in DOMAIN queue' : ~Ending(i, a)'
             /\ \A i \in DOMAIN queue' : Ending(i, a)' => host'[a].turn
             /\ \A i, j \in DOMAIN queue' : Ending(i, a)' /\ Ending(j, a)' => i = j
  <2>1. \A i \in DOMAIN queue' : Ending(i, a)' => Ending(i + 1, a)
    BY <1>2 DEF Ending
  <2>2. /\ a \in busy => host[a].turn /\ \A i \in DOMAIN queue : ~Ending(i, a)
        /\ \A i \in DOMAIN queue : Ending(i, a) => host[a].turn
        /\ \A i, j \in DOMAIN queue : Ending(i, a) /\ Ending(j, a) => i = j
    BY DEF Turns, OpenTurns
  <2>3. \A i, j \in DOMAIN queue' : Ending(i, a)' /\ Ending(j, a)' => i = j
    BY <1>2, <2>1, <2>2
  <2>4. CASE Job.agent = a /\ Job.kind = "submit"
    <3>1. ~host[a].turn
      BY <1>1, <2>4 DEF Turns, Submits
    <3>2. \A i \in DOMAIN queue' : ~Ending(i, a)'
      BY <1>2, <2>1, <2>2, <3>1
    <3>3. host'[a].turn
      BY <1>3, <2>4 DEF TurnAfter
    <3> QED BY <2>3, <3>2, <3>3
  <2>5. CASE Job.agent = a /\ Job.kind = "terminal"
    <3>1. Ending(1, a)
      BY <1>2, <2>5 DEF Ending
    <3>2. \A i \in DOMAIN queue' : ~Ending(i, a)'
      BY <1>2, <2>1, <2>2, <3>1
    <3>3. a \notin busy /\ a \notin busy'
      BY <1>2, <1>4, <2>2, <2>5, <3>1
    <3> QED BY <3>2, <3>3
  <2>6. CASE Job.agent # a \/ Job.kind \notin {"submit", "terminal"}
    <3>1. host'[a].turn = host[a].turn /\ (a \in busy' <=> a \in busy)
      BY <1>3, <1>4, <2>6 DEF TurnAfter
    <3> QED BY <1>2, <2>1, <2>2, <2>3, <3>1
  <2> QED BY <2>4, <2>5, <2>6
<1>6. OpenTurns'
  BY <1>5 DEF OpenTurns
<1> QED BY <1>2, <1>6 DEF Turns, TurnsCaptured, Submits, Capturing, NoRun

\* An Agent that runs a Turn has it open at the Host, with one end of it to come
\* (submit, turnTerminal).
LEMMA TurnsKept ==
  ASSUME Typed, Completing, Turns, JobStep \/ OperationStep \/ Environment
  PROVE  Turns'
<1>1. ASSUME run # NoRun, Abandon, host' = host, busy' = busy
      PROVE  Turns'
  <2>1. queue # <<>>
    BY <1>1 DEF Typed
  <2>2. CASE run' = [at |-> "compensate"] /\ UNCHANGED queue
    BY <1>1, <2>2, TurnsQuiet
  <2>3. CASE Dequeue
    BY <1>1, <2>1, <2>3, TurnsLeft
  <2> QED BY <1>1, <2>2, <2>3 DEF Abandon, Throw
<1>2. CASE Refuse \/ CompleteRefused
  BY <1>2, TurnsLeft DEF Refuse, CompleteRefused, agentVars
<1>3. CASE Start
  <2>1. queue # <<>> /\ Job.kind # "complete" /\ UNCHANGED <<queue, host, busy>> /\ ~Refused(Job)
    BY <1>3 DEF Start, agentVars
  <2>2. Job.kind = "submit" => ~host[Job.agent].turn
    BY <2>1 DEF Refused
  <2>3. run'.at = "agent" \/ run'.next = Changed(Job)
    BY <1>3 DEF Start, AwaitLock
  <2> QED BY <2>1, <2>2, <2>3, TurnsBegun
<1>4. CASE AgentAnswers
  <2>1. run # NoRun /\ queue # <<>> /\ Job.kind \in {"release", "materialize"}
    BY <1>4 DEF AgentAnswers, NoRun, Typed, RunShape
  <2>2. run'.next = Changed(Job) /\ UNCHANGED <<queue, host, busy>>
    BY <1>4 DEF AgentAnswers, AwaitLock
  <2> QED BY <2>1, <2>2, TurnsBegun
<1>5. CASE AgentRefuses \/ Compensate
  <2>1. queue # <<>> /\ Dequeue /\ host' = host /\ busy' = busy
    BY <1>5 DEF AgentRefuses, Compensate, Throw, NoRun, Typed, agentVars
  <2> QED BY <2>1, TurnsLeft
<1>6. CASE Stage
  <2>1. Capturing /\ UNCHANGED <<queue, host, busy>> /\ run'.next = run.next
    BY <1>6 DEF Stage, Capturing, agentVars
  <2> QED BY <2>1, TurnsQuiet
<1>7. CASE StageRefused \/ Undo
  <2>1. run # NoRun /\ Abandon /\ host' = host /\ busy' = busy
    BY <1>7 DEF StageRefused, Undo, NoRun, agentVars
  <2> QED BY <1>1, <2>1
<1>8. CASE CommitRefused
  <2>1. run # NoRun /\ queue # <<>> /\ Capturing /\ host' = host /\ busy' = busy
    BY <1>8 DEF CommitRefused, NoRun, Typed, Capturing, agentVars
  <2>2. CASE run.backing /\ run' = [run EXCEPT !.at = "undo"] /\ UNCHANGED queue
    <3>1. run'.next = run.next
      BY <1>8, <2>2, RunFacts DEF CommitRefused
    <3> QED BY <2>1, <2>2, <3>1, TurnsQuiet
  <2>3. CASE Dequeue
    BY <2>1, <2>3, TurnsLeft
  <2>4. CASE Abandon
    BY <1>1, <2>1, <2>4
  <2> QED BY <1>8, <2>2, <2>3, <2>4 DEF CommitRefused
<1>9. CASE Complete
  <2>1. /\ queue # <<>> /\ Job.kind = "complete" /\ UNCHANGED <<queue, host, busy>>
        /\ run'.next = [host EXCEPT ![op.agent].lifecycle =
                          IF op.next = Unregistered THEN "unavailable" ELSE "released"]
    BY <1>9 DEF Complete, agentVars
  <2>2. \A a \in Agents : run'.next[a].turn = host[a].turn
    BY <2>1 DEF Typed, Captured
  <2> QED BY <2>1, <2>2, TurnsBegun
<1>10. CASE OperationStep
  <2>1. busy' = busy /\ run' = run
    BY <1>10 DEF OperationStep, CommitRecord, CommitRecordRefused, Gate, Drain, Checkpoint, Release, ReleaseRefused,
                 Released, TakeCheckpoints, Migrate, MigrateRefused, CommitState, CommitStateRefused, Settled,
                 Restore, Rematerialize, RematerializeRefused, RolledBack, agentVars
  <2>2. \A a \in Agents : host'[a].turn = host[a].turn
    BY <1>10, SMTT(40) DEF OperationStep, CommitRecord, CommitRecordRefused, Gate, Drain, Checkpoint, Release, ReleaseRefused,
                 Released, TakeCheckpoints, Migrate, MigrateRefused, CommitState, CommitStateRefused, Settled,
                 Restore, Rematerialize, RematerializeRefused, RolledBack, Typed, Captured
  <2>3. CASE CommitState
    <3>1. op \in Operations
      BY <2>3 DEF CommitState, Typed, NoOperation
    <3>2. [kind |-> "complete", agent |-> op.agent] \in Jobs
      BY <3>1 DEF Operations, Jobs
    <3>3. queue' = Append(queue, [kind |-> "complete", agent |-> op.agent])
      BY <2>3 DEF CommitState
    <3> QED BY <2>1, <2>2, <3>2, <3>3, TurnsQuiet
  <2>4. CASE queue' = queue
    BY <2>1, <2>2, <2>4, TurnsQuiet
  <2> QED BY <1>10, <2>3, <2>4
          DEF OperationStep, CommitRecord, CommitRecordRefused, Gate, Drain, Checkpoint, Release, ReleaseRefused,
              Released, TakeCheckpoints, Migrate, MigrateRefused, CommitStateRefused, Settled,
              Restore, Rematerialize, RematerializeRefused, RolledBack
<1>11. ASSUME NEW a \in Agents, (\E call \in Calls : Ask(a, call)) \/ Emit(a)
       PROVE  Turns'
  <2>1. UNCHANGED <<host, run, busy>>
    BY <1>11 DEF Ask, Emit, agentVars
  <2>2. ASSUME NEW job \in Jobs, job.kind # "terminal", queue' = Append(queue, job)
        PROVE  Turns'
    BY <2>1, <2>2, TurnsQuiet
  <2>3. ASSUME NEW call \in Calls, Ask(a, call)
        PROVE  Turns'
    <3> DEFINE job == [kind |-> call, agent |-> a]
    <3>1. job \in Jobs /\ job.kind # "terminal"
      BY DEF Jobs, Calls
    <3>2. queue' = Append(queue, job)
      BY <2>3 DEF Ask
    <3> HIDE DEF job
    <3> QED BY <2>2, <3>1, <3>2
  <2>4. CASE Emit(a)
    <3> DEFINE job == [kind |-> "resume", agent |-> a,
                       resume |-> [stamp |-> spent.emits + 1, schema |-> live[a].schema]]
    <3>1. [stamp |-> spent.emits + 1, schema |-> live[a].schema] \in Resume
      BY <2>4, EmittedTyped
    <3>2. job \in Jobs /\ job.kind # "terminal"
      BY <3>1 DEF Jobs
    <3>3. queue' = Append(queue, job)
      BY <2>4 DEF Emit
    <3> HIDE DEF job
    <3> QED BY <2>2, <3>2, <3>3
  <2> QED BY <1>11, <2>3, <2>4
<1>12. ASSUME NEW a \in Agents, EndTurn(a)
       PROVE  Turns'
  <2> DEFINE job == [kind |-> "terminal", agent |-> a]
  <2>1. a \in busy /\ busy' = busy \ {a} /\ UNCHANGED <<host, run>> /\ queue' = Append(queue, job)
    BY <1>12 DEF EndTurn
  <2>2. job \in Jobs /\ job.agent = a
    BY DEF Jobs
  <2> HIDE DEF job
  <2>3. /\ queue # <<>> => Job' = Job
        /\ \A i \in DOMAIN queue : i \in DOMAIN queue' /\ queue'[i] = queue[i]
        /\ queue'[Len(queue) + 1] = job /\ DOMAIN queue' = DOMAIN queue \cup {Len(queue) + 1}
    BY <2>1, <2>2, AppendTyped
  <2>4. host[a].turn /\ \A i \in DOMAIN queue : ~Ending(i, a)
    BY <2>1 DEF Turns, OpenTurns
  <2>5. OpenTurns'
    BY <2>1, <2>2, <2>3, <2>4 DEF Turns, OpenTurns, Ending
  <2>6. run # NoRun => Job' = Job
    BY <2>3 DEF Typed
  <2>7. CASE run = NoRun
    <3>1. run' = NoRun /\ run'.at = "idle"
      BY <2>1, <2>7 DEF NoRun
    <3> QED BY <2>5, <3>1 DEF Turns, TurnsCaptured, Submits, Capturing
  <2>8. CASE run # NoRun
    <3>1. Job' = Job /\ \A b \in Agents : TurnAfter(b)' = TurnAfter(b)
      BY <2>1, <2>6, <2>8 DEF TurnAfter
    <3>2. TurnsCaptured'
      BY <2>1, <3>1 DEF Turns, TurnsCaptured, Capturing
    <3>3. Submits'
      BY <2>1, <2>8, <3>1 DEF Turns, Submits
    <3> QED BY <2>5, <3>2, <3>3 DEF Turns
  <2> QED BY <2>7, <2>8
<1>13. ASSUME NEW a, NEW kind, NEW next, Open(a, kind, next)
       PROVE  Turns'
  BY <1>13, TurnsQuiet DEF Open, agentVars
<1> QED BY <1>2, <1>3, <1>4, <1>5, <1>6, <1>7, <1>8, <1>9, <1>10, <1>11, <1>12, <1>13, TurnsCommitted
        DEF JobStep, Environment

-----------------------------------------------------------------------------
(* The drain *)

\* A job leaves the gates alone; it wakes the drain, or ends the Host's part of
\* the operation.
LEMMA OperationAfterJob ==
  ASSUME Typed, Completing, JobStep
  PROVE  /\ gates' = gates
         /\ \/ op' = op
            \/ op.at = "asleep" /\ op'.at = "drain" /\ op'.agent = op.agent
            \/ op.at = "complete" /\ op'.at \in {"settled", "restore"} /\ op'.agent = op.agent
<1>1. gates' = gates
  BY DEF JobStep, Refuse, Start, AgentAnswers, AgentRefuses, Stage, StageRefused, Commit, CommitRefused, Undo,
         Compensate, Complete, CompleteRefused
<1>2. CASE Leaves
  <2>1. CASE Job.kind = "complete"
    <3>1. op # NoOperation /\ op.at = "complete"
      BY <1>2, <2>1, CompleteFacts DEF Leaves
    <3>2. PICK at \in {"settled", "restore"} : op' = [op EXCEPT !.at = at]
      BY <1>2, <2>1 DEF Leaves
    <3>3. at \in Places
      BY DEF Places, Drained
    <3> QED BY <1>1, <3>1, <3>2, <3>3, OpMoves
  <2>2. CASE Job.kind # "complete"
    <3>1. op' = op \/ op' = Notified
      BY <1>2, <2>2 DEF Leaves
    <3>2. op.at # "asleep" => Notified = op
      BY DEF Notified
    <3>3. op.at = "asleep" => Notified.at = "drain" /\ Notified.agent = op.agent
      BY NotifiedTyped DEF NoOperation
    <3> QED BY <1>1, <3>1, <3>2, <3>3
  <2> QED BY <2>1, <2>2
<1> QED BY <1>1, <1>2, JobLeaves

\* A step of the operation opens the gate only as it leaves the places where
\* the gate is needed, and gets past the drain only when that found no work.
LEMMA OperationAfterStep ==
  ASSUME Typed, OperationStep
  PROVE  /\ op # NoOperation /\ op.agent \in Agents
         /\ op'.at \in Drained \cup {"drain", "asleep"} =>
              /\ op'.agent = op.agent
              /\ op.agent \in gates' \/ (gates' = gates /\ op.at \in Drained \cup {"drain", "asleep"})
         /\ op'.at \in Drained => op.at \in Drained \/ (op.at = "drain" /\ IsQuiescent(op.agent))
<1>1. op # NoOperation
  BY DEF OperationStep, CommitRecord, CommitRecordRefused, Gate, Drain, Checkpoint, Release, ReleaseRefused,
         Released, TakeCheckpoints, Migrate, MigrateRefused, CommitState, CommitStateRefused, Settled,
         Restore, Rematerialize, RematerializeRefused, RolledBack, NoOperation
<1>2. op \in Operations /\ op.agent \in Agents
  BY <1>1 DEF Typed, Operations
<1>3. CASE CommitRecord \/ CommitRecordRefused
  BY <1>1, <1>2, <1>3 DEF CommitRecord, CommitRecordRefused, Operations, Drained, NoOperation
<1>4. CASE Gate
  <2>1. op' = [op EXCEPT !.at = "drain"] /\ gates' = gates \cup {op.agent}
    BY <1>4 DEF Gate
  <2> QED BY <1>1, <1>2, <2>1 DEF Operations, Drained
<1>5. CASE Drain
  <2>1. op.at = "drain" /\ op' = [op EXCEPT !.at = IF IsQuiescent(op.agent) THEN "checkpoint" ELSE "asleep"]
        /\ gates' = gates
    BY <1>5 DEF Drain
  <2> HIDE DEF IsQuiescent
  <2> QED BY <1>1, <1>2, <2>1 DEF Operations, Drained
<1>6. CASE Checkpoint \/ Release \/ ReleaseRefused \/ Released \/ TakeCheckpoints \/ Migrate \/ MigrateRefused
  <2>1. op.at \in Drained /\ gates' = gates
    BY <1>6 DEF Checkpoint, Release, ReleaseRefused, Released, TakeCheckpoints, Migrate, MigrateRefused, Drained
  <2>2. op'.agent = op.agent
    BY <1>2, <1>6 DEF Checkpoint, Release, ReleaseRefused, Released, TakeCheckpoints, Migrate, MigrateRefused,
                      Operations
  <2> QED BY <1>1, <1>2, <2>1, <2>2
<1>7. CASE CommitState \/ CommitStateRefused \/ Restore
  <2>1. op.at \in Drained /\ gates' = gates
    BY <1>7 DEF CommitState, CommitStateRefused, Restore, Drained
  <2>2. op'.agent = op.agent
    BY <1>2, <1>7 DEF CommitState, CommitStateRefused, Restore, Operations
  <2> QED BY <1>1, <1>2, <2>1, <2>2
<1>8. CASE Rematerialize \/ RematerializeRefused
  <2>1. op.at \in Drained /\ gates' = gates
    BY <1>8 DEF Rematerialize, RematerializeRefused, Drained
  <2>2. op'.agent = op.agent
    BY <1>2, <1>8 DEF Rematerialize, RematerializeRefused, Operations
  <2> QED BY <1>1, <1>2, <2>1, <2>2
<1>9. CASE Settled \/ RolledBack
  BY <1>1, <1>2, <1>9 DEF Settled, RolledBack, AwaitStateLock, Operations, Drained
<1> QED BY <1>3, <1>4, <1>5, <1>6, <1>7, <1>8, <1>9 DEF OperationStep

\* The gate of the Agent is closed from the drain until the operation settles.
LEMMA GatedKept ==
  ASSUME Typed, Completing, Gated, JobStep \/ OperationStep \/ Environment
  PROVE  Gated'
<1>1. CASE JobStep
  BY <1>1, OperationAfterJob DEF Gated, Drained
<1>2. CASE OperationStep
  BY <1>2, OperationAfterStep DEF Gated
<1>3. ASSUME NEW a, NEW kind, NEW next, Open(a, kind, next)
      PROVE  Gated'
  BY <1>3 DEF Open, Gated, Drained
<1>4. ASSUME NEW a, (\E call \in Calls : Ask(a, call)) \/ Emit(a) \/ EndTurn(a)
      PROVE  Gated'
  <2>1. UNCHANGED <<op, gates>>
    BY <1>4 DEF Ask, Emit, EndTurn
  <2> QED BY <2>1 DEF Gated
<1> QED BY <1>1, <1>2, <1>3, <1>4 DEF Environment

\* Where the job is the same, so is the work that is counted.
LEMMA ActivityKept ==
  ASSUME Typed, UNCHANGED run, queue' = queue \/ \E job \in Jobs : queue' = Append(queue, job), NEW a \in Agents
  PROVE  Activity(a)' = Activity(a)
<1>1. run # NoRun => Job' = Job
  BY AppendTyped DEF Typed, Job
<1> QED BY <1>1 DEF Activity, Job

LEMMA RestsAfter ==
  ASSUME NEW a, op'.at \in Drained => op'.agent = a /\ ~host'[a].turn /\ ~Activity(a)' /\ a \notin busy'
  PROVE  DrainHolds'
BY DEF DrainHolds, IsQuiescent, Activity

\* No step wakes work in a drained Agent: its gate refuses clients, and the drain
\* found no Turn and no mutation.
LEMMA DrainKept ==
  ASSUME Typed, Completing, Turns, Gated, DrainHolds, JobStep \/ OperationStep \/ Environment
  PROVE  DrainHolds'
<1>1. CASE JobStep
  <2> PICK a : a = op.agent
    OBVIOUS
  <2> SUFFICES ASSUME op'.at \in Drained
               PROVE  op'.agent = a /\ ~host'[a].turn /\ ~Activity(a)' /\ a \notin busy'
    BY RestsAfter
  <2>1. op.at \in Drained /\ op'.agent = a
    BY <1>1, OperationAfterJob DEF Drained
  <2>2. a \in Agents
    BY <2>1, OpFacts DEF Drained, Operations
  <2>3. ~host[a].turn /\ ~Activity(a) /\ a \notin busy /\ a \in gates
    BY <2>1 DEF DrainHolds, IsQuiescent, Gated
  <2>4. CASE Commit
    <3>1. run # NoRun /\ Capturing /\ run' = NoRun
      BY <2>4 DEF Commit, Dequeue, Capturing, NoRun
    <3>2. ~(Job.kind = "submit" /\ Job.agent = a)
      BY <2>3, <3>1 DEF Activity, Job, Calls
    <3>3. host'[a].turn = TurnAfter(a)
      BY <2>2, <2>4, <3>1 DEF Commit, Turns, TurnsCaptured
    <3>4. a \notin busy'
      BY <2>3, <2>4, <3>2 DEF Commit
    <3> QED BY <2>1, <2>3, <3>1, <3>2, <3>3, <3>4 DEF Activity, TurnAfter
  <2>5. CASE ~Commit
    <3>1. UNCHANGED <<host, busy>>
      BY <1>1, <2>5 DEF JobStep, Refuse, Start, AgentAnswers, AgentRefuses, Stage, StageRefused, CommitRefused, Undo,
                        Compensate, Complete, CompleteRefused, agentVars
    <3>2. ~Activity(a)'
      <4>1. CASE Leaves
        BY <4>1 DEF Leaves, Dequeue, Activity
      <4>2. CASE UNCHANGED queue /\ run # NoRun
        BY <2>3, <4>2 DEF Activity
      <4>3. CASE UNCHANGED queue /\ run = NoRun
        <5>1. Start \/ Refuse \/ Complete \/ CompleteRefused
          BY <1>1, <4>3 DEF JobStep, AgentAnswers, AgentRefuses, Stage, StageRefused, Commit, CommitRefused, Undo,
                            Compensate, NoRun
        <5>2. CASE Start
          BY <2>3, <4>3, <5>2 DEF Start, Refused, Activity, Job
        <5>3. CASE Complete
          BY <4>3, <5>3 DEF Complete, Activity, Job, Calls
        <5>4. CASE Refuse \/ CompleteRefused
          BY <5>4 DEF Refuse, CompleteRefused, Dequeue, Activity
        <5> QED BY <5>1, <5>2, <5>3, <5>4
      <4> QED BY <1>1, <4>1, <4>2, <4>3, JobLeaves
    <3> QED BY <2>1, <2>3, <3>1, <3>2
  <2> QED BY <2>4, <2>5
<1>2. CASE OperationStep
  <2> PICK a : a = op.agent
    OBVIOUS
  <2> SUFFICES ASSUME op'.at \in Drained
               PROVE  op'.agent = a /\ ~host'[a].turn /\ ~Activity(a)' /\ a \notin busy'
    BY RestsAfter
  <2>1. a \in Agents /\ op'.agent = a /\ (op.at \in Drained \/ IsQuiescent(a))
    BY <1>2, OperationAfterStep
  <2>2. ~host[a].turn /\ ~Activity(a) /\ a \notin busy
    BY <2>1 DEF DrainHolds, IsQuiescent, Turns, OpenTurns
  <2>3. host'[a].turn = host[a].turn /\ UNCHANGED <<busy, run>>
    <3>1. UNCHANGED <<busy, run>>
      BY <1>2 DEF OperationStep, CommitRecord, CommitRecordRefused, Gate, Drain, Checkpoint, Release, ReleaseRefused,
                  Released, TakeCheckpoints, Migrate, MigrateRefused, CommitState, CommitStateRefused, Settled,
                  Restore, Rematerialize, RematerializeRefused, RolledBack, agentVars
    <3>2. host'[a].turn = host[a].turn
      BY <1>2, <2>1, SMTT(40)
         DEF OperationStep, CommitRecord, CommitRecordRefused, Gate, Drain, Checkpoint, Release, ReleaseRefused,
             Released, TakeCheckpoints, Migrate, MigrateRefused, CommitState, CommitStateRefused, Settled,
             Restore, Rematerialize, RematerializeRefused, RolledBack, Typed, Captured
    <3> QED BY <3>1, <3>2
  <2>4. queue' = queue \/ \E job \in Jobs : queue' = Append(queue, job)
    <3>1. [kind |-> "complete", agent |-> a] \in Jobs
      BY <2>1 DEF Jobs
    <3>2. queue' = queue \/ queue' = Append(queue, [kind |-> "complete", agent |-> a])
      BY <1>2 DEF OperationStep, CommitRecord, CommitRecordRefused, Gate, Drain, Checkpoint, Release, ReleaseRefused,
                  Released, TakeCheckpoints, Migrate, MigrateRefused, CommitState, CommitStateRefused, Settled,
                  Restore, Rematerialize, RematerializeRefused, RolledBack
    <3> QED BY <3>1, <3>2
  <2>5. ~Activity(a)'
    BY <2>1, <2>2, <2>3, <2>4, ActivityKept
  <2> QED BY <2>1, <2>2, <2>3, <2>5
<1>3. ASSUME NEW a \in Agents, NEW job \in Jobs, queue' = Append(queue, job), UNCHANGED <<run, host, op>>,
             busy' \subseteq busy
      PROVE  DrainHolds'
  <2> PICK b : b = op.agent
    OBVIOUS
  <2> SUFFICES ASSUME op'.at \in Drained
               PROVE  op'.agent = b /\ ~host'[b].turn /\ ~Activity(b)' /\ b \notin busy'
    BY RestsAfter
  <2>1. b \in Agents /\ op.at \in Drained
    BY <1>3, OpFacts DEF Drained, Operations
  <2>2. ~Activity(b)'
    BY <1>3, <2>1, ActivityKept DEF DrainHolds, IsQuiescent
  <2> QED BY <1>3, <2>1, <2>2 DEF DrainHolds, IsQuiescent
<1>4. ASSUME NEW a \in Agents, NEW call \in Calls, Ask(a, call)
      PROVE  DrainHolds'
  <2>1. [kind |-> call, agent |-> a] \in Jobs
    BY DEF Jobs
  <2> QED BY <1>3, <1>4, <2>1 DEF Ask, agentVars
<1>5. ASSUME NEW a \in Agents, Emit(a)
      PROVE  DrainHolds'
  <2> DEFINE job == [kind |-> "resume", agent |-> a,
                     resume |-> [stamp |-> spent.emits + 1, schema |-> live[a].schema]]
  <2>1. [stamp |-> spent.emits + 1, schema |-> live[a].schema] \in Resume
    BY <1>5, EmittedTyped
  <2>2. job \in Jobs
    BY <2>1 DEF Jobs
  <2>3. queue' = Append(queue, job) /\ UNCHANGED <<run, host, op, busy>>
    BY <1>5 DEF Emit, agentVars
  <2> HIDE DEF job
  <2> QED BY <1>3, <2>2, <2>3
<1>6. ASSUME NEW a \in Agents, EndTurn(a)
      PROVE  DrainHolds'
  <2>1. [kind |-> "terminal", agent |-> a] \in Jobs
    BY DEF Jobs
  <2>2. queue' = Append(queue, [kind |-> "terminal", agent |-> a]) /\ UNCHANGED <<run, host, op>> /\ busy' \subseteq busy
    BY <1>6 DEF EndTurn
  <2> QED BY <1>3, <2>1, <2>2
<1>7. ASSUME NEW a, NEW kind, NEW next, Open(a, kind, next)
      PROVE  DrainHolds'
  BY <1>7 DEF Open, DrainHolds, Drained
<1> QED BY <1>1, <1>2, <1>4, <1>5, <1>6, <1>7 DEF Environment

-----------------------------------------------------------------------------
Working == Typed /\ Completing /\ Turns /\ Gated /\ DrainHolds

LEMMA WorkingInitially == Init => Working
<1> SUFFICES ASSUME Init PROVE Working
  OBVIOUS
<1>1. [revision |-> 1, schema |-> 1] \in Registration /\ NoResume \in Resume
  BY BoundsAssumption, NoResumeTyped DEF Registration
<1>2. host \in Captured /\ live \in [Agents -> Registration] /\ loaded \in [Agents -> SUBSET Parts]
  BY <1>1 DEF Init, Captured
<1>3. store \in Stores
  <2>1. [a \in Agents |-> NoResume] \in [Agents -> Resume]
    BY <1>1
  <2>2. [a \in Agents |-> NoResume] \in Records
    BY <2>1 DEF Records
  <2> QED BY <1>1, <2>2 DEF Init, Stores
<1>4. queue = <<>> /\ queue \in Seq(Jobs) /\ run = NoRun /\ op = NoOperation /\ run.at = "idle" /\ op.at = "idle"
  BY DEF Init, NoRun, NoOperation
<1>5. Typed
  BY <1>2, <1>3, <1>4 DEF Init, Typed, Runs, NoRun, NoOperation
<1>6. Completing
  BY <1>4 DEF Completing
<1>7. Turns
  BY <1>4 DEF Init, Turns, TurnsCaptured, Submits, OpenTurns, Capturing, Ending, NoRun
<1>8. Gated /\ DrainHolds
  BY <1>4 DEF Gated, DrainHolds, Drained
<1> QED BY <1>5, <1>6, <1>7, <1>8 DEF Working

\* The invariant of the drain is inductive.
LEMMA WorkingKept == Working /\ [Next]_vars => Working'
<1> SUFFICES ASSUME Working, [Next]_vars PROVE Working'
  OBVIOUS
<1>1. CASE Next
  <2>1. Typed /\ Completing /\ Turns /\ Gated /\ DrainHolds /\ (JobStep \/ OperationStep \/ Environment)
    BY <1>1 DEF Working, Next
  <2>2. Typed'
    BY <2>1, JobTyped, OperationTyped, EnvironmentTyped
  <2> QED BY <2>1, <2>2, CompletingKept, TurnsKept, GatedKept, DrainKept DEF Working
<1>2. CASE UNCHANGED vars
  <2>1. UNCHANGED <<host, live, store, queue, run, gates, op, tail, loaded, busy, spent>>
    BY <1>2 DEF vars
  <2>2. Job' = Job
    BY <2>1 DEF Job
  <2>3. Typed' /\ Completing' /\ Gated'
    BY <2>1, <2>2 DEF Working, Typed, RunShape, Completing, Gated
  <2>4. Turns'
    BY <2>1, <2>2 DEF Working, Turns, TurnsCaptured, TurnAfter, Submits, OpenTurns, Capturing, Ending
  <2>5. DrainHolds'
    BY <2>1 DEF Working, DrainHolds, IsQuiescent, Activity
  <2> QED BY <2>3, <2>4, <2>5 DEF Working
<1> QED BY <1>1, <1>2

\* What holds whenever the Host works: the types, one outstanding complete, Turns
\* that are open on both sides, and a drained Agent that rests.
THEOREM AlwaysWorking == Spec => []Working
<1>1. Init => Working
  BY WorkingInitially
<1>2. Working /\ [Next]_vars => Working'
  BY WorkingKept
<1> QED BY <1>1, <1>2, PTL DEF Spec

\* From the moment the drain returns until the operation settles, the affected Agent
\* runs no Turn and no client mutation (acquirePackageMutation, drain), for any number
\* of Agents, jobs and failures.
THEOREM DrainedAgentRests == Spec => []DrainHolds
<1>1. Working => DrainHolds
  BY DEF Working
<1> QED BY <1>1, AlwaysWorking, PTL

-----------------------------------------------------------------------------
(* What the Host believes *)

\* The flags of a nondoubtful Agent tell what its runtime has loaded, unless the
\* Agent has already answered a call whose commit is still outstanding.
Moving(a) == run # NoRun /\ Job.agent = a /\ Job.kind \in {"release", "materialize"} /\ run.at # "agent"
Believed(a) == IF Moving(a) THEN IF Job.kind = "release" THEN {} ELSE Parts ELSE host[a].up
Flags == {{}, {"session"}, Parts}
Believes == \A a \in Agents \ doubtful : loaded[a] = Believed(a) /\ host[a].up \in Flags
CallCaptured ==
  /\ Capturing /\ Job.kind = "submit" => run.next[Job.agent].up = host[Job.agent].up
  /\ Capturing /\ Job.kind = "release" => run.next[Job.agent].up = {}
  /\ Capturing /\ Job.kind = "materialize" => run.next[Job.agent].up = Parts
CallBegan ==
  /\ run # NoRun /\ Job.kind = "release" => host[Job.agent].up = Parts
  /\ run # NoRun /\ Job.kind = "materialize" => "session" \notin host[Job.agent].up
Belief == Believes /\ CallCaptured /\ CallBegan

\* An operation releases Chats before Sessions, and what it has still to release
\* is materialized.
Fresh == op.at \in {"recorded", "prepared", "gate", "drain", "asleep", "checkpoint"} => op.released = {}
ChatsFirst ==
  op.at \in Drained /\ op.agent \notin doubtful =>
    /\ "chat" \in op.released /\ "session" \notin op.released => "session" \in host[op.agent].up
    /\ op.at = "release" => op.records \ op.released \subseteq host[op.agent].up

LEMMA ChangedFlags ==
  ASSUME Typed, queue # <<>>, Job.kind # "complete"
  PROVE  Changed(Job)[Job.agent].up =
           IF Job.kind = "release" THEN {} ELSE IF Job.kind = "materialize" THEN Parts ELSE host[Job.agent].up
<1>1. Job.agent \in Agents /\ Job.kind \in Calls \cup {"terminal", "resume"}
  BY JobFacts
<1>2. DOMAIN host = Agents /\ \A b \in Agents : DOMAIN host[b] = {"lifecycle", "up", "turn", "resume"}
  BY DEF Typed, Captured
<1> HIDE DEF Job
<1> QED BY <1>1, <1>2 DEF Changed, Calls

\* Steps of others.
LEMMA BeliefQuiet ==
  ASSUME Typed, Belief, UNCHANGED <<host, loaded, run>>, doubtful \subseteq doubtful',
         queue' = queue \/ \E job \in Jobs : queue' = Append(queue, job)
  PROVE  Belief'
<1>1. run # NoRun => Job' = Job
  BY AppendTyped DEF Typed, Job
<1>2. Capturing => run # NoRun
  BY DEF Capturing, NoRun
<1>3. \A a \in Agents : Believed(a)' = Believed(a)
  BY <1>1 DEF Believed, Moving
<1>4. Believes'
  BY <1>3 DEF Belief, Believes
<1>5. CallCaptured'
  BY <1>1, <1>2 DEF Belief, CallCaptured, Capturing
<1>6. CallBegan'
  BY <1>1 DEF Belief, CallBegan
<1> QED BY <1>4, <1>5, <1>6 DEF Belief

\* A job has ended.
LEMMA BeliefLeft ==
  ASSUME run' = NoRun, \A a \in Agents \ doubtful' : loaded'[a] = host'[a].up /\ host'[a].up \in Flags
  PROVE  Belief'
BY DEF Belief, Believes, Believed, Moving, CallCaptured, CallBegan, Capturing, NoRun

\* A job goes on, or begins to take back what its Agent did.
LEMMA BeliefGoesOn ==
  ASSUME Typed, Belief, Capturing, UNCHANGED <<queue, host, loaded, doubtful>>,
         \/ Capturing' /\ run'.next = run.next
         \/ run'.at = "compensate"
  PROVE  Belief'
<1>1. Job' = Job /\ run # NoRun /\ run' # NoRun /\ run.at # "agent" /\ run'.at # "agent"
  BY DEF Job, Capturing, NoRun
<1>2. \A a \in Agents : Believed(a)' = Believed(a)
  BY <1>1 DEF Believed, Moving
<1>3. Believes'
  BY <1>2 DEF Belief, Believes
<1>4. CallCaptured'
  BY <1>1 DEF Belief, CallCaptured, Capturing
<1>5. CallBegan'
  BY <1>1 DEF Belief, CallBegan
<1> QED BY <1>3, <1>4, <1>5 DEF Belief

LEMMA BeliefAbandoned ==
  ASSUME Typed, Belief, Capturing, Abandon, UNCHANGED <<host, loaded, doubtful>>
  PROVE  Belief'
<1>1. CASE Job.kind \in {"release", "materialize"}
  <2>1. run'.at = "compensate" /\ UNCHANGED queue
    BY <1>1 DEF Abandon
  <2> QED BY <2>1, BeliefGoesOn
<1>2. CASE Job.kind \notin {"release", "materialize"}
  <2>1. run' = NoRun
    BY <1>2 DEF Abandon, Throw, Dequeue
  <2>2. \A a \in Agents : ~Moving(a)
    BY <1>2 DEF Moving
  <2> QED BY <2>1, <2>2, BeliefLeft DEF Belief, Believes, Believed
<1> QED BY <1>1, <1>2

LEMMA BeliefCommitted ==
  ASSUME Typed, Belief, Commit
  PROVE  Belief'
<1>1. run # NoRun /\ Capturing /\ run' = NoRun /\ host' = run.next /\ doubtful' = doubtful \cup Overwrites
      /\ loaded' = loaded /\ run.at # "agent" /\ queue # <<>>
  BY DEF Commit, Dequeue, Capturing, NoRun, Typed
<1>2. ASSUME NEW a \in Agents \ doubtful'
      PROVE  loaded'[a] = host'[a].up /\ host'[a].up \in Flags
  <2>1. loaded[a] = Believed(a) /\ host[a].up \in Flags /\ a \notin Overwrites
    BY <1>1, <1>2 DEF Belief, Believes
  <2>2. CASE Job.agent = a /\ Job.kind \in Calls
    BY <1>1, <2>1, <2>2 DEF Belief, CallCaptured, Believed, Moving, Calls, Flags
  <2>3. CASE ~(Job.agent = a /\ Job.kind \in Calls)
    <3>1. run.next[a].up = host[a].up
      BY <2>1, <2>3 DEF Overwrites
    <3>2. ~Moving(a)
      BY <2>3 DEF Moving, Calls
    <3> QED BY <1>1, <2>1, <3>1, <3>2 DEF Believed
  <2> QED BY <2>2, <2>3
<1> QED BY <1>1, <1>2, BeliefLeft

\* A job keeps what the Host believes: its commit records what the Agent answered,
\* its failure takes that back or makes the Agent doubtful.
LEMMA BeliefAfterJob ==
  ASSUME Typed, Completing, Belief, JobStep
  PROVE  Belief'
<1>1. CASE Refuse \/ CompleteRefused
  <2>1. run = NoRun /\ run' = NoRun /\ UNCHANGED <<host, loaded, doubtful>>
    BY <1>1 DEF Refuse, CompleteRefused, Dequeue, agentVars
  <2> QED BY <2>1, BeliefLeft DEF Belief, Believes, Believed, Moving
<1>2. CASE Start
  <2>1. /\ queue # <<>> /\ run = NoRun /\ Job.kind # "complete" /\ ~Refused(Job) /\ Job' = Job
        /\ UNCHANGED <<host, loaded, doubtful>>
    BY <1>2 DEF Start, Job, agentVars
  <2>2. \/ run'.at = "agent" /\ Job.kind \in {"release", "materialize"}
        \/ run'.next = Changed(Job) /\ Job.kind \notin {"release", "materialize"}
    BY <1>2 DEF Start, AwaitLock
  <2>3. Believes'
    BY <2>1, <2>2 DEF Belief, Believes, Believed, Moving
  <2>4. CallCaptured'
    BY <2>1, <2>2, ChangedFlags DEF CallCaptured, Capturing
  <2>5. CallBegan'
    BY <2>1 DEF CallBegan, Refused
  <2> QED BY <2>3, <2>4, <2>5 DEF Belief
<1>3. CASE Complete
  <2>1. run = NoRun /\ Job.kind = "complete" /\ Job' = Job /\ UNCHANGED <<host, loaded, doubtful>>
    BY <1>3 DEF Complete, Job, agentVars
  <2> QED BY <2>1 DEF Belief, Believes, Believed, Moving, CallCaptured, CallBegan
<1>4. CASE AgentAnswers
  <2>1. /\ run # NoRun /\ queue # <<>> /\ run.at = "agent" /\ Job.kind \in {"release", "materialize"} /\ Job' = Job
        /\ Job.agent \in Agents
        /\ run'.at = "lock" /\ run'.next = Changed(Job) /\ UNCHANGED <<host, doubtful>>
        /\ loaded' = [loaded EXCEPT ![Job.agent] = IF Job.kind = "release" THEN {} ELSE Parts]
    BY <1>4, JobFacts DEF AgentAnswers, AwaitLock, NoRun, Typed, RunShape, Job
  <2>2. \A a \in Agents : ~Moving(a) /\ (Moving(a)' <=> a = Job.agent)
    BY <2>1 DEF Moving, NoRun
  <2>3. \A a \in Agents : loaded'[a] = IF a = Job.agent THEN IF Job.kind = "release" THEN {} ELSE Parts ELSE loaded[a]
    BY <2>1 DEF Typed
  <2>4. Believes'
    BY <2>1, <2>2, <2>3 DEF Belief, Believes, Believed
  <2>5. CallCaptured'
    BY <2>1, ChangedFlags DEF CallCaptured
  <2>6. CallBegan'
    BY <2>1 DEF Belief, CallBegan
  <2> QED BY <2>4, <2>5, <2>6 DEF Belief
<1>5. CASE AgentRefuses
  <2>1. run.at = "agent" /\ run' = NoRun /\ UNCHANGED <<host, loaded, doubtful>>
    BY <1>5 DEF AgentRefuses, Throw, Dequeue, agentVars
  <2> QED BY <2>1, BeliefLeft DEF Belief, Believes, Believed, Moving
<1>6. CASE Stage
  <2>1. Capturing /\ Capturing' /\ run'.next = run.next /\ UNCHANGED <<queue, host, loaded, doubtful>>
    BY <1>6 DEF Stage, Capturing, agentVars
  <2> QED BY <2>1, BeliefGoesOn
<1>7. CASE StageRefused \/ Undo
  <2>1. Capturing /\ Abandon /\ UNCHANGED <<host, loaded, doubtful>>
    BY <1>7 DEF StageRefused, Undo, Capturing, agentVars
  <2> QED BY <2>1, BeliefAbandoned
<1>8. CASE Commit
  BY <1>8, BeliefCommitted
<1>9. CASE CommitRefused
  <2>1. Capturing /\ run.at = "commit" /\ UNCHANGED <<host, loaded, doubtful>>
    BY <1>9 DEF CommitRefused, Capturing, agentVars
  <2>2. CASE run.backing /\ run' = [run EXCEPT !.at = "undo"] /\ UNCHANGED queue
    <3>1. run'.at = "undo" /\ run'.next = run.next
      BY <2>1, <2>2, RunFacts
    <3> QED BY <2>1, <2>2, <3>1, BeliefGoesOn DEF Capturing
  <2>3. CASE Job.kind = "complete" /\ Dequeue
    <3>1. run' = NoRun /\ \A a \in Agents : ~Moving(a)
      BY <2>3 DEF Dequeue, Moving
    <3> QED BY <2>1, <3>1, BeliefLeft DEF Belief, Believes, Believed
  <2>4. CASE Abandon
    BY <2>1, <2>4, BeliefAbandoned
  <2> QED BY <1>9, <2>2, <2>3, <2>4 DEF CommitRefused
<1>10. CASE Compensate
  <2>1. /\ run # NoRun /\ run.at # "agent" /\ queue # <<>> /\ Job.kind \in {"release", "materialize"}
        /\ run' = NoRun /\ host' = host /\ Job.agent \in Agents
    BY <1>10, JobFacts DEF Compensate, Throw, Dequeue, NoRun, Typed, RunShape
  <2>2. \A a \in Agents : a # Job.agent => ~Moving(a)
    BY DEF Moving
  <2>3. ASSUME NEW a \in Agents \ doubtful'
        PROVE  loaded'[a] = host'[a].up /\ host'[a].up \in Flags
    <3>1. doubtful \subseteq doubtful' /\ loaded[a] = Believed(a) /\ host[a].up \in Flags
      BY <1>10, <2>3 DEF Compensate, Belief, Believes
    <3>2. CASE a # Job.agent
      <4>1. loaded'[a] = loaded[a]
        BY <1>10, <3>2 DEF Compensate, Typed
      <4> QED BY <2>1, <2>2, <3>1, <3>2, <4>1 DEF Believed
    <3>3. CASE a = Job.agent
      <4>1. loaded' = [loaded EXCEPT ![Job.agent] = IF Job.kind = "release" THEN Parts ELSE {}]
        BY <1>10, <2>3, <3>3 DEF Compensate
      <4>2. loaded'[a] = IF Job.kind = "release" THEN Parts ELSE {}
        BY <3>3, <4>1 DEF Typed
      <4>3. host[a].up = IF Job.kind = "release" THEN Parts ELSE {}
        BY <2>1, <3>1, <3>3 DEF Belief, CallBegan, Flags, Parts
      <4> QED BY <2>1, <3>1, <4>2, <4>3
    <3> QED BY <3>2, <3>3
  <2> QED BY <2>1, <2>3, BeliefLeft
<1> QED BY <1>1, <1>2, <1>3, <1>4, <1>5, <1>6, <1>7, <1>8, <1>9, <1>10 DEF JobStep

\* While the operation has the Agent, no call of a client moves its flags.
LEMMA DrainedDoesNotMove ==
  ASSUME Typed, DrainHolds, op.at \in Drained
  PROVE  /\ op \in Operations /\ op.agent \in Agents /\ ~Moving(op.agent)
         /\ run # NoRun /\ Job.agent = op.agent => Job.kind \notin Calls
<1>1. op \in Operations /\ op.agent \in Agents
  BY OpFacts DEF Drained, Operations
<1>2. run # NoRun /\ Job.agent = op.agent => Job.kind \notin Calls
  BY DEF DrainHolds, IsQuiescent, Activity, Job
<1> QED BY <1>1, <1>2 DEF Moving, Calls

\* The operation moves a flag together with what the runtime has loaded.
LEMMA BeliefMoved ==
  ASSUME Typed, DrainHolds, Belief, op.at \in Drained, NEW up, UNCHANGED <<queue, run, doubtful>>,
         op.agent \notin doubtful => up \in Flags,
         host' = [host EXCEPT ![op.agent].up = up],
         op.agent \notin doubtful => loaded' = [loaded EXCEPT ![op.agent] = up],
         \A a \in Agents : a # op.agent => loaded'[a] = loaded[a]
  PROVE  Belief'
<1>1. Job' = Job
  BY DEF Job
<1>2. \A a \in Agents : host'[a].up = IF a = op.agent THEN up ELSE host[a].up
  BY DEF Typed, Captured
<1>3. \A a \in Agents : Moving(a)' = Moving(a)
  BY <1>1 DEF Moving
<1>4. Believes'
  <2> SUFFICES ASSUME NEW a \in Agents \ doubtful
               PROVE  loaded'[a] = Believed(a)' /\ host'[a].up \in Flags
    BY DEF Believes
  <2>1. loaded[a] = Believed(a) /\ host[a].up \in Flags
    BY DEF Belief, Believes
  <2>2. CASE a = op.agent
    <3>1. ~Moving(a)'
      BY <1>3, <2>2, DrainedDoesNotMove
    <3>2. loaded'[a] = up
      BY <2>2 DEF Typed
    <3> QED BY <1>2, <2>2, <3>1, <3>2 DEF Believed
  <2>3. CASE a # op.agent
    BY <1>1, <1>2, <1>3, <2>1, <2>3 DEF Believed
  <2> QED BY <2>2, <2>3
<1>5. run # NoRun /\ Job.kind \in Calls => host'[Job.agent].up = host[Job.agent].up
  BY <1>2, DrainedDoesNotMove, JobFacts DEF Typed
<1>6. Capturing => run # NoRun
  BY DEF Capturing, NoRun
<1>7. CallCaptured'
  BY <1>1, <1>5, <1>6 DEF Belief, CallCaptured, Capturing, Calls
<1>8. CallBegan'
  BY <1>1, <1>5 DEF Belief, CallBegan, Calls
<1> QED BY <1>4, <1>7, <1>8 DEF Belief

\* The operation moves a flag and the runtime together (setBackingMaterialized).
LEMMA BeliefAfterStep ==
  ASSUME Typed, DrainHolds, Belief, ChatsFirst, OperationStep
  PROVE  Belief'
<1>1. CASE Release
  <2> DEFINE part == IF "chat" \in Unreleased THEN "chat" ELSE "session"
             gone == IF part = "chat" THEN {"chat"} ELSE Parts
             up == host[op.agent].up \ gone
  <2>1. /\ op.at \in Drained
        /\ loaded' = [loaded EXCEPT ![op.agent] = @ \ gone]
        /\ host' = [host EXCEPT ![op.agent].up = @ \ gone]
        /\ UNCHANGED <<queue, run, doubtful>>
    BY <1>1 DEF Release, Drained
  <2>2. op.agent \in Agents /\ ~Moving(op.agent)
    BY <2>1, DrainedDoesNotMove
  <2>3. op.agent \notin doubtful => loaded[op.agent] = host[op.agent].up /\ host[op.agent].up \in Flags
    BY <2>2 DEF Belief, Believes, Believed
  <2>4. op.agent \notin doubtful => up \in Flags
    <3>1. gone = {"chat"} \/ gone = Parts
      OBVIOUS
    <3> HIDE DEF gone
    <3> QED BY <2>3, <3>1 DEF Flags, Parts
  <2> HIDE DEF part, gone
  <2>5. host' = [host EXCEPT ![op.agent].up = up]
    BY <2>1, <2>2 DEF Typed, Captured
  <2>6. op.agent \notin doubtful => loaded' = [loaded EXCEPT ![op.agent] = up]
    BY <2>1, <2>2, <2>3 DEF Typed
  <2>7. \A a \in Agents : a # op.agent => loaded'[a] = loaded[a]
    BY <2>1 DEF Typed
  <2> HIDE DEF up
  <2> QED BY <2>1, <2>4, <2>5, <2>6, <2>7, BeliefMoved
<1>2. CASE Rematerialize
  <2> DEFINE part == IF "session" \in op.released THEN "session" ELSE "chat"
             up == host[op.agent].up \cup {part}
  <2>1. /\ op.at \in Drained /\ op.released # {}
        /\ loaded' = [loaded EXCEPT ![op.agent] = @ \cup {part}]
        /\ host' = [host EXCEPT ![op.agent].up = @ \cup {part}]
        /\ UNCHANGED <<queue, run, doubtful>>
    BY <1>2 DEF Rematerialize, Drained
  <2>2. op.agent \in Agents /\ ~Moving(op.agent) /\ op.released \subseteq Parts
    BY <2>1, DrainedDoesNotMove DEF Operations
  <2>3. op.agent \notin doubtful => loaded[op.agent] = host[op.agent].up /\ host[op.agent].up \in Flags
    BY <2>2 DEF Belief, Believes, Believed
  <2>4. op.agent \notin doubtful => up \in Flags
    <3>1. part = "session" \/ (part = "chat" /\ "chat" \in op.released /\ "session" \notin op.released)
      BY <2>1, <2>2 DEF Parts
    <3>2. op.agent \notin doubtful /\ part = "chat" => "session" \in host[op.agent].up
      BY <2>1, <3>1 DEF ChatsFirst
    <3> HIDE DEF part
    <3> QED BY <2>3, <3>1, <3>2 DEF Flags, Parts
  <2> HIDE DEF part
  <2>5. host' = [host EXCEPT ![op.agent].up = up]
    BY <2>1, <2>2 DEF Typed, Captured
  <2>6. op.agent \notin doubtful => loaded' = [loaded EXCEPT ![op.agent] = up]
    BY <2>1, <2>2, <2>3 DEF Typed
  <2>7. \A a \in Agents : a # op.agent => loaded'[a] = loaded[a]
    BY <2>1 DEF Typed
  <2> HIDE DEF up
  <2> QED BY <2>1, <2>4, <2>5, <2>6, <2>7, BeliefMoved
<1>3. CASE ~(Release \/ Rematerialize)
  <2>1. UNCHANGED <<host, loaded, run>> /\ doubtful \subseteq doubtful'
    BY <1>3 DEF OperationStep, CommitRecord, CommitRecordRefused, Gate, Drain, Checkpoint, ReleaseRefused,
                Released, TakeCheckpoints, Migrate, MigrateRefused, CommitState, CommitStateRefused, Settled,
                Restore, RematerializeRefused, RolledBack, agentVars
  <2>2. queue' = queue \/ \E job \in Jobs : queue' = Append(queue, job)
    <3>1. [kind |-> "complete", agent |-> op.agent] \in Jobs
      BY OperationAfterStep DEF Jobs
    <3>2. queue' = queue \/ queue' = Append(queue, [kind |-> "complete", agent |-> op.agent])
      BY DEF OperationStep, CommitRecord, CommitRecordRefused, Gate, Drain, Checkpoint, Release, ReleaseRefused,
             Released, TakeCheckpoints, Migrate, MigrateRefused, CommitState, CommitStateRefused, Settled,
             Restore, Rematerialize, RematerializeRefused, RolledBack
    <3> QED BY <3>1, <3>2
  <2> QED BY <2>1, <2>2, BeliefQuiet
<1> QED BY <1>1, <1>2, <1>3

\* What stands in the queue for an Agent's own action.
LEMMA Requests ==
  ASSUME Typed, NEW a \in Agents
  PROVE  /\ Emit(a) => \E job \in Jobs : queue' = Append(queue, job)
         /\ EndTurn(a) => \E job \in Jobs : queue' = Append(queue, job)
         /\ \A call \in Calls : Ask(a, call) => \E job \in Jobs : queue' = Append(queue, job)
<1>1. \A call \in Calls : [kind |-> call, agent |-> a] \in Jobs
  BY DEF Jobs
<1>2. [kind |-> "terminal", agent |-> a] \in Jobs
  BY DEF Jobs
<1>3. Emit(a) =>
        [kind |-> "resume", agent |-> a, resume |-> [stamp |-> spent.emits + 1, schema |-> live[a].schema]] \in Jobs
  BY EmittedTyped DEF Jobs
<1> QED BY <1>1, <1>2, <1>3 DEF Emit, EndTurn, Ask

LEMMA BeliefAfterEnvironment ==
  ASSUME Typed, Belief, Environment
  PROVE  Belief'
<1>1. ASSUME NEW a \in Agents, (\E call \in Calls : Ask(a, call)) \/ Emit(a) \/ EndTurn(a)
      PROVE  Belief'
  <2>1. UNCHANGED <<host, loaded, run, doubtful>>
    BY <1>1 DEF Ask, Emit, EndTurn, agentVars
  <2>2. \E job \in Jobs : queue' = Append(queue, job)
    BY <1>1, Requests
  <2> QED BY <2>1, <2>2, BeliefQuiet
<1>2. ASSUME NEW a, NEW kind, NEW next, Open(a, kind, next)
      PROVE  Belief'
  BY <1>2, BeliefQuiet DEF Open, agentVars
<1> QED BY <1>1, <1>2 DEF Environment

LEMMA OperationKeeps ==
  ASSUME Typed, Completing, JobStep
  PROVE  /\ op'.released = op.released /\ op'.records = op.records
         /\ op'.previous = op.previous /\ op'.carried = op.carried
<1>1. CASE op' = op
  BY <1>1
<1>2. CASE Leaves /\ op' # op
  <2>1. op # NoOperation /\ \E at \in Places : op' = [op EXCEPT !.at = at]
    <3>1. CASE Job.kind = "complete"
      BY <1>2, <3>1, CompleteFacts DEF Leaves, Places, Drained
    <3>2. CASE Job.kind # "complete"
      BY <1>2, <3>2 DEF Leaves, Notified, NoOperation, Places
    <3> QED BY <3>1, <3>2
  <2> QED BY <2>1, OpMoves
<1> QED BY <1>1, <1>2, JobLeaves

LEMMA FlagsKept ==
  ASSUME Typed, DrainHolds, JobStep, op.at \in Drained, op.agent \notin doubtful'
  PROVE  op.agent \notin doubtful /\ host'[op.agent].up = host[op.agent].up
<1>1. op.agent \in Agents /\ (run # NoRun /\ Job.agent = op.agent => Job.kind \notin Calls)
  BY DrainedDoesNotMove
<1>2. CASE Commit
  <2>1. run # NoRun /\ host' = run.next /\ doubtful' = doubtful \cup Overwrites
    BY <1>2 DEF Commit, NoRun
  <2> QED BY <1>1, <2>1 DEF Overwrites
<1>3. CASE ~Commit
  <2>1. host' = host /\ doubtful \subseteq doubtful'
    BY <1>3 DEF JobStep, Refuse, Start, AgentAnswers, AgentRefuses, Stage, StageRefused, CommitRefused, Undo,
                Compensate, Complete, CompleteRefused, agentVars
  <2> QED BY <2>1
<1> QED BY <1>2, <1>3

\* Steps of the operation that release nothing and make no promise about what
\* is still to release.
LEMMA OrderQuiet ==
  ASSUME ChatsFirst, doubtful \subseteq doubtful',
         op'.at \in Drained => /\ op.at \in Drained /\ op'.at # "release" /\ op'.agent = op.agent
                               /\ op'.released \in {op.released, {}} /\ host' = host
  PROVE  ChatsFirst'
BY DEF ChatsFirst

LEMMA OrderAfterStep ==
  ASSUME Typed, DrainHolds, Belief, Fresh, ChatsFirst, OperationStep
  PROVE  Fresh' /\ ChatsFirst'
<1>1. op # NoOperation /\ op \in Operations /\ op.agent \in Agents
  BY OperationAfterStep DEF Typed
<1>2. CASE CommitRecord \/ CommitRecordRefused
  <2>1. host' = host /\ doubtful' = doubtful
    BY <1>2 DEF CommitRecord, CommitRecordRefused
  <2>2. \/ op' = NoOperation
        \/ /\ op' = [op EXCEPT !.at = "prepared"] /\ op.at = "recorded"
        \/ /\ op' = [op EXCEPT !.at = "gate"] /\ op.at = "prepared"
        \/ /\ op' = [op EXCEPT !.at = "commit"] /\ op.at = "activated"
        \/ /\ op' = [op EXCEPT !.at = "rollback"] /\ op.at = "activated"
        \/ op' = [op EXCEPT !.at = "finished"]
        \/ op' = [op EXCEPT !.at = "failed"]
    BY <1>2 DEF CommitRecord, CommitRecordRefused
  <2>3. op' # NoOperation => op'.released = op.released /\ op'.agent = op.agent
    BY <1>1, <2>2 DEF Operations
  <2>4. \/ op'.at \in {"idle", "finished", "failed"}
        \/ op'.at \in {"prepared", "gate"} /\ op.at \in {"recorded", "prepared"}
        \/ op'.at \in {"commit", "rollback"} /\ op.at = "activated"
    BY <1>1, <2>2 DEF Operations, NoOperation
  <2>5. op' = NoOperation => op'.at = "idle"
    BY DEF NoOperation
  <2>6. Fresh'
    BY <2>3, <2>4, <2>5 DEF Fresh
  <2>7. ChatsFirst'
    BY <2>1, <2>3, <2>4, <2>5, OrderQuiet DEF Drained
  <2> QED BY <2>6, <2>7
<1>3. CASE Gate \/ Settled \/ RolledBack
  <2>1. \/ op' = [op EXCEPT !.at = "drain"] /\ op.at = "gate"
        \/ op' = [op EXCEPT !.at = "finished"]
        \/ op' = [op EXCEPT !.at = "failed"]
    BY <1>3 DEF Gate, Settled, RolledBack, AwaitStateLock
  <2>2. op'.released = op.released /\ ((op'.at = "drain" /\ op.at = "gate") \/ op'.at \in {"finished", "failed"})
    BY <1>1, <2>1 DEF Operations
  <2> QED BY <2>2 DEF Fresh, ChatsFirst, Drained
<1>4. CASE Drain
  <2>1. op.at = "drain" /\ (op' = [op EXCEPT !.at = "checkpoint"] \/ op' = [op EXCEPT !.at = "asleep"])
    BY <1>4 DEF Drain
  <2>2. op'.released = {} /\ op'.at \in {"checkpoint", "asleep"}
    BY <1>1, <2>1 DEF Operations, Fresh
  <2> QED BY <2>2 DEF Fresh, ChatsFirst
<1>5. CASE Checkpoint
  <2> DEFINE records == IF op.kind = "install" THEN {} ELSE store.up[op.agent]
  <2>1. /\ op.at = "checkpoint" /\ UNCHANGED <<host, doubtful>>
        /\ op' = [op EXCEPT !.records = records, !.carried = Retained(op.agent),
                            !.at = CASE op.kind = "install" -> "migrate"
                                     [] op.kind # "install" /\ Mismatched(op.agent, records) -> "rollback"
                                     [] OTHER -> "release"]
    BY <1>5 DEF Checkpoint
  <2> HIDE DEF records
  <2>2. /\ op'.released = {} /\ op'.agent = op.agent /\ op'.records = records
        /\ op'.at \in {"migrate", "rollback", "release"}
        /\ op'.at = "release" => ~Mismatched(op.agent, records)
    BY <1>1, <2>1 DEF Operations, Fresh
  <2> QED BY <2>1, <2>2 DEF Fresh, ChatsFirst, Mismatched
<1>6. CASE Release
  <2> DEFINE part == IF "chat" \in Unreleased THEN "chat" ELSE "session"
             gone == IF part = "chat" THEN {"chat"} ELSE Parts
  <2>1. /\ op.at = "release" /\ Unreleased # {} /\ doubtful' = doubtful
        /\ host' = [host EXCEPT ![op.agent].up = @ \ gone]
        /\ op' = [op EXCEPT !.released = @ \cup {part}]
    BY <1>6 DEF Release
  <2>2. op.at \in Drained /\ Unreleased = op.records \ op.released /\ Unreleased \subseteq Parts
    BY <1>1, <2>1 DEF Drained, Unreleased, Operations
  <2> HIDE DEF part, gone
  <2>3. /\ op'.at = "release" /\ op'.agent = op.agent /\ op'.records = op.records
        /\ op'.released = op.released \cup {part}
        /\ host'[op.agent].up = host[op.agent].up \ gone
    BY <1>1, <2>1 DEF Operations, Typed, Captured
  <2>4. ASSUME op.agent \notin doubtful
        PROVE  /\ "chat" \in op'.released /\ "session" \notin op'.released => "session" \in host'[op.agent].up
               /\ op'.records \ op'.released \subseteq host'[op.agent].up
    <3>1. Unreleased \subseteq host[op.agent].up /\ host[op.agent].up \in Flags
      BY <1>1, <2>1, <2>2, <2>4 DEF ChatsFirst, Belief, Believes
    <3>2. CASE "chat" \in Unreleased
      <4>1. part = "chat" /\ gone = {"chat"}
        BY <3>2 DEF part, gone
      <4>2. host[op.agent].up = Parts
        BY <3>1, <3>2 DEF Flags, Parts
      <4> QED BY <2>2, <2>3, <3>1, <4>1, <4>2 DEF Parts
    <3>3. CASE "chat" \notin Unreleased
      <4>1. part = "session"
        BY <3>3 DEF part
      <4> QED BY <2>2, <2>3, <3>3, <4>1 DEF Parts
    <3> QED BY <3>2, <3>3
  <2>5. Fresh'
    BY <2>3 DEF Fresh
  <2>6. ChatsFirst'
    BY <2>1, <2>3, <2>4 DEF ChatsFirst
  <2> QED BY <2>5, <2>6
<1>7. CASE Rematerialize
  <2> DEFINE part == IF "session" \in op.released THEN "session" ELSE "chat"
  <2>1. /\ op.at \in {"unrelease", "rollback"} /\ doubtful' = doubtful
        /\ host' = [host EXCEPT ![op.agent].up = @ \cup {part}]
        /\ op' = [op EXCEPT !.released = @ \ {part}]
    BY <1>7 DEF Rematerialize
  <2> HIDE DEF part
  <2>2. /\ op'.at = op.at /\ op'.agent = op.agent /\ op'.released = op.released \ {part}
        /\ host'[op.agent].up = host[op.agent].up \cup {part}
    BY <1>1, <2>1 DEF Operations, Typed, Captured
  <2>3. "chat" \in op'.released => "session" \in host'[op.agent].up
    BY <2>2 DEF part
  <2>4. Fresh'
    BY <2>1, <2>2 DEF Fresh
  <2>5. ChatsFirst'
    BY <2>1, <2>2, <2>3 DEF ChatsFirst
  <2> QED BY <2>4, <2>5
<1>8. CASE ReleaseRefused \/ Released \/ TakeCheckpoints \/ Migrate \/ MigrateRefused \/ CommitState
           \/ CommitStateRefused \/ Restore \/ RematerializeRefused
  <2>1. op.at \in Drained /\ host' = host /\ doubtful \subseteq doubtful'
    BY <1>8 DEF ReleaseRefused, Released, TakeCheckpoints, Migrate, MigrateRefused, CommitState, CommitStateRefused,
                Restore, RematerializeRefused, Drained
  <2>2. op'.agent = op.agent /\ op'.released \in {op.released, {}}
    BY <1>1, <1>8 DEF ReleaseRefused, Released, TakeCheckpoints, Migrate, MigrateRefused, CommitState,
                      CommitStateRefused, Restore, RematerializeRefused, Operations
  <2>3. op'.at \in {"unrelease", "settle", "rollback", "migrate", "activated", "complete", "stuck"}
    BY <1>1, <1>8 DEF ReleaseRefused, Released, TakeCheckpoints, Migrate, MigrateRefused, CommitState,
                      CommitStateRefused, Restore, RematerializeRefused, Operations
  <2>4. Fresh'
    BY <2>3 DEF Fresh
  <2>5. ChatsFirst'
    BY <2>1, <2>2, <2>3, OrderQuiet
  <2> QED BY <2>4, <2>5
<1> QED BY <1>2, <1>3, <1>4, <1>5, <1>6, <1>7, <1>8 DEF OperationStep

\* The order in which an operation releases and restores backings.
LEMMA OrderKept ==
  ASSUME Typed, Completing, DrainHolds, Belief, Fresh, ChatsFirst, JobStep \/ OperationStep \/ Environment
  PROVE  Fresh' /\ ChatsFirst'
<1>1. CASE JobStep
  <2>1. op'.released = op.released /\ op'.records = op.records
    BY <1>1, OperationKeeps
  <2>2. \/ op' = op
        \/ op.at = "asleep" /\ op'.at = "drain" /\ op'.agent = op.agent
        \/ op.at = "complete" /\ op'.at \in {"settled", "restore"} /\ op'.agent = op.agent
    BY <1>1, OperationAfterJob
  <2>3. Fresh'
    BY <2>1, <2>2 DEF Fresh
  <2>4. op'.at \in Drained => op.at \in Drained /\ op'.agent = op.agent
    BY <2>2 DEF Drained
  <2>5. op'.at = "release" => op.at = "release"
    BY <2>2
  <2>6. ChatsFirst'
    BY <1>1, <2>1, <2>4, <2>5, FlagsKept DEF ChatsFirst
  <2> QED BY <2>3, <2>6
<1>2. CASE OperationStep
  BY <1>2, OrderAfterStep
<1>3. ASSUME NEW a, (\E call \in Calls : Ask(a, call)) \/ Emit(a) \/ EndTurn(a)
      PROVE  Fresh' /\ ChatsFirst'
  <2>1. UNCHANGED <<host, op, doubtful>>
    BY <1>3 DEF Ask, Emit, EndTurn
  <2> QED BY <2>1 DEF Fresh, ChatsFirst
<1>4. ASSUME NEW a, NEW kind, NEW next, Open(a, kind, next)
      PROVE  Fresh' /\ ChatsFirst'
  <2>1. op'.at = "recorded" /\ op'.released = {}
    BY <1>4 DEF Open
  <2> QED BY <2>1 DEF Fresh, ChatsFirst, Drained
<1> QED BY <1>1, <1>2, <1>3, <1>4 DEF Environment

-----------------------------------------------------------------------------
Believing == Working /\ Belief /\ Fresh /\ ChatsFirst

\* The invariant of the flags is inductive.
LEMMA BelievingKept == Believing /\ [Next]_vars => Believing'
<1> SUFFICES ASSUME Believing, [Next]_vars PROVE Believing'
  OBVIOUS
<1>1. Working'
  BY WorkingKept DEF Believing
<1>2. CASE Next
  <2>1. /\ Typed /\ Completing /\ DrainHolds /\ Belief /\ Fresh /\ ChatsFirst
        /\ JobStep \/ OperationStep \/ Environment
    BY <1>2 DEF Believing, Working, Next
  <2>2. Belief'
    BY <2>1, BeliefAfterJob, BeliefAfterStep, BeliefAfterEnvironment
  <2>3. Fresh' /\ ChatsFirst'
    BY <2>1, OrderKept
  <2> QED BY <1>1, <2>2, <2>3 DEF Believing
<1>3. CASE UNCHANGED vars
  <2>1. UNCHANGED <<host, op, doubtful, loaded, run, queue>>
    BY <1>3 DEF vars
  <2>2. Belief'
    BY <2>1, BeliefQuiet DEF Believing, Working
  <2>3. Fresh' /\ ChatsFirst'
    BY <2>1 DEF Believing, Fresh, ChatsFirst
  <2> QED BY <1>1, <2>2, <2>3 DEF Believing
<1> QED BY <1>2, <1>3

LEMMA BelievingInitially == Init => Believing
<1> SUFFICES ASSUME Init PROVE Believing
  OBVIOUS
<1>1. Working
  BY WorkingInitially
<1>2. run = NoRun /\ ~Capturing /\ op.at = "idle"
  BY DEF Init, Capturing, NoRun, NoOperation
<1>3. Belief
  BY <1>2 DEF Init, Belief, Believes, Believed, Moving, CallCaptured, CallBegan, Flags
<1>4. Fresh /\ ChatsFirst
  BY <1>2 DEF Fresh, ChatsFirst, Drained
<1> QED BY <1>1, <1>3, <1>4 DEF Believing

\* With no job and no operation under way, the flags of every Agent that is not
\* doubtful say what its runtime has loaded, whichever call or commit failed before
\* (releaseSession, materializeSession, checkpointAndReleasePackageBackings).
THEOREM BeliefIsRight == Spec => []BeliefMatchesUnlessDoubtful
<1>1. Believing => BeliefMatchesUnlessDoubtful
  BY DEF Believing, Belief, Believes, Believed, Moving, BeliefMatchesUnlessDoubtful, AtRest
<1>2. Spec => []Believing
  <2>1. Init => Believing
    BY BelievingInitially
  <2>2. Believing /\ [Next]_vars => Believing'
    BY BelievingKept
  <2> QED BY <2>1, <2>2, PTL DEF Spec
<1> QED BY <1>1, <1>2, PTL

-----------------------------------------------------------------------------
(* The two stores *)

\* What a job captured differs from the Host's resume values where the job brings one.
ResumeAfter(a) == IF Job.kind = "resume" /\ Job.agent = a THEN Job.resume ELSE host[a].resume
ResumesCaptured == Capturing => \A a \in Agents : run.next[a].resume = ResumeAfter(a)

LEMMA ChangedResumes ==
  ASSUME Typed, queue # <<>>, Job.kind # "complete", NEW a \in Agents
  PROVE  Changed(Job)[a].resume = ResumeAfter(a)
<1>1. Job.agent \in Agents /\ Job.kind \in Calls \cup {"terminal", "resume"}
  BY JobFacts
<1>2. DOMAIN host = Agents /\ \A b \in Agents : DOMAIN host[b] = {"lifecycle", "up", "turn", "resume"}
  BY DEF Typed, Captured
<1> HIDE DEF Job
<1> QED BY <1>1, <1>2 DEF Changed, ResumeAfter, Calls

LEMMA ResumesQuiet ==
  ASSUME Typed, ResumesCaptured, \A a \in Agents : host'[a].resume = host[a].resume,
         queue' = queue \/ \E job \in Jobs : queue' = Append(queue, job),
         run' = run \/ (Capturing /\ queue' = queue /\ run'.next = run.next)
  PROVE  ResumesCaptured'
<1>1. Capturing => run # NoRun
  BY DEF Capturing, NoRun
<1>2. run # NoRun => Job' = Job
  <2>1. CASE queue' = queue
    BY <2>1 DEF Job
  <2>2. CASE run' = run
    BY <2>2, AppendTyped DEF Typed, Job
  <2> QED BY <2>1, <2>2
<1>3. Capturing' => Capturing /\ run'.next = run.next
  BY DEF Capturing
<1> QED BY <1>1, <1>2, <1>3 DEF ResumesCaptured, ResumeAfter

LEMMA ResumesKept ==
  ASSUME Typed, Completing, ResumesCaptured, JobStep \/ OperationStep \/ Environment
  PROVE  ResumesCaptured'
<1>1. CASE ~Capturing'
  BY <1>1 DEF ResumesCaptured
<1>2. run' = NoRun \/ run'.at \in {"agent", "compensate"} => ~Capturing'
  BY DEF Capturing, NoRun
<1>3. CASE Refuse \/ AgentRefuses \/ StageRefused \/ Commit \/ Undo \/ Compensate \/ CompleteRefused
  <2>1. run' = NoRun \/ run'.at = "compensate"
    BY <1>3 DEF Refuse, AgentRefuses, StageRefused, Commit, Undo, Compensate, CompleteRefused, Abandon, Throw, Dequeue
  <2> QED BY <1>1, <1>2, <2>1
<1>4. CASE Start
  <2>1. queue # <<>> /\ Job.kind # "complete" /\ UNCHANGED host /\ Job' = Job
    BY <1>4 DEF Start, Job
  <2>2. run'.at = "agent" \/ run'.next = Changed(Job)
    BY <1>4 DEF Start, AwaitLock
  <2> QED BY <1>1, <1>2, <2>1, <2>2, ChangedResumes DEF ResumesCaptured, ResumeAfter
<1>5. CASE AgentAnswers
  <2>1. run # NoRun /\ queue # <<>> /\ Job.kind \in {"release", "materialize"} /\ UNCHANGED host /\ Job' = Job
    BY <1>5 DEF AgentAnswers, NoRun, Typed, RunShape, Job
  <2>2. run'.next = Changed(Job)
    BY <1>5 DEF AgentAnswers, AwaitLock
  <2> QED BY <2>1, <2>2, ChangedResumes DEF ResumesCaptured, ResumeAfter
<1>6. CASE Stage
  <2>1. Capturing /\ UNCHANGED <<queue, host>> /\ run'.next = run.next
    BY <1>6 DEF Stage, Capturing
  <2> QED BY <2>1, ResumesQuiet
<1>7. CASE CommitRefused
  <2>1. Capturing /\ UNCHANGED host
    BY <1>7 DEF CommitRefused, Capturing
  <2>2. CASE run.backing /\ run' = [run EXCEPT !.at = "undo"] /\ UNCHANGED queue
    <3>1. run.at = "commit"
      BY <1>7 DEF CommitRefused
    <3>2. run'.next = run.next
      BY <2>2, <3>1, RunFacts
    <3> QED BY <2>1, <2>2, <3>2, ResumesQuiet
  <2>3. CASE Dequeue \/ Abandon
    <3>1. run' = NoRun \/ run'.at = "compensate"
      BY <2>3 DEF Abandon, Throw, Dequeue
    <3> QED BY <1>1, <1>2, <3>1
  <2> QED BY <1>7, <2>2, <2>3 DEF CommitRefused
<1>8. CASE Complete
  <2>1. /\ Job.kind = "complete" /\ UNCHANGED host /\ Job' = Job
        /\ op \in Operations
    BY <1>8, CompleteFacts DEF Complete, Job, Typed
  <2>2. run'.next = [host EXCEPT ![op.agent].lifecycle = IF op.next = Unregistered THEN "unavailable" ELSE "released"]
    BY <1>8 DEF Complete
  <2>3. \A a \in Agents : run'.next[a].resume = host[a].resume
    BY <2>2 DEF Typed, Captured
  <2> QED BY <2>1, <2>3 DEF ResumesCaptured, ResumeAfter
<1>9. CASE OperationStep
  <2>1. run' = run /\ \A a \in Agents : host'[a].resume = host[a].resume
    BY <1>9, SMTT(40) DEF OperationStep, CommitRecord, CommitRecordRefused, Gate, Drain, Checkpoint, Release, ReleaseRefused,
                Released, TakeCheckpoints, Migrate, MigrateRefused, CommitState, CommitStateRefused, Settled,
                Restore, Rematerialize, RematerializeRefused, RolledBack, Typed, Captured
  <2>2. queue' = queue \/ \E job \in Jobs : queue' = Append(queue, job)
    <3>1. [kind |-> "complete", agent |-> op.agent] \in Jobs
      BY <1>9, OperationAfterStep DEF Jobs
    <3>2. queue' = queue \/ queue' = Append(queue, [kind |-> "complete", agent |-> op.agent])
      BY <1>9 DEF OperationStep, CommitRecord, CommitRecordRefused, Gate, Drain, Checkpoint, Release, ReleaseRefused,
                  Released, TakeCheckpoints, Migrate, MigrateRefused, CommitState, CommitStateRefused, Settled,
                  Restore, Rematerialize, RematerializeRefused, RolledBack
    <3> QED BY <3>1, <3>2
  <2> QED BY <2>1, <2>2, ResumesQuiet
<1>10. CASE Environment
  <2>1. ASSUME NEW a \in Agents, (\E call \in Calls : Ask(a, call)) \/ Emit(a) \/ EndTurn(a)
        PROVE  ResumesCaptured'
    <3>1. UNCHANGED <<host, run>>
      BY <2>1 DEF Ask, Emit, EndTurn
    <3>2. \E job \in Jobs : queue' = Append(queue, job)
      BY <2>1, Requests
    <3> QED BY <3>1, <3>2, ResumesQuiet
  <2>2. ASSUME NEW a, NEW kind, NEW next, Open(a, kind, next)
        PROVE  ResumesCaptured'
    BY <2>2, ResumesQuiet DEF Open
  <2> QED BY <1>10, <2>1, <2>2 DEF Environment
<1> QED BY <1>3, <1>4, <1>5, <1>6, <1>7, <1>8, <1>9, <1>10 DEF JobStep

-----------------------------------------------------------------------------
\* Who holds the state lock and who waits for it follows from where the job and
\* the operation are.
Waiters == {"op", "job", "nobody"}
Staged == run.at \in {"commit", "undo"} /\ run.backing
JobNeeds == run.at = "lock" \/ Staged
OpHolds == op.at \in {"complete", "settled", "restore"}
OpNeeds == OpHolds \/ op.at \in {"recorded", "prepared", "activated", "commit", "finished", "failed"}
Has(chain, who) == \E i \in DOMAIN chain : chain[i] = who
Once(chain, who) == \A i, j \in DOMAIN chain : chain[i] = who /\ chain[j] = who => i = j
Kept(chain) == \A i \in DOMAIN chain : chain[i] = "nobody" => i = 1
Locks ==
  /\ lock \in Seq(Waiters) /\ Once(lock, "op") /\ Once(lock, "job") /\ Kept(lock)
  /\ Has(lock, "op") <=> OpNeeds
  /\ Has(lock, "job") <=> JobNeeds
  /\ OpHolds => Holds("op")
  /\ Staged => Holds("job")

\* Somebody joins the chain.
LEMMA ChainJoined ==
  ASSUME NEW S, NEW chain \in Seq(S), NEW who \in S, ~Has(chain, who)
  PROVE  LET next == Append(chain, who) IN
         /\ next \in Seq(S) /\ next # <<>> /\ Has(next, who) /\ Once(next, who)
         /\ chain # <<>> => Head(next) = Head(chain)
         /\ who # "nobody" /\ Kept(chain) => Kept(next)
         /\ \A other : other # who => (Has(next, other) <=> Has(chain, other)) /\ (Once(chain, other) => Once(next, other))
<1> DEFINE next == Append(chain, who)
<1>1. next \in Seq(S) /\ Len(next) = Len(chain) + 1 /\ next[Len(chain) + 1] = who
      /\ \A i \in 1 .. Len(chain) : next[i] = chain[i]
  BY AppendProperties
<1> HIDE DEF next
<1>2. Len(chain) \in Nat /\ DOMAIN chain = 1 .. Len(chain) /\ DOMAIN next = 1 .. Len(chain) + 1
  BY <1>1
<1>3. \A i \in 1 .. Len(chain) + 1 : i = Len(chain) + 1 \/ i \in 1 .. Len(chain)
  BY <1>2
<1>4. Len(chain) + 1 \in 1 .. Len(chain) + 1 /\ \A i \in 1 .. Len(chain) : i \in 1 .. Len(chain) + 1
  BY <1>2
<1>5. Has(next, who) /\ Once(next, who)
  BY <1>1, <1>2, <1>3, <1>4 DEF Has, Once
<1>6. \A other : other # who => (Has(next, other) <=> Has(chain, other)) /\ (Once(chain, other) => Once(next, other))
  BY <1>1, <1>2, <1>3, <1>4 DEF Has, Once
<1>7. next # <<>> /\ (chain # <<>> => Head(next) = Head(chain))
  <2>1. next # <<>> /\ Head(next) = next[1]
    BY <1>1, <1>2
  <2>2. chain # <<>> => Head(chain) = chain[1] /\ 1 \in 1 .. Len(chain)
    BY <1>2
  <2> QED BY <1>1, <2>1, <2>2
<1>8. who # "nobody" /\ Kept(chain) => Kept(next)
  BY <1>1, <1>2, <1>3 DEF Kept
<1> QED BY <1>1, <1>5, <1>6, <1>7, <1>8 DEF next

\* Its head leaves the chain.
LEMMA ChainLeft ==
  ASSUME NEW S, NEW chain \in Seq(S), chain # <<>>, Once(chain, Head(chain))
  PROVE  LET next == Tail(chain) IN
         /\ next \in Seq(S) /\ ~Has(next, Head(chain)) /\ (Kept(chain) => Kept(next))
         /\ \A other : other # Head(chain) => (Has(next, other) <=> Has(chain, other))
         /\ \A other : Once(chain, other) => Once(next, other)
<1> DEFINE next == Tail(chain)
<1>1. next \in Seq(S) /\ Len(next) = Len(chain) - 1 /\ \A i \in 1 .. Len(next) : next[i] = chain[i + 1]
  BY HeadTailProperties
<1> HIDE DEF next
<1>2. /\ Len(chain) \in Nat \ {0} /\ DOMAIN chain = 1 .. Len(chain) /\ DOMAIN next = 1 .. Len(next)
      /\ Head(chain) = chain[1] /\ 1 \in DOMAIN chain
  BY <1>1
<1>3. \A i \in DOMAIN next : i \in Nat \ {0} /\ i + 1 \in DOMAIN chain /\ i + 1 # 1 /\ next[i] = chain[i + 1]
  BY <1>1, <1>2
<1>4. \A i \in DOMAIN chain : i # 1 => i - 1 \in DOMAIN next /\ next[i - 1] = chain[i]
  <2> SUFFICES ASSUME NEW i \in 1 .. Len(chain), i # 1
               PROVE  i - 1 \in 1 .. Len(next) /\ next[i - 1] = chain[i]
    BY <1>2
  <2>1. i - 1 \in 1 .. Len(next) /\ (i - 1) + 1 = i
    BY <1>1, <1>2
  <2> QED BY <1>1, <2>1
<1>5. ~Has(next, Head(chain))
  BY <1>2, <1>3 DEF Has, Once
<1>6. \A other : other # Head(chain) => (Has(next, other) <=> Has(chain, other))
  BY <1>2, <1>3, <1>4 DEF Has
<1>7. ASSUME NEW other, Once(chain, other), NEW i \in DOMAIN next, NEW j \in DOMAIN next,
             next[i] = other, next[j] = other
      PROVE  i = j
  <2>1. i + 1 = j + 1
    BY <1>3, <1>7 DEF Once
  <2> QED BY <1>3, <2>1
<1>8. Kept(chain) => Kept(next)
  BY <1>3 DEF Kept
<1> QED BY <1>1, <1>5, <1>6, <1>7, <1>8 DEF next, Once

\* Its head is replaced.
LEMMA ChainReplaced ==
  ASSUME NEW S, NEW chain \in Seq(S), chain # <<>>, NEW who \in S
  PROVE  LET next == <<who>> \o Tail(chain) IN
         /\ next \in Seq(S) /\ next # <<>> /\ Head(next) = who /\ DOMAIN next = DOMAIN chain
         /\ \A i \in DOMAIN chain : next[i] = IF i = 1 THEN who ELSE chain[i]
<1> DEFINE r == Tail(chain)
           o == <<who>>
           t == o \o r
<1>1. r \in Seq(S) /\ Len(r) = Len(chain) - 1 /\ \A i \in 1 .. Len(r) : r[i] = chain[i + 1]
  BY HeadTailProperties
<1>2. o \in Seq(S) /\ Len(o) = 1 /\ o[1] = who
  OBVIOUS
<1> HIDE DEF r, o
<1>3. /\ t \in Seq(S) /\ Len(t) = Len(o) + Len(r)
      /\ \A i \in 1 .. Len(o) + Len(r) : t[i] = IF i <= Len(o) THEN o[i] ELSE r[i - Len(o)]
  <2>1. \A s1 \in Seq(S), s2 \in Seq(S) :
          /\ s1 \o s2 \in Seq(S) /\ Len(s1 \o s2) = Len(s1) + Len(s2)
          /\ \A i \in 1 .. Len(s1) + Len(s2) : (s1 \o s2)[i] = IF i <= Len(s1) THEN s1[i] ELSE s2[i - Len(s1)]
    BY ConcatProperties
  <2> QED BY <1>1, <1>2, <2>1, Zenon
<1> HIDE DEF t
<1>4. Len(chain) \in Nat \ {0} /\ Len(t) = Len(chain) /\ DOMAIN t = 1 .. Len(t) /\ DOMAIN chain = 1 .. Len(chain)
  BY <1>1, <1>2, <1>3
<1>5. \A i \in 1 .. Len(chain) : t[i] = IF i = 1 THEN who ELSE chain[i]
  <2> SUFFICES ASSUME NEW i \in 1 .. Len(chain)
               PROVE  t[i] = IF i = 1 THEN who ELSE chain[i]
    OBVIOUS
  <2>1. t[i] = IF i <= Len(o) THEN o[i] ELSE r[i - Len(o)]
    BY <1>1, <1>2, <1>3, <1>4
  <2>2. CASE i = 1
    BY <1>2, <2>1, <2>2
  <2>3. CASE i # 1
    <3>1. i - 1 \in 1 .. Len(r) /\ (i - 1) + 1 = i
      BY <1>1, <1>4, <2>3
    <3>2. r[i - 1] = chain[(i - 1) + 1]
      BY <1>1, <3>1
    <3>3. t[i] = r[i - 1]
      BY <1>2, <1>4, <2>1, <2>3
    <3> QED BY <2>3, <3>1, <3>2, <3>3
  <2> QED BY <2>2, <2>3
<1>6. t # <<>> /\ Head(t) = who
  BY <1>3, <1>4, <1>5
<1> QED BY <1>3, <1>4, <1>5, <1>6 DEF r, o, t

LEMMA LockFacts ==
  ASSUME Locks
  PROVE  /\ Holds("op") => OpNeeds /\ ~Staged /\ ~Holds("nobody")
         /\ Holds("job") => JobNeeds /\ ~OpHolds /\ ~Holds("nobody")
         /\ Staged => ~OpHolds /\ ~Holds("nobody")
<1>1. \A who : Holds(who) => Has(lock, who)
  BY DEF Holds, Has, Locks
<1> QED BY <1>1 DEF Locks, Holds

\* Steps that leave the lock alone, or go on from waiting to holding it.
LEMMA LocksQuiet ==
  ASSUME Locks, lock' = lock, OpNeeds' <=> OpNeeds, JobNeeds' <=> JobNeeds,
         OpHolds' => OpHolds \/ Holds("op"), Staged' => Staged \/ Holds("job")
  PROVE  Locks'
BY DEF Locks, Holds

LEMMA OpJoins ==
  ASSUME Locks, lock' = Append(lock, "op"), ~OpNeeds, OpNeeds', ~OpHolds', JobNeeds' <=> JobNeeds, Staged' => Staged
  PROVE  Locks'
<1>1. lock \in Seq(Waiters) /\ "op" \in Waiters /\ ~Has(lock, "op")
  BY DEF Locks, Waiters
<1>2. /\ lock' \in Seq(Waiters) /\ lock' # <<>> /\ Has(lock', "op") /\ Once(lock', "op")
      /\ lock # <<>> => Head(lock') = Head(lock)
      /\ \A other : other # "op" => (Has(lock', other) <=> Has(lock, other)) /\ (Once(lock, other) => Once(lock', other))
      /\ Kept(lock')
  BY <1>1, ChainJoined DEF Locks
<1> QED BY <1>2 DEF Locks, Holds

LEMMA JobJoins ==
  ASSUME Locks, lock' = Append(lock, "job"), ~JobNeeds, JobNeeds', ~Staged', OpNeeds' <=> OpNeeds, OpHolds' => OpHolds
  PROVE  Locks'
<1>1. lock \in Seq(Waiters) /\ "job" \in Waiters /\ ~Has(lock, "job")
  BY DEF Locks, Waiters
<1>2. /\ lock' \in Seq(Waiters) /\ lock' # <<>> /\ Has(lock', "job") /\ Once(lock', "job")
      /\ lock # <<>> => Head(lock') = Head(lock)
      /\ \A other : other # "job" => (Has(lock', other) <=> Has(lock, other)) /\ (Once(lock, other) => Once(lock', other))
      /\ Kept(lock')
  BY <1>1, ChainJoined DEF Locks
<1> QED BY <1>2 DEF Locks, Holds

LEMMA OpLeaves ==
  ASSUME Locks, Holds("op"), lock' = Tail(lock), ~OpNeeds', JobNeeds' <=> JobNeeds, Staged' => Staged
  PROVE  Locks'
<1>1. lock \in Seq(Waiters) /\ lock # <<>> /\ Head(lock) = "op" /\ Once(lock, "op") /\ ~Staged
  BY LockFacts DEF Locks, Holds
<1>2. /\ lock' \in Seq(Waiters) /\ ~Has(lock', "op") /\ (Has(lock', "job") <=> Has(lock, "job"))
      /\ Kept(lock') /\ \A other : Once(lock, other) => Once(lock', other)
  BY <1>1, ChainLeft DEF Locks
<1> QED BY <1>1, <1>2 DEF Locks, OpNeeds

LEMMA JobLeavesLock ==
  ASSUME Locks, Holds("job"), lock' = Tail(lock), ~JobNeeds', OpNeeds' <=> OpNeeds, OpHolds' => OpHolds
  PROVE  Locks'
<1>1. lock \in Seq(Waiters) /\ lock # <<>> /\ Head(lock) = "job" /\ Once(lock, "job") /\ ~OpHolds
  BY LockFacts DEF Locks, Holds
<1>2. /\ lock' \in Seq(Waiters) /\ ~Has(lock', "job") /\ (Has(lock', "op") <=> Has(lock, "op"))
      /\ Kept(lock') /\ \A other : Once(lock, other) => Once(lock', other)
  BY <1>1, ChainLeft DEF Locks
<1> QED BY <1>1, <1>2 DEF Locks, JobNeeds

LEMMA OpRejoins ==
  ASSUME Locks, Holds("op"), lock' = Append(Tail(lock), "op"), OpNeeds', ~OpHolds', JobNeeds' <=> JobNeeds, Staged' => Staged
  PROVE  Locks'
<1>1. lock \in Seq(Waiters) /\ lock # <<>> /\ Head(lock) = "op" /\ Once(lock, "op") /\ ~Staged
  BY LockFacts DEF Locks, Holds
<1> DEFINE rest == Tail(lock)
<1>2. /\ rest \in Seq(Waiters) /\ ~Has(rest, "op") /\ (Has(rest, "job") <=> Has(lock, "job"))
      /\ Kept(rest) /\ \A other : Once(lock, other) => Once(rest, other)
  BY <1>1, ChainLeft DEF Locks
<1>3. lock' = Append(rest, "op") /\ "op" \in Waiters
  BY DEF Waiters
<1> HIDE DEF rest
<1> DEFINE next == Append(rest, "op")
<1>4. /\ next \in Seq(Waiters) /\ Has(next, "op") /\ Once(next, "op") /\ Kept(next)
      /\ \A other : other # "op" => (Has(next, other) <=> Has(rest, other)) /\ (Once(rest, other) => Once(next, other))
  BY <1>2, <1>3, ChainJoined
<1>5. lock' = next
  BY <1>3
<1> HIDE DEF next
<1> QED BY <1>1, <1>2, <1>4, <1>5 DEF Locks

LEMMA LockKept ==
  ASSUME Locks, Holds("job"), lock' = <<"nobody">> \o Tail(lock), ~JobNeeds', OpNeeds' <=> OpNeeds, OpHolds' => OpHolds
  PROVE  Locks' /\ Holds("nobody")'
<1>1. /\ lock \in Seq(Waiters) /\ lock # <<>> /\ 1 \in DOMAIN lock /\ lock[1] = "job" /\ "nobody" \in Waiters
      /\ ~OpHolds /\ Once(lock, "job")
  BY LockFacts DEF Locks, Holds, Waiters
<1>2. /\ lock' \in Seq(Waiters) /\ lock' # <<>> /\ Head(lock') = "nobody" /\ DOMAIN lock' = DOMAIN lock
      /\ \A i \in DOMAIN lock : lock'[i] = IF i = 1 THEN "nobody" ELSE lock[i]
  BY <1>1, ChainReplaced
<1>3. /\ Once(lock', "op") /\ Once(lock', "job") /\ ~Has(lock', "job") /\ (Has(lock', "op") <=> Has(lock, "op"))
  <2>1. \A i \in DOMAIN lock : (lock'[i] = "op" <=> lock[i] = "op") /\ lock'[i] # "job"
    BY <1>1, <1>2 DEF Once
  <2>2. Once(lock, "op")
    BY DEF Locks
  <2>3. DOMAIN lock' = DOMAIN lock
    BY <1>2
  <2>4. Once(lock', "op")
    BY <2>1, <2>2, <2>3 DEF Once
  <2>5. Once(lock', "job") /\ ~Has(lock', "job")
    BY <2>1, <2>3 DEF Once, Has
  <2>6. Has(lock', "op") <=> Has(lock, "op")
    BY <2>1, <2>3 DEF Has
  <2> QED BY <2>4, <2>5, <2>6
<1>4. Kept(lock')
  BY <1>2 DEF Locks, Kept
<1> QED BY <1>1, <1>2, <1>3, <1>4 DEF Locks, Holds, JobNeeds

LEMMA PlacesAfterJob ==
  ASSUME Typed, Completing, JobStep
  PROVE  (OpNeeds' <=> OpNeeds) /\ (OpHolds' <=> OpHolds)
<1>1. op' = op \/ (op.at = "asleep" /\ op'.at = "drain") \/ (op.at = "complete" /\ op'.at \in {"settled", "restore"})
  BY OperationAfterJob
<1> QED BY <1>1 DEF OpNeeds, OpHolds

\* The job queues for the lock when it has its sessions, and gives the lock
\* back with its commit or when it abandons that.
LEMMA LocksAfterJob ==
  ASSUME Typed, Completing, Locks, JobStep
  PROVE  Locks'
<1>1. (OpNeeds' <=> OpNeeds) /\ (OpHolds' <=> OpHolds)
  BY PlacesAfterJob
<1>2. run' = NoRun \/ run'.at \in {"agent", "compensate"} => ~JobNeeds' /\ ~Staged'
  BY DEF JobNeeds, Staged, NoRun
<1>3. run = NoRun \/ run.at \in {"agent", "compensate"} => ~JobNeeds /\ ~Staged
  BY DEF JobNeeds, Staged, NoRun
<1>4. Abandon \/ Throw \/ Dequeue => ~JobNeeds' /\ ~Staged'
  BY <1>2 DEF Abandon, Throw, Dequeue
<1>5. CASE Refuse \/ AgentRefuses \/ Compensate \/ CompleteRefused
  <2>1. lock' = lock /\ ~JobNeeds /\ ~JobNeeds' /\ ~Staged'
    BY <1>3, <1>4, <1>5 DEF Refuse, AgentRefuses, Compensate, CompleteRefused, Throw
  <2> QED BY <1>1, <2>1, LocksQuiet
<1>6. AwaitLock => lock' = Append(lock, "job") /\ JobNeeds' /\ ~Staged'
  BY DEF AwaitLock, JobNeeds, Staged
<1>7. CASE Start
  <2>1. ~JobNeeds
    BY <1>3, <1>7 DEF Start
  <2>2. CASE AwaitLock
    BY <1>1, <1>6, <2>1, <2>2, JobJoins
  <2>3. CASE lock' = lock /\ (run'.at = "agent" \/ (run'.at = "commit" /\ ~run'.backing))
    <3>1. ~JobNeeds' /\ ~Staged'
      BY <2>3 DEF JobNeeds, Staged
    <3> QED BY <1>1, <2>1, <2>3, <3>1, LocksQuiet
  <2> QED BY <1>7, <2>2, <2>3 DEF Start
<1>8. CASE AgentAnswers
  BY <1>1, <1>3, <1>6, <1>8, JobJoins DEF AgentAnswers
<1>9. CASE Stage
  <2>1. lock' = lock /\ Holds("job") /\ JobNeeds /\ JobNeeds'
    BY <1>9 DEF Stage, JobNeeds, Staged
  <2> QED BY <1>1, <2>1, LocksQuiet
<1>10. CASE StageRefused
  BY <1>1, <1>4, <1>10, JobLeavesLock DEF StageRefused, Unlock
<1>11. CASE Commit
  <2>1. ~JobNeeds' /\ ~Staged'
    BY <1>4, <1>11 DEF Commit
  <2>2. CASE run.backing
    <3>1. Holds("job") /\ lock' = Tail(lock)
      BY <1>11, <2>2 DEF Commit, Unlock, Locks, Staged
    <3> QED BY <1>1, <2>1, <3>1, JobLeavesLock
  <2>3. CASE ~run.backing
    <3>1. ~JobNeeds /\ lock' = lock
      BY <1>11, <2>3 DEF Commit, JobNeeds, Staged
    <3> QED BY <1>1, <2>1, <3>1, LocksQuiet
  <2> QED BY <2>2, <2>3
<1>12. CASE CommitRefused
  <2>1. lock' = lock /\ run.at = "commit"
    BY <1>12 DEF CommitRefused
  <2>2. CASE run.backing
    <3>1. run'.at = "undo" /\ run'.backing
      <4>1. run' = [run EXCEPT !.at = "undo"] /\ run \in Runs /\ run # NoRun
        BY <1>12, <2>2 DEF CommitRefused, Typed, NoRun
      <4> QED BY <2>1, <2>2, <4>1 DEF Runs, NoRun
    <3>2. JobNeeds /\ JobNeeds' /\ Staged
      BY <2>1, <2>2, <3>1 DEF JobNeeds, Staged
    <3> QED BY <1>1, <2>1, <3>2, LocksQuiet
  <2>3. CASE ~run.backing
    <3>1. ~JobNeeds /\ ~JobNeeds' /\ ~Staged'
      BY <1>4, <1>12, <2>1, <2>3 DEF CommitRefused, JobNeeds, Staged
    <3> QED BY <1>1, <2>1, <3>1, LocksQuiet
  <2> QED BY <2>2, <2>3
<1>13. CASE Undo
  <2>1. Staged /\ Holds("job")
    BY <1>13, RunFacts DEF Undo, Staged, Locks
  <2>2. ~JobNeeds' /\ ~Staged'
    BY <1>4, <1>13 DEF Undo
  <2>3. lock' = Tail(lock) \/ lock' = <<"nobody">> \o Tail(lock)
    BY <1>13 DEF Undo, Unlock
  <2> QED BY <1>1, <2>1, <2>2, <2>3, JobLeavesLock, LockKept
<1>14. CASE Complete
  <2>1. lock' = lock /\ ~JobNeeds /\ ~JobNeeds' /\ ~Staged'
    BY <1>3, <1>14 DEF Complete, JobNeeds, Staged
  <2> QED BY <1>1, <2>1, LocksQuiet
<1> QED BY <1>5, <1>7, <1>8, <1>9, <1>10, <1>11, <1>12, <1>13, <1>14 DEF JobStep

\* The operation queues for the lock at each of its commits; it keeps it from
\* the commit of the package state until the Host's part has settled.
LEMMA LocksAfterStep ==
  ASSUME Typed, Locks, OperationStep
  PROVE  Locks'
<1>1. op # NoOperation /\ op \in Operations
  BY OperationAfterStep DEF Typed
<1>2. run' = run
  BY DEF OperationStep, CommitRecord, CommitRecordRefused, Gate, Drain, Checkpoint, Release, ReleaseRefused,
         Released, TakeCheckpoints, Migrate, MigrateRefused, CommitState, CommitStateRefused, Settled,
         Restore, Rematerialize, RematerializeRefused, RolledBack
<1>3. (JobNeeds' <=> JobNeeds) /\ (Staged' <=> Staged)
  BY <1>2 DEF JobNeeds, Staged
<1>4. CASE CommitRecord
  <2>1. \/ op.at = "recorded" /\ op'.at = "prepared" /\ lock' = Append(Tail(lock), "op")
        \/ op.at = "prepared" /\ op'.at = "gate" /\ lock' = Tail(lock)
        \/ op.at = "activated" /\ op'.at = "commit" /\ lock' = Append(Tail(lock), "op")
        \/ op'.at = "idle" /\ lock' = Tail(lock)
    BY <1>1, <1>4 DEF CommitRecord, Unlock, Operations, NoOperation
  <2>2. Holds("op")
    BY <1>4 DEF CommitRecord
  <2>3. CASE op'.at \in {"prepared", "commit"} /\ lock' = Append(Tail(lock), "op")
    <3>1. OpNeeds' /\ ~OpHolds'
      BY <2>3 DEF OpNeeds, OpHolds
    <3> QED BY <1>3, <2>2, <2>3, <3>1, OpRejoins
  <2>4. CASE op'.at \in {"gate", "idle"} /\ lock' = Tail(lock)
    <3>1. ~OpNeeds'
      BY <2>4 DEF OpNeeds, OpHolds
    <3> QED BY <1>3, <2>2, <2>4, <3>1, OpLeaves
  <2> QED BY <2>1, <2>3, <2>4
<1>5. CASE CommitRecordRefused
  <2>1. \/ op'.at = "rollback" /\ lock' = Tail(lock)
        \/ op'.at \in {"finished", "failed"} /\ lock' = Append(Tail(lock), "op")
    BY <1>1, <1>5 DEF CommitRecordRefused, Unlock, Operations
  <2>2. Holds("op")
    BY <1>5 DEF CommitRecordRefused
  <2>3. CASE op'.at \in {"finished", "failed"} /\ lock' = Append(Tail(lock), "op")
    <3>1. OpNeeds' /\ ~OpHolds'
      BY <2>3 DEF OpNeeds, OpHolds
    <3> QED BY <1>3, <2>2, <2>3, <3>1, OpRejoins
  <2>4. CASE op'.at = "rollback" /\ lock' = Tail(lock)
    <3>1. ~OpNeeds'
      BY <2>4 DEF OpNeeds, OpHolds
    <3> QED BY <1>3, <2>2, <2>4, <3>1, OpLeaves
  <2> QED BY <2>1, <2>3, <2>4
<1>6. CASE Gate \/ Drain \/ Checkpoint \/ Release \/ ReleaseRefused \/ Released \/ TakeCheckpoints
           \/ MigrateRefused \/ Rematerialize \/ RematerializeRefused
  <2>1. lock' = lock /\ ~OpNeeds
    BY <1>6 DEF Gate, Drain, Checkpoint, Release, ReleaseRefused, Released, TakeCheckpoints, MigrateRefused,
                Rematerialize, RematerializeRefused, OpNeeds, OpHolds
  <2>2. op'.at \in {"drain", "checkpoint", "asleep", "migrate", "rollback", "release", "unrelease", "settle", "stuck"}
    <3>1. CASE Drain
      <4>1. op' = [op EXCEPT !.at = "checkpoint"] \/ op' = [op EXCEPT !.at = "asleep"]
        BY <3>1 DEF Drain
      <4> QED BY <1>1, <4>1 DEF Operations
    <3>2. CASE Gate \/ ReleaseRefused \/ Released \/ MigrateRefused
      BY <1>1, <3>2 DEF Gate, ReleaseRefused, Released, MigrateRefused, Operations
    <3>3. CASE Checkpoint
      BY <1>1, <3>3 DEF Checkpoint, Operations
    <3>4. CASE Release
      BY <1>1, <3>4 DEF Release, Operations
    <3>5. CASE TakeCheckpoints
      BY <1>1, <3>5 DEF TakeCheckpoints, Operations
    <3>6. CASE Rematerialize
      BY <1>1, <3>6 DEF Rematerialize, Operations
    <3>7. CASE RematerializeRefused
      BY <1>1, <3>7 DEF RematerializeRefused, Operations
    <3> QED BY <1>6, <3>1, <3>2, <3>3, <3>4, <3>5, <3>6, <3>7
  <2>3. ~OpNeeds' /\ ~OpHolds'
    BY <2>2 DEF OpNeeds, OpHolds
  <2> QED BY <1>3, <2>1, <2>3, LocksQuiet
<1>7. CASE Migrate \/ RolledBack
  <2>1. lock' = Append(lock, "op") /\ ~OpNeeds
    BY <1>7 DEF Migrate, RolledBack, AwaitStateLock, OpNeeds, OpHolds
  <2>2. op'.at \in {"activated", "failed"}
    BY <1>1, <1>7 DEF Migrate, RolledBack, AwaitStateLock, Operations
  <2>3. OpNeeds' /\ ~OpHolds'
    BY <2>2 DEF OpNeeds, OpHolds
  <2> QED BY <1>3, <2>1, <2>3, OpJoins
<1>8. CASE CommitState
  <2>1. lock' = lock /\ Holds("op") /\ op.at = "commit" /\ op'.at = "complete"
    BY <1>1, <1>8 DEF CommitState, Operations
  <2>2. OpNeeds /\ OpNeeds'
    BY <2>1 DEF OpNeeds, OpHolds
  <2> QED BY <1>3, <2>1, <2>2, LocksQuiet
<1>9. CASE CommitStateRefused \/ Restore
  <2>1. lock' = Tail(lock) /\ Holds("op")
    BY <1>9 DEF CommitStateRefused, Restore, Unlock, Locks, OpHolds
  <2>2. op'.at \in {"rollback", "stuck"}
    BY <1>1, <1>9 DEF CommitStateRefused, Restore, Operations
  <2>3. ~OpNeeds'
    BY <2>2 DEF OpNeeds, OpHolds
  <2> QED BY <1>3, <2>1, <2>3, OpLeaves
<1>10. CASE Settled
  <2>1. lock' = Append(Tail(lock), "op") /\ Holds("op")
    BY <1>10 DEF Settled, Locks, OpHolds
  <2>2. op'.at = "finished"
    BY <1>1, <1>10 DEF Settled, Operations
  <2>3. OpNeeds' /\ ~OpHolds'
    BY <2>2 DEF OpNeeds, OpHolds
  <2> QED BY <1>3, <2>1, <2>3, OpRejoins
<1> QED BY <1>4, <1>5, <1>6, <1>7, <1>8, <1>9, <1>10 DEF OperationStep

\* The lock is held by whoever is to hold it, or by nobody after a rollback failed.
LEMMA LocksKept ==
  ASSUME Typed, Completing, Locks, JobStep \/ OperationStep \/ Environment
  PROVE  Locks'
<1>1. ASSUME NEW a, (\E call \in Calls : Ask(a, call)) \/ Emit(a) \/ EndTurn(a)
      PROVE  Locks'
  <2>1. UNCHANGED <<lock, run, op>>
    BY <1>1 DEF Ask, Emit, EndTurn
  <2> QED BY <2>1, LocksQuiet DEF OpNeeds, OpHolds, JobNeeds, Staged
<1>2. ASSUME NEW a, NEW kind, NEW next, Open(a, kind, next)
      PROVE  Locks'
  <2>1. lock' = Append(lock, "op") /\ run' = run /\ op.at = "idle" /\ op'.at = "recorded"
    BY <1>2 DEF Open, NoOperation
  <2> QED BY <2>1, OpJoins DEF OpNeeds, OpHolds, JobNeeds, Staged
<1> QED BY <1>1, <1>2, LocksAfterJob, LocksAfterStep DEF Environment

-----------------------------------------------------------------------------
\* The queue that the operation awaits: while it drains, a resume value beyond
\* it is followed by the end of its Turn; when it goes on, none is left.
Resuming(i) == queue[i].kind = "resume" /\ queue[i].agent = op.agent
WithoutChat == op.at \in {"release", "settle"} /\ "chat" \notin op.records
Awaited ==
  /\ op.at \in {"drain", "asleep"} => \A i \in DOMAIN queue : i > tail /\ Resuming(i) =>
       op.agent \in busy \/ \E j \in DOMAIN queue : j > i /\ Ending(j, op.agent)
  /\ op.at \in {"checkpoint", "migrate", "activated", "commit"} \/ WithoutChat => \A i \in DOMAIN queue : ~Resuming(i)
  /\ op.at = "settle" => \A i \in DOMAIN queue : i > tail => ~Resuming(i)

LEMMA BusyGrows ==
  ASSUME JobStep
  PROVE  busy \subseteq busy'
<1>1. CASE Commit
  BY <1>1 DEF Commit
<1>2. CASE ~Commit
  BY <1>2 DEF JobStep, Refuse, Start, AgentAnswers, AgentRefuses, Stage, StageRefused, CommitRefused, Undo,
              Compensate, Complete, CompleteRefused, agentVars
<1> QED BY <1>1, <1>2

LEMMA AwaitedAfterJob ==
  ASSUME Typed, Completing, Awaited, JobStep
  PROVE  Awaited'
<1>1. op'.records = op.records /\ busy \subseteq busy'
  BY OperationKeeps, BusyGrows
<1>2. op' = op \/ (op.at = "asleep" /\ op'.at = "drain" /\ op'.agent = op.agent) \/ op'.at \in {"settled", "restore"}
  BY OperationAfterJob
<1>3. /\ op'.at \in {"drain", "asleep"} => op.at \in {"drain", "asleep"} /\ op'.agent = op.agent
      /\ op'.at \in {"checkpoint", "migrate", "activated", "commit"} \/ WithoutChat' =>
           (op.at \in {"checkpoint", "migrate", "activated", "commit"} \/ WithoutChat) /\ op'.agent = op.agent
      /\ op'.at = "settle" => op.at = "settle" /\ op'.agent = op.agent
  BY <1>1, <1>2 DEF WithoutChat
<1>4. CASE UNCHANGED <<queue, op, tail>>
  BY <1>1, <1>4 DEF Awaited, WithoutChat, Resuming, Ending
<1>5. CASE Leaves
  <2>1. queue # <<>> /\ queue' = Tail(queue) /\ tail' = IF tail = 0 THEN 0 ELSE tail - 1
    BY <1>5 DEF Leaves, Dequeue
  <2>2. \A i \in DOMAIN queue' : i \in Nat \ {0} /\ i + 1 \in DOMAIN queue /\ queue'[i] = queue[i + 1]
    BY <2>1, JobFacts
  <2>3. \A j \in DOMAIN queue : j \in Nat /\ (j > 1 => j - 1 \in DOMAIN queue' /\ queue'[j - 1] = queue[j])
    BY <2>1 DEF Typed
  <2>4. \A i \in DOMAIN queue' : i > tail' => i + 1 > tail
    BY <2>1, <2>2 DEF Typed
  <2>5. ASSUME op'.agent = op.agent
        PROVE  \A i \in DOMAIN queue' : Resuming(i)' => Resuming(i + 1)
    BY <2>2, <2>5 DEF Resuming
  <2>6. ASSUME op'.at \in {"drain", "asleep"}, NEW i \in DOMAIN queue', i > tail', Resuming(i)'
        PROVE  op'.agent \in busy' \/ \E j \in DOMAIN queue' : j > i /\ Ending(j, op.agent)'
    <3>1. op.at \in {"drain", "asleep"} /\ op'.agent = op.agent
      BY <1>3, <2>6
    <3>2. i + 1 \in DOMAIN queue /\ i + 1 > tail /\ Resuming(i + 1) /\ i \in Nat
      BY <2>2, <2>4, <2>5, <2>6, <3>1
    <3>3. CASE op.agent \in busy
      BY <1>1, <3>1, <3>3
    <3>4. CASE op.agent \notin busy
      <4>1. PICK j \in DOMAIN queue : j > i + 1 /\ Ending(j, op.agent)
        BY <3>1, <3>2, <3>4 DEF Awaited
      <4>2. j \in Nat /\ j - 1 \in DOMAIN queue' /\ queue'[j - 1] = queue[j] /\ j - 1 > i
        BY <2>3, <3>2, <4>1
      <4>3. PICK k \in DOMAIN queue' : k = j - 1
        BY <4>2
      <4>4. Ending(k, op.agent)'
        BY <3>1, <4>1, <4>2, <4>3 DEF Ending
      <4> QED BY <4>2, <4>3, <4>4
    <3> QED BY <3>3, <3>4
  <2>7. ASSUME op'.at \in {"checkpoint", "migrate", "activated", "commit"} \/ WithoutChat', NEW i \in DOMAIN queue'
        PROVE  ~Resuming(i)'
    BY <1>3, <2>2, <2>5, <2>7 DEF Awaited
  <2>8. ASSUME op'.at = "settle", NEW i \in DOMAIN queue', i > tail'
        PROVE  ~Resuming(i)'
    BY <1>3, <2>2, <2>4, <2>5, <2>8 DEF Awaited
  <2> QED BY <2>6, <2>7, <2>8 DEF Awaited
<1> QED BY <1>4, <1>5, JobLeaves

\* A step that puts nothing in the queue and goes where as much is awaited.
LEMMA AwaitedQuiet ==
  ASSUME Awaited, UNCHANGED <<queue, busy, tail>>,
         op'.at \in {"drain", "asleep"} => op.at \in {"drain", "asleep"} /\ op'.agent = op.agent,
         op'.at \in {"checkpoint", "migrate", "activated", "commit"} \/ WithoutChat' =>
           (op.at \in {"checkpoint", "migrate", "activated", "commit"} \/ WithoutChat) /\ op'.agent = op.agent,
         op'.at = "settle" => op.at = "settle" /\ op'.agent = op.agent
  PROVE  Awaited'
BY DEF Awaited, Resuming, Ending

LEMMA AwaitedAfterStep ==
  ASSUME Typed, Turns, Awaited, OperationStep
  PROVE  Awaited'
<1>1. op # NoOperation /\ op \in Operations /\ op.agent \in Agents
  BY OperationAfterStep DEF Typed
<1>2. CASE CommitRecord \/ CommitRecordRefused
  <2>1. \/ op.at = "activated" /\ op'.at = "commit" /\ op'.agent = op.agent
        \/ op'.at \in {"prepared", "gate", "idle", "rollback", "finished", "failed"}
    BY <1>1, <1>2 DEF CommitRecord, CommitRecordRefused, Operations, NoOperation
  <2>2. UNCHANGED <<queue, busy, tail>>
    BY <1>2 DEF CommitRecord, CommitRecordRefused, agentVars
  <2> QED BY <2>1, <2>2, AwaitedQuiet DEF WithoutChat
<1>3. CASE Gate
  <2>1. op'.at = "drain" /\ tail' = Len(queue) /\ queue' = queue
    BY <1>1, <1>3 DEF Gate, Operations
  <2>2. \A i \in DOMAIN queue' : ~(i > tail')
    BY <2>1 DEF Typed
  <2> QED BY <2>1, <2>2 DEF Awaited, WithoutChat
<1>4. CASE Drain
  <2>1. op.at = "drain" /\ tail = 0 /\ UNCHANGED <<queue, busy, tail>>
    BY <1>4 DEF Drain, agentVars
  <2>2. CASE IsQuiescent(op.agent)
    <3>1. op'.at = "checkpoint" /\ op'.agent = op.agent
      <4>1. op' = [op EXCEPT !.at = "checkpoint"]
        BY <1>4, <2>2 DEF Drain
      <4> QED BY <1>1, <4>1 DEF Operations
    <3>2. op.agent \notin busy /\ \A j \in DOMAIN queue : ~Ending(j, op.agent)
      BY <1>1, <2>2 DEF IsQuiescent, Turns, OpenTurns
    <3>3. \A i \in DOMAIN queue : i > tail
      BY <2>1 DEF Typed
    <3>4. \A i \in DOMAIN queue : ~Resuming(i)
      BY <2>1, <3>2, <3>3 DEF Awaited
    <3> QED BY <2>1, <3>1, <3>4 DEF Awaited, WithoutChat, Resuming
  <2>3. CASE ~IsQuiescent(op.agent)
    <3>1. op'.at = "asleep" /\ op'.agent = op.agent
      <4>1. op' = [op EXCEPT !.at = "asleep"]
        BY <1>4, <2>3 DEF Drain
      <4> QED BY <1>1, <4>1 DEF Operations
    <3> QED BY <2>1, <3>1, AwaitedQuiet DEF WithoutChat
  <2> QED BY <2>2, <2>3
<1>5. CASE Checkpoint
  <2>1. op.at = "checkpoint" /\ UNCHANGED <<queue, busy, tail>>
    BY <1>5 DEF Checkpoint, agentVars
  <2>2. op'.at \in {"migrate", "rollback", "release"} /\ op'.agent = op.agent
    BY <1>1, <1>5 DEF Checkpoint, Operations
  <2> QED BY <2>1, <2>2, AwaitedQuiet
<1>6. CASE Release
  <2>1. op'.at = op.at /\ op.at = "release" /\ op'.agent = op.agent /\ op'.records = op.records
    BY <1>1, <1>6 DEF Release, Operations
  <2>2. UNCHANGED <<queue, busy, tail>>
    BY <1>6 DEF Release
  <2> QED BY <2>1, <2>2, AwaitedQuiet DEF WithoutChat
<1>7. CASE Released
  <2>1. op'.at = "settle" /\ op.at = "release" /\ op'.agent = op.agent /\ op'.records = op.records
    BY <1>1, <1>7 DEF Released, Operations
  <2>2. UNCHANGED <<queue, busy>> /\ tail' = Len(queue)
    BY <1>7 DEF Released, agentVars
  <2>3. \A i \in DOMAIN queue' : ~(i > tail')
    BY <2>2 DEF Typed
  <2> QED BY <2>1, <2>2, <2>3 DEF Awaited, WithoutChat, Resuming
<1>8. CASE TakeCheckpoints
  <2>1. op.at = "settle" /\ tail = 0 /\ UNCHANGED <<queue, busy, tail>>
    BY <1>8 DEF TakeCheckpoints, agentVars
  <2>2. op'.at \in {"migrate", "rollback"} /\ op'.agent = op.agent
    BY <1>1, <1>8 DEF TakeCheckpoints, Operations
  <2>3. \A i \in DOMAIN queue : i > tail
    BY <2>1 DEF Typed
  <2> QED BY <2>1, <2>2, <2>3 DEF Awaited, WithoutChat, Resuming
<1>9. CASE Migrate
  <2>1. op.at = "migrate" /\ UNCHANGED <<queue, busy, tail>>
    BY <1>9 DEF Migrate, agentVars
  <2>2. op'.at = "activated" /\ op'.agent = op.agent
    BY <1>1, <1>9 DEF Migrate, Operations
  <2> QED BY <2>1, <2>2, AwaitedQuiet DEF WithoutChat
<1>10. CASE CommitState
  <2>1. op'.at = "complete"
    BY <1>1, <1>10 DEF CommitState, Operations
  <2> QED BY <2>1 DEF Awaited, WithoutChat
<1>11. CASE ReleaseRefused \/ MigrateRefused \/ CommitStateRefused \/ Settled \/ Restore \/ RolledBack
  <2>1. op'.at \in {"unrelease", "rollback", "finished", "stuck", "failed"}
    BY <1>1, <1>11 DEF ReleaseRefused, MigrateRefused, CommitStateRefused, Settled, Restore, RolledBack,
                       AwaitStateLock, Operations
  <2> QED BY <2>1 DEF Awaited, WithoutChat
<1>12. CASE Rematerialize \/ RematerializeRefused
  <2>1. op'.at \in {"unrelease", "rollback", "stuck"}
    <3>1. CASE Rematerialize
      BY <1>1, <3>1 DEF Rematerialize, Operations
    <3>2. CASE RematerializeRefused
      BY <1>1, <3>2 DEF RematerializeRefused, Operations
    <3> QED BY <1>12, <3>1, <3>2
  <2> QED BY <2>1 DEF Awaited, WithoutChat
<1> QED BY <1>2, <1>3, <1>4, <1>5, <1>6, <1>7, <1>8, <1>9, <1>10, <1>11, <1>12 DEF OperationStep

LEMMA AwaitedAfterEnvironment ==
  ASSUME Typed, DrainHolds, Awaited, Environment
  PROVE  Awaited'
<1>1. ASSUME NEW a \in Agents, NEW job \in Jobs, queue' = Append(queue, job), UNCHANGED <<op, tail, run>>,
             \/ busy' = busy /\ job.kind # "resume"
             \/ busy' = busy /\ (job.agent # op.agent \/ job.agent \in busy \/ Releasing(op.agent))
             \/ busy' = busy \ {a} /\ job.kind = "terminal" /\ job.agent = a
      PROVE  Awaited'
  <2>1. /\ \A i \in DOMAIN queue : i \in DOMAIN queue' /\ queue'[i] = queue[i]
        /\ queue'[Len(queue) + 1] = job /\ DOMAIN queue' = DOMAIN queue \cup {Len(queue) + 1}
    BY <1>1, AppendTyped
  <2>2. \A i \in DOMAIN queue : i < Len(queue) + 1
    BY DEF Typed
  <2>3. PICK last \in DOMAIN queue' : last = Len(queue) + 1
    BY <2>1
  <2>4. ASSUME op.at \in {"drain", "asleep"}, NEW i \in DOMAIN queue', i > tail, Resuming(i)'
        PROVE  op.agent \in busy' \/ \E j \in DOMAIN queue' : j > i /\ Ending(j, op.agent)'
    <3>1. CASE i \in DOMAIN queue
      <4>1. Resuming(i)
        BY <1>1, <2>1, <2>4, <3>1 DEF Resuming
      <4>2. op.agent \in busy \/ \E j \in DOMAIN queue : j > i /\ Ending(j, op.agent)
        BY <2>4, <3>1, <4>1 DEF Awaited
      <4>3. \A j \in DOMAIN queue : Ending(j, op.agent) => Ending(j, op.agent)'
        BY <1>1, <2>1 DEF Ending
      <4>4. op.agent \in busy /\ op.agent \notin busy' => Ending(last, op.agent)'
        BY <1>1, <2>1, <2>3 DEF Ending
      <4>5. last > i
        BY <2>2, <2>3, <3>1
      <4>6. op'.agent = op.agent
        BY <1>1
      <4> QED BY <2>1, <3>1, <4>2, <4>3, <4>4, <4>5, <4>6
    <3>2. CASE i = Len(queue) + 1
      <4>1. job.kind = "resume" /\ job.agent = op.agent
        BY <1>1, <2>1, <2>4, <3>2 DEF Resuming
      <4> QED BY <1>1, <2>4, <4>1 DEF Releasing
    <3> QED BY <2>1, <3>1, <3>2
  <2>5. ASSUME op.at \in {"checkpoint", "migrate", "activated", "commit"} \/ WithoutChat \/ op.at = "settle",
               NEW i \in DOMAIN queue', Resuming(i)'
        PROVE  i \in DOMAIN queue /\ Resuming(i)
    <3>1. op.agent \notin busy /\ ~Releasing(op.agent)
      BY <2>5 DEF DrainHolds, Drained, Releasing, WithoutChat
    <3>2. CASE i = Len(queue) + 1
      BY <1>1, <2>1, <2>5, <3>1, <3>2 DEF Resuming
    <3>3. CASE i \in DOMAIN queue
      BY <1>1, <2>1, <2>5, <3>3 DEF Resuming
    <3> QED BY <2>1, <3>2, <3>3
  <2> QED BY <1>1, <2>4, <2>5 DEF Awaited, WithoutChat
<1>2. ASSUME NEW a \in Agents, NEW call \in Calls, Ask(a, call)
      PROVE  Awaited'
  <2> DEFINE job == [kind |-> call, agent |-> a]
  <2>1. job \in Jobs /\ job.kind # "resume"
    BY DEF Jobs, Calls
  <2>2. queue' = Append(queue, job) /\ UNCHANGED <<op, tail, run, busy>>
    BY <1>2 DEF Ask, agentVars
  <2> HIDE DEF job
  <2> QED BY <1>1, <2>1, <2>2
<1>3. ASSUME NEW a \in Agents, Emit(a)
      PROVE  Awaited'
  <2> DEFINE job == [kind |-> "resume", agent |-> a, resume |-> [stamp |-> spent.emits + 1, schema |-> live[a].schema]]
  <2>1. job \in Jobs /\ job.agent = a
    <3>1. [stamp |-> spent.emits + 1, schema |-> live[a].schema] \in Resume
      BY <1>3, EmittedTyped
    <3> QED BY <3>1 DEF Jobs
  <2>2. queue' = Append(queue, job) /\ UNCHANGED <<op, tail, run, busy>> /\ (a \in busy \/ Releasing(a))
    BY <1>3 DEF Emit, agentVars
  <2>3. job.agent # op.agent \/ job.agent \in busy \/ Releasing(op.agent)
    BY <2>1, <2>2
  <2> HIDE DEF job
  <2> QED BY <1>1, <2>1, <2>2, <2>3
<1>4. ASSUME NEW a \in Agents, EndTurn(a)
      PROVE  Awaited'
  <2> DEFINE job == [kind |-> "terminal", agent |-> a]
  <2>1. job \in Jobs /\ job.kind = "terminal" /\ job.agent = a
    BY DEF Jobs
  <2>2. queue' = Append(queue, job) /\ UNCHANGED <<op, tail, run>> /\ busy' = busy \ {a}
    BY <1>4 DEF EndTurn
  <2> HIDE DEF job
  <2> QED BY <1>1, <2>1, <2>2
<1>5. ASSUME NEW a, NEW kind, NEW next, Open(a, kind, next)
      PROVE  Awaited'
  <2>1. op'.at = "recorded"
    BY <1>5 DEF Open
  <2> QED BY <2>1 DEF Awaited, WithoutChat
<1> QED BY <1>2, <1>3, <1>4, <1>5 DEF Environment

LEMMA AwaitedKept ==
  ASSUME Typed, Completing, Turns, DrainHolds, Awaited, JobStep \/ OperationStep \/ Environment
  PROVE  Awaited'
BY AwaitedAfterJob, AwaitedAfterStep, AwaitedAfterEnvironment

-----------------------------------------------------------------------------
\* What an operation has released is not materialized; what is materialized
\* is among the records it releases.
Emptied ==
  op.at \in {"release", "settle"} /\ op.agent \notin doubtful =>
    /\ op.at = "release" => op.released \cap host[op.agent].up = {}
    /\ op.at = "release" /\ "session" \in op.records => host[op.agent].up \subseteq op.records
    /\ op.at = "settle" => op.records \cap host[op.agent].up = {}

LEMMA EmptiedAfterStep ==
  ASSUME Typed, Fresh, Emptied, OperationStep
  PROVE  Emptied'
<1>1. op # NoOperation /\ op \in Operations /\ op.agent \in Agents
  BY OperationAfterStep DEF Typed
<1>2. CASE Checkpoint
  <2> DEFINE records == IF op.kind = "install" THEN {} ELSE store.up[op.agent]
  <2>1. /\ op.at = "checkpoint" /\ UNCHANGED <<host, doubtful>>
        /\ op' = [op EXCEPT !.records = records, !.carried = Retained(op.agent),
                            !.at = CASE op.kind = "install" -> "migrate"
                                     [] op.kind # "install" /\ Mismatched(op.agent, records) -> "rollback"
                                     [] OTHER -> "release"]
    BY <1>2 DEF Checkpoint
  <2> HIDE DEF records
  <2>2. /\ op'.released = {} /\ op'.agent = op.agent /\ op'.records = records
        /\ op'.at \in {"migrate", "rollback", "release"}
        /\ op'.at = "release" => ~Mismatched(op.agent, records)
    BY <1>1, <2>1 DEF Operations, Fresh
  <2> QED BY <2>1, <2>2 DEF Emptied, Mismatched
<1>3. CASE Release
  <2> DEFINE part == IF "chat" \in Unreleased THEN "chat" ELSE "session"
             gone == IF part = "chat" THEN {"chat"} ELSE Parts
  <2>1. /\ op.at = "release" /\ doubtful' = doubtful
        /\ host' = [host EXCEPT ![op.agent].up = @ \ gone]
        /\ op' = [op EXCEPT !.released = @ \cup {part}]
    BY <1>3 DEF Release
  <2>2. part \in gone
    BY DEF Parts
  <2> HIDE DEF part, gone
  <2>3. /\ op'.at = "release" /\ op'.agent = op.agent /\ op'.records = op.records
        /\ op'.released = op.released \cup {part}
        /\ host'[op.agent].up = host[op.agent].up \ gone
    BY <1>1, <2>1 DEF Operations, Typed, Captured
  <2> QED BY <2>1, <2>2, <2>3 DEF Emptied
<1>4. CASE Released
  <2>1. /\ op.at = "release" /\ UNCHANGED <<host, doubtful>> /\ op.records \subseteq op.released
        /\ op'.at = "settle" /\ op'.agent = op.agent /\ op'.records = op.records
    BY <1>1, <1>4 DEF Released, Unreleased, Operations
  <2> QED BY <2>1 DEF Emptied
<1>5. CASE CommitRecord \/ CommitRecordRefused \/ Gate \/ Drain \/ ReleaseRefused \/ TakeCheckpoints \/ Migrate
           \/ MigrateRefused \/ CommitState \/ CommitStateRefused \/ Settled \/ Restore \/ Rematerialize
           \/ RematerializeRefused \/ RolledBack
  <2>1. op'.at \notin {"release", "settle"}
    <3>1. CASE CommitRecord \/ CommitRecordRefused
      BY <1>1, <3>1 DEF CommitRecord, CommitRecordRefused, Operations, NoOperation
    <3>2. CASE Drain
      <4>1. op' = [op EXCEPT !.at = "checkpoint"] \/ op' = [op EXCEPT !.at = "asleep"]
        BY <3>2 DEF Drain
      <4> QED BY <1>1, <4>1 DEF Operations
    <3>3. CASE Gate \/ ReleaseRefused \/ MigrateRefused \/ CommitState \/ CommitStateRefused \/ Settled \/ Restore
      BY <1>1, <3>3 DEF Gate, ReleaseRefused, MigrateRefused, CommitState, CommitStateRefused, Settled, Restore, Operations
    <3>4. CASE TakeCheckpoints
      BY <1>1, <3>4 DEF TakeCheckpoints, Operations
    <3>5. CASE Migrate \/ RolledBack
      BY <1>1, <3>5 DEF Migrate, RolledBack, AwaitStateLock, Operations
    <3>6. CASE Rematerialize
      BY <1>1, <3>6 DEF Rematerialize, Operations
    <3>7. CASE RematerializeRefused
      BY <1>1, <3>7 DEF RematerializeRefused, Operations
    <3> QED BY <1>5, <3>1, <3>2, <3>3, <3>4, <3>5, <3>6, <3>7
  <2> QED BY <2>1 DEF Emptied
<1> QED BY <1>2, <1>3, <1>4, <1>5 DEF OperationStep

LEMMA EmptiedKept ==
  ASSUME Typed, Completing, DrainHolds, Fresh, Emptied, JobStep \/ OperationStep \/ Environment
  PROVE  Emptied'
<1>1. CASE JobStep
  <2>1. op' = op \/ op'.at \notin {"release", "settle"}
    BY <1>1, OperationAfterJob
  <2>2. CASE op' = op /\ op.at \in {"release", "settle"} /\ op.agent \notin doubtful'
    <3>1. op.agent \notin doubtful /\ host'[op.agent].up = host[op.agent].up
      BY <1>1, <2>2, FlagsKept DEF Drained
    <3> QED BY <2>2, <3>1 DEF Emptied
  <2> QED BY <2>1, <2>2 DEF Emptied
<1>2. ASSUME NEW a, (\E call \in Calls : Ask(a, call)) \/ Emit(a) \/ EndTurn(a)
      PROVE  Emptied'
  <2>1. UNCHANGED <<op, host, doubtful>>
    BY <1>2 DEF Ask, Emit, EndTurn
  <2> QED BY <2>1 DEF Emptied
<1>3. ASSUME NEW a, NEW kind, NEW next, Open(a, kind, next)
      PROVE  Emptied'
  <2>1. op'.at = "recorded"
    BY <1>3 DEF Open
  <2> QED BY <2>1 DEF Emptied
<1> QED BY <1>1, <1>2, <1>3, EmptiedAfterStep DEF Environment

-----------------------------------------------------------------------------
\* Nobody gives back a lock that a failed rollback has kept.
LEMMA NobodyStays ==
  ASSUME Typed, Locks, Holds("nobody"), JobStep \/ OperationStep \/ Environment
  PROVE  Holds("nobody")'
<1>1. lock \in Seq(Waiters) /\ lock # <<>> /\ Head(lock) = "nobody"
  BY DEF Locks, Holds
<1>2. ~Holds("op") /\ ~Holds("job") /\ ~Staged /\ ~OpHolds
  BY LockFacts DEF Locks
<1>3. Append(lock, "op") # <<>> /\ Head(Append(lock, "op")) = "nobody"
      /\ Append(lock, "job") # <<>> /\ Head(Append(lock, "job")) = "nobody"
  BY <1>1
<1>4. lock' \in {lock, Append(lock, "op"), Append(lock, "job")}
  <2>1. CASE JobStep
    <3>1. CASE Refuse \/ AgentRefuses \/ CommitRefused \/ Compensate \/ Complete \/ CompleteRefused \/ Stage
      BY <3>1 DEF Refuse, AgentRefuses, CommitRefused, Compensate, Complete, CompleteRefused, Stage
    <3>2. CASE Start \/ AgentAnswers
      BY <3>2 DEF Start, AgentAnswers, AwaitLock
    <3>3. CASE Commit
      BY <1>2, <3>3 DEF Commit, Staged
    <3>4. CASE Undo
      BY <1>2, <3>4, RunFacts DEF Undo, Staged
    <3>5. CASE StageRefused
      BY <1>2, <3>5 DEF StageRefused
    <3> QED BY <2>1, <3>1, <3>2, <3>3, <3>4, <3>5 DEF JobStep
  <2>2. CASE OperationStep
    <3>1. CASE Gate \/ Drain \/ Checkpoint \/ Release \/ ReleaseRefused \/ Released \/ TakeCheckpoints \/ MigrateRefused
               \/ Rematerialize \/ RematerializeRefused
      BY <3>1 DEF Gate, Drain, Checkpoint, Release, ReleaseRefused, Released, TakeCheckpoints, MigrateRefused,
                  Rematerialize, RematerializeRefused
    <3>2. CASE Migrate \/ RolledBack
      BY <3>2 DEF Migrate, RolledBack, AwaitStateLock
    <3>3. ~(CommitRecord \/ CommitRecordRefused \/ CommitState \/ CommitStateRefused \/ Settled \/ Restore)
      BY <1>2 DEF CommitRecord, CommitRecordRefused, CommitState, CommitStateRefused, Settled, Restore, OpHolds
    <3> QED BY <2>2, <3>1, <3>2, <3>3 DEF OperationStep
  <2>3. CASE Environment
    BY <2>3 DEF Environment, Ask, Emit, EndTurn, Open
  <2> QED BY <2>1, <2>2, <2>3
<1> QED BY <1>1, <1>3, <1>4 DEF Holds

-----------------------------------------------------------------------------
\* A state of the package store agrees with the Host: it has no other resume
\* values, and holds materialized only what the Host does, or did before the
\* operation released it.
RecordOf(s, a) == IF a \in DOMAIN s.retained THEN s.retained[a] ELSE NoResume
Taken(a) == IF op.at \in Drained /\ op.agent = a THEN op.released ELSE {}
Held(a) == host[a].up \cup Taken(a)
Sure(a) == a \notin doubtful /\ ~(op.at = "stuck" /\ op.agent = a)
Agrees(s) ==
  \A a \in Agents :
    /\ RecordOf(s, a) # NoResume => RecordOf(s, a).stamp = host[a].resume.stamp
    /\ Sure(a) => s.up[a] \subseteq Held(a)
\* A staged commit of the package store agrees with what the job will commit.
Follows ==
  \A a \in Agents :
    /\ RecordOf(store, a) # NoResume => RecordOf(store, a).stamp = run.next[a].resume.stamp
    /\ store.up[a] \subseteq run.next[a].up
StoreAgrees == IF Staged THEN Agrees(run.previous) /\ Follows ELSE Agrees(store)
Agreement ==
  Holds("nobody") \/
    /\ StoreAgrees
    /\ op.at \in {"complete", "restore"} => Agrees(op.previous)
    /\ OpHolds => store.up[op.agent] = {}

\* What the operation will commit of its Agent is what the Host accepted last.
Promised == op.carried.stamp = host[op.agent].resume.stamp \/ ("chat" \notin op.records /\ op.carried = NoResume)
Carried == Holds("nobody") \/ (op.at \in {"migrate", "activated", "commit"} \/ WithoutChat => Promised)

\* The Host keeps its resume values, and what it has or has released.
Keeps ==
  \A a \in Agents : host'[a].resume = host[a].resume /\ (Sure(a)' => Sure(a) /\ Held(a) \subseteq Held(a)')

LEMMA StillAgrees ==
  ASSUME NEW s, Agrees(s), Keeps
  PROVE  \A a \in Agents :
           /\ RecordOf(s, a) # NoResume => RecordOf(s, a).stamp = host'[a].resume.stamp
           /\ Sure(a)' => s.up[a] \subseteq Held(a)'
BY DEF Agrees, Keeps

LEMMA StoreStillAgrees ==
  ASSUME Agrees(store), Keeps, store' = store
  PROVE  Agrees(store)'
BY StillAgrees DEF Agrees, RecordOf

LEMMA PreviousStillAgrees ==
  ASSUME Agrees(op.previous), Keeps, op'.previous = op.previous
  PROVE  Agrees(op.previous)'
BY StillAgrees DEF Agrees, RecordOf

\* Steps that leave the package store alone.
LEMMA AgreementQuiet ==
  ASSUME Agreement, Holds("nobody") => Holds("nobody")', store' = store, Keeps,
         Staged' <=> Staged, Staged' => run'.previous = run.previous /\ run'.next = run.next,
         op'.at \in {"complete", "restore"} => op.at \in {"complete", "restore"} /\ op'.previous = op.previous,
         OpHolds' => OpHolds /\ op'.agent = op.agent
  PROVE  Agreement'
<1>1. CASE Holds("nobody")
  BY <1>1 DEF Agreement
<1>2. CASE ~Holds("nobody")
  <2>1. /\ StoreAgrees
        /\ op.at \in {"complete", "restore"} => Agrees(op.previous)
        /\ OpHolds => store.up[op.agent] = {}
    BY <1>2 DEF Agreement
  <2>2. ASSUME Staged PROVE StoreAgrees'
    <3>1. Agrees(run.previous) /\ Follows /\ run'.previous = run.previous /\ run'.next = run.next
      BY <2>1, <2>2 DEF StoreAgrees
    <3>2. Agrees(run.previous)'
      BY <3>1, StillAgrees DEF Agrees, RecordOf
    <3>3. Follows'
      BY <3>1 DEF Follows, RecordOf
    <3> QED BY <2>2, <3>2, <3>3 DEF StoreAgrees
  <2>3. ASSUME ~Staged PROVE StoreAgrees'
    BY <2>1, <2>3, StoreStillAgrees DEF StoreAgrees
  <2>4. op'.at \in {"complete", "restore"} => Agrees(op.previous)'
    BY <2>1, PreviousStillAgrees
  <2>5. OpHolds' => store'.up[op'.agent] = {}
    BY <2>1
  <2> QED BY <2>2, <2>3, <2>4, <2>5 DEF Agreement
<1> QED BY <1>1, <1>2

LEMMA TakenAfterJob ==
  ASSUME Typed, Completing, JobStep
  PROVE  /\ \A a \in Agents : Taken(a)' = Taken(a) /\ (Sure(a)' => Sure(a))
         /\ op'.at \in {"complete", "restore"} => op.at \in {"complete", "restore"} /\ op'.previous = op.previous
         /\ OpHolds' => OpHolds /\ op'.agent = op.agent
<1>1. op'.released = op.released /\ op'.previous = op.previous
  BY OperationKeeps
<1>2. \/ op' = op
      \/ op.at = "asleep" /\ op'.at = "drain" /\ op'.agent = op.agent
      \/ op.at = "complete" /\ op'.at \in {"settled", "restore"} /\ op'.agent = op.agent
  BY OperationAfterJob
<1>3. doubtful \subseteq doubtful'
  <2>1. CASE Commit
    BY <2>1 DEF Commit
  <2>2. CASE ~Commit
    BY <2>2 DEF JobStep, Refuse, Start, AgentAnswers, AgentRefuses, Stage, StageRefused, CommitRefused, Undo,
                Compensate, Complete, CompleteRefused
  <2> QED BY <2>1, <2>2
<1>4. ASSUME NEW a \in Agents
      PROVE  Taken(a)' = Taken(a) /\ (Sure(a)' => Sure(a))
  BY <1>1, <1>2, <1>3 DEF Taken, Sure, Drained
<1> QED BY <1>1, <1>2, <1>4 DEF OpHolds

\* What a job captured has the Host's resume values but for the one it brings,
\* and the Host's flags but for what its commit makes doubtful.
LEMMA AgreementCommitted ==
  ASSUME Typed, Completing, Belief, ResumesCaptured, Locks, Agreement, Commit
  PROVE  Agreement'
<1>1. JobStep /\ run # NoRun /\ run.at = "commit" /\ host' = run.next /\ store' = store /\ Capturing
  BY DEF JobStep, Commit, NoRun, Capturing
<1>2. ~Staged' /\ (Holds("nobody") => Holds("nobody")')
  BY <1>1, NobodyStays DEF Commit, Dequeue, Staged, NoRun
<1>3. CASE Holds("nobody")
  BY <1>2, <1>3 DEF Agreement
<1>4. CASE ~Holds("nobody") /\ run.backing
  <2>1. Staged /\ ~OpHolds
    BY <1>1, <1>4, LockFacts DEF Staged
  <2>2. Follows
    BY <1>4, <2>1 DEF Agreement, StoreAgrees
  <2>3. ~OpHolds'
    BY <1>1, <2>1, PlacesAfterJob
  <2>4. Agrees(store)'
    BY <1>1, <2>2 DEF Agrees, Follows, RecordOf, Held
  <2> QED BY <1>2, <2>3, <2>4 DEF Agreement, StoreAgrees, OpHolds
<1>5. CASE ~run.backing
  <2>1. ~Staged
    BY <1>5 DEF Staged
  <2>2. Job.kind \in {"submit", "terminal", "complete"}
    BY <1>1, <1>5, JobFacts DEF Typed, RunShape, Calls
  <2>3. \A a \in Agents : host'[a].resume = host[a].resume
    BY <1>1, <2>2 DEF ResumesCaptured, ResumeAfter
  <2>4. ASSUME NEW a \in Agents, Sure(a)'
        PROVE  host'[a].up = host[a].up
    <3>1. a \notin Overwrites
      BY <2>4 DEF Sure, Commit
    <3>2. a = Job.agent /\ Job.kind \in Calls => Job.kind = "submit"
      BY <2>2 DEF Calls
    <3> QED BY <1>1, <3>1, <3>2 DEF Overwrites, Belief, CallCaptured
  <2>5. Keeps
    BY <1>1, <2>3, <2>4, TakenAfterJob DEF Keeps, Held
  <2> QED BY <1>1, <1>2, <2>1, <2>5, TakenAfterJob, AgreementQuiet
<1> QED BY <1>3, <1>4, <1>5

LEMMA AgreementAfterJob ==
  ASSUME Typed, Completing, Belief, ResumesCaptured, Locks, Agreement, JobStep
  PROVE  Agreement'
<1>1. Holds("nobody") => Holds("nobody")'
  BY NobodyStays
<1>2. run' = NoRun \/ run'.at \in {"agent", "compensate", "lock"} => ~Staged'
  BY DEF Staged, NoRun
<1>3. run = NoRun \/ run.at \in {"agent", "compensate", "lock"} => ~Staged
  BY DEF Staged, NoRun
<1>4. Abandon \/ Throw \/ Dequeue \/ AwaitLock => ~Staged'
  BY <1>2 DEF Abandon, Throw, Dequeue, AwaitLock
<1>5. host' = host => Keeps
  BY TakenAfterJob DEF Keeps, Held
<1>6. CASE Refuse \/ Start \/ AgentAnswers \/ AgentRefuses \/ StageRefused \/ Compensate \/ Complete \/ CompleteRefused
           \/ CommitRefused
  <2>1. UNCHANGED <<host, store>>
    BY <1>6 DEF Refuse, Start, AgentAnswers, AgentRefuses, StageRefused, Compensate, Complete, CompleteRefused,
                CommitRefused
  <2>2. (Staged' <=> Staged) /\ (Staged' => run'.previous = run.previous /\ run'.next = run.next)
    <3>1. CASE Refuse \/ AgentAnswers \/ AgentRefuses \/ StageRefused \/ Compensate \/ CompleteRefused
      BY <1>3, <1>4, <3>1 DEF Refuse, AgentAnswers, AgentRefuses, StageRefused, Compensate, CompleteRefused, Throw
    <3>2. CASE Start
      <4>1. AwaitLock \/ run'.at = "agent" \/ (run'.at = "commit" /\ ~run'.backing)
        BY <3>2 DEF Start
      <4> QED BY <1>2, <1>3, <1>4, <3>2, <4>1 DEF Start, Staged
    <3>3. CASE Complete
      BY <1>3, <3>3 DEF Complete, Staged
    <3>4. CASE CommitRefused
      <4>1. run.at = "commit"
        BY <3>4 DEF CommitRefused
      <4>2. CASE run.backing
        <5>1. run' = [run EXCEPT !.at = "undo"] /\ run \in Runs /\ run # NoRun
          BY <3>4, <4>1, <4>2 DEF CommitRefused, Typed, NoRun
        <5>2. run'.at = "undo" /\ run'.backing /\ run'.previous = run.previous /\ run'.next = run.next
          BY <4>1, <4>2, <5>1 DEF Runs, NoRun
        <5> QED BY <4>1, <4>2, <5>2 DEF Staged
      <4>3. CASE ~run.backing
        BY <1>4, <3>4, <4>3 DEF CommitRefused, Staged
      <4> QED BY <4>2, <4>3
    <3> QED BY <1>6, <3>1, <3>2, <3>3, <3>4
  <2> QED BY <1>1, <1>5, <2>1, <2>2, TakenAfterJob, AgreementQuiet
<1>7. CASE Stage
  <2>1. /\ Holds("job") /\ run.at = "lock" /\ host' = host /\ store' = Backings(run.next)
        /\ run' = [at |-> "commit", next |-> run.next, backing |-> TRUE, previous |-> store]
    BY <1>7 DEF Stage
  <2>2. ~OpHolds /\ ~Holds("nobody") /\ ~Staged
    BY <1>3, <2>1, LockFacts
  <2>3. Agrees(store)
    BY <2>2 DEF Agreement, StoreAgrees
  <2>4. Staged' /\ run'.next = run.next /\ run'.previous = store
    BY <2>1 DEF Staged
  <2>5. Agrees(run.previous)'
    BY <1>5, <2>1, <2>3, <2>4, StillAgrees DEF Agrees, RecordOf
  <2>6. Follows'
    <3> DEFINE registered == {a \in Agents : store.active[a] # Unregistered}
    <3>1. /\ store'.retained = [a \in registered |-> run.next[a].resume]
          /\ store'.up = [a \in Agents |-> IF a \in registered THEN run.next[a].up ELSE {}]
      BY <2>1 DEF Backings, Typed, Stores
    <3> HIDE DEF registered
    <3>2. \A a \in Agents : RecordOf(store', a) = IF a \in registered THEN run.next[a].resume ELSE NoResume
      BY <3>1 DEF RecordOf
    <3> QED BY <2>4, <3>1, <3>2 DEF Follows
  <2>7. ~OpHolds'
    BY <2>2, PlacesAfterJob
  <2> QED BY <2>4, <2>5, <2>6, <2>7 DEF Agreement, StoreAgrees, OpHolds
<1>8. CASE Undo
  <2>1. Staged /\ ~OpHolds /\ ~Holds("nobody") /\ host' = host /\ run.at = "undo"
    BY <1>8, RunFacts, LockFacts DEF Undo, Staged
  <2>2. ~Staged' /\ ~OpHolds'
    BY <1>4, <1>8, <2>1, PlacesAfterJob DEF Undo
  <2>3. Agrees(run.previous)
    BY <2>1 DEF Agreement, StoreAgrees
  <2>4. CASE store' = [run.previous EXCEPT !.revision = store.revision + 1]
    <3>1. run.previous \in Stores
      BY <2>1, RunFacts DEF Staged
    <3>2. store'.retained = run.previous.retained /\ store'.up = run.previous.up
      BY <2>4, <3>1 DEF Stores
    <3>3. Agrees(store)'
      BY <1>5, <2>1, <2>3, <3>2, StillAgrees DEF Agrees, RecordOf
    <3> QED BY <2>2, <3>3 DEF Agreement, StoreAgrees, OpHolds
  <2>5. CASE lock' = <<"nobody">> \o Tail(lock)
    <3>1. Holds("nobody")'
      <4>1. Holds("job") /\ ~JobNeeds'
        BY <1>4, <1>8, <2>1 DEF Locks, Undo, JobNeeds, Abandon, Throw, Dequeue, NoRun
      <4> QED BY <2>5, <4>1, PlacesAfterJob, LockKept
    <3> QED BY <3>1 DEF Agreement
  <2> QED BY <1>8, <2>4, <2>5 DEF Undo
<1> QED BY <1>6, <1>7, <1>8, AgreementCommitted DEF JobStep

\* The operation commits the registrations and the records of its Agent, and
\* takes that back; whatever else it does keeps the agreement.
LEMMA AgreementAfterStep ==
  ASSUME Typed, Fresh, Locks, Emptied, Carried, Agreement, OperationStep
  PROVE  Agreement'
<1>1. op # NoOperation /\ op \in Operations /\ op.agent \in Agents
  BY OperationAfterStep DEF Typed
<1>2. Holds("nobody") => Holds("nobody")'
  BY NobodyStays
<1>3. run' = run
  BY DEF OperationStep, CommitRecord, CommitRecordRefused, Gate, Drain, Checkpoint, Release, ReleaseRefused,
         Released, TakeCheckpoints, Migrate, MigrateRefused, CommitState, CommitStateRefused, Settled,
         Restore, Rematerialize, RematerializeRefused, RolledBack
<1>4. Staged' <=> Staged
  BY <1>3 DEF Staged
<1>5. ASSUME store' = store, Keeps, op'.at \notin {"complete", "restore", "settled"}
      PROVE  Agreement'
  BY <1>2, <1>3, <1>4, <1>5, AgreementQuiet DEF OpHolds
<1>6. ASSUME host' = host, doubtful \subseteq doubtful', op'.at # "stuck",
             \/ op'.at \in Drained /\ op'.agent = op.agent /\ op'.released = op.released
             \/ /\ op.at \in Drained => op.released = {}
                /\ op'.at \in Drained => op'.agent = op.agent /\ op'.released = {}
             \/ op.agent \in doubtful' /\ (op'.at \in Drained => op'.agent = op.agent)
      PROVE  Keeps
  <2> SUFFICES ASSUME NEW a \in Agents, Sure(a)'
               PROVE  Sure(a) /\ Taken(a) \subseteq Taken(a)'
    BY <1>6 DEF Keeps, Held
  <2>1. op.at # "stuck"
    BY DEF OperationStep, CommitRecord, CommitRecordRefused, Gate, Drain, Checkpoint, Release, ReleaseRefused,
           Released, TakeCheckpoints, Migrate, MigrateRefused, CommitState, CommitStateRefused, Settled,
           Restore, Rematerialize, RematerializeRefused, RolledBack
  <2>2. a \notin doubtful' /\ Sure(a)
    BY <1>6, <2>1 DEF Sure
  <2>3. Taken(a) \subseteq Taken(a)'
    BY <1>6, <2>2 DEF Taken
  <2> QED BY <2>2, <2>3
<1>7. CASE Gate \/ Drain \/ RolledBack \/ CommitRecordRefused
  <2>1. UNCHANGED <<host, store, doubtful>>
    BY <1>7 DEF Gate, Drain, RolledBack, CommitRecordRefused
  <2>2. op'.agent = op.agent /\ op'.released = op.released
    BY <1>1, <1>7 DEF Gate, Drain, RolledBack, AwaitStateLock, CommitRecordRefused, Operations
  <2>3. CASE Gate
    <3>1. op.at = "gate" /\ op'.at = "drain"
      BY <1>1, <2>3 DEF Gate, Operations
    <3> QED BY <1>5, <1>6, <2>1, <3>1 DEF Drained
  <2>4. CASE Drain
    <3>1. op.at = "drain" /\ op'.at \in {"checkpoint", "asleep"}
      <4>1. op' = [op EXCEPT !.at = "checkpoint"] \/ op' = [op EXCEPT !.at = "asleep"]
        BY <2>4 DEF Drain
      <4> QED BY <1>1, <2>4, <4>1 DEF Drain, Operations
    <3> QED BY <1>5, <1>6, <2>1, <2>2, <3>1 DEF Drained, Fresh
  <2>5. CASE RolledBack
    <3>1. op.released = {} /\ op'.at = "failed"
      BY <1>1, <2>5 DEF RolledBack, AwaitStateLock, Operations
    <3> QED BY <1>5, <1>6, <2>1, <3>1 DEF Drained
  <2>6. CASE CommitRecordRefused
    <3>1. \/ op.at = "activated" /\ op'.at = "rollback"
          \/ op.at \notin Drained /\ op'.at \in {"finished", "failed"}
      BY <1>1, <2>6 DEF CommitRecordRefused, Operations, Drained
    <3> QED BY <1>5, <1>6, <2>1, <2>2, <3>1 DEF Drained
  <2> QED BY <1>7, <2>3, <2>4, <2>5, <2>6
<1>8. CASE Checkpoint \/ ReleaseRefused \/ Released \/ Migrate \/ MigrateRefused \/ CommitStateRefused
  <2>1. UNCHANGED <<host, store, doubtful>>
    BY <1>8 DEF Checkpoint, ReleaseRefused, Released, Migrate, MigrateRefused, CommitStateRefused
  <2>2. op'.agent = op.agent /\ op'.released = op.released
    BY <1>1, <1>8 DEF Checkpoint, ReleaseRefused, Released, Migrate, MigrateRefused, CommitStateRefused, Operations
  <2>3. op'.at \in {"migrate", "rollback", "release", "unrelease", "settle", "activated"}
    <3>1. CASE Checkpoint
      BY <1>1, <3>1 DEF Checkpoint, Operations
    <3>2. CASE ~Checkpoint
      BY <1>1, <1>8, <3>2 DEF ReleaseRefused, Released, Migrate, MigrateRefused, CommitStateRefused, Operations
    <3> QED BY <3>1, <3>2
  <2> QED BY <1>5, <1>6, <2>1, <2>2, <2>3 DEF Drained
<1>9. CASE TakeCheckpoints
  <2>1. UNCHANGED <<host, store, doubtful>> /\ op.at = "settle"
    BY <1>9 DEF TakeCheckpoints
  <2>2. CASE host[op.agent].up \cap op.records # {}
    <3>1. op.agent \in doubtful'
      BY <2>1, <2>2 DEF Emptied
    <3>2. op'.agent = op.agent /\ op'.at = "rollback"
      BY <1>1, <1>9, <2>2 DEF TakeCheckpoints, Operations
    <3> QED BY <1>5, <1>6, <2>1, <3>1, <3>2
  <2>3. CASE ~(host[op.agent].up \cap op.records # {})
    <3>1. op'.agent = op.agent /\ op'.at = "migrate" /\ op'.released = op.released
      BY <1>1, <1>9, <2>3 DEF TakeCheckpoints, Operations
    <3> QED BY <1>5, <1>6, <2>1, <3>1 DEF Drained
  <2> QED BY <2>2, <2>3
<1>10. CASE RematerializeRefused
  <2>1. UNCHANGED <<host, store>> /\ doubtful' = doubtful \cup {op.agent}
    BY <1>10 DEF RematerializeRefused
  <2>2. op'.agent = op.agent /\ op'.at \in {"rollback", "stuck"} /\ op.at \in {"unrelease", "rollback"}
    BY <1>1, <1>10 DEF RematerializeRefused, Operations
  <2>3. Keeps
    <3> SUFFICES ASSUME NEW a \in Agents, Sure(a)'
                 PROVE  Sure(a) /\ Taken(a) \subseteq Taken(a)'
      BY <2>1 DEF Keeps, Held
    <3>1. a # op.agent /\ a \notin doubtful
      BY <2>1 DEF Sure
    <3> QED BY <2>2, <3>1 DEF Sure, Taken
  <2> QED BY <1>5, <2>1, <2>2, <2>3
<1>11. CASE Release \/ Rematerialize
  <2>1. UNCHANGED <<store, doubtful>>
    BY <1>11 DEF Release, Rematerialize
  <2>2. op'.at = op.at /\ op'.agent = op.agent /\ op.at \in {"release", "unrelease", "rollback"}
    <3>1. CASE Release
      BY <1>1, <3>1 DEF Release, Operations
    <3>2. CASE Rematerialize
      BY <1>1, <3>2 DEF Rematerialize, Operations
    <3> QED BY <1>11, <3>1, <3>2
  <2>3. /\ \A a \in Agents : host'[a].resume = host[a].resume
        /\ \A a \in Agents : a # op.agent => host'[a].up = host[a].up
    <3>1. CASE Release
      BY <3>1 DEF Release, Typed, Captured
    <3>2. CASE Rematerialize
      BY <3>2 DEF Rematerialize, Typed, Captured
    <3> QED BY <1>11, <3>1, <3>2
  <2>4. ASSUME op.agent \notin doubtful
        PROVE  host[op.agent].up \cup op.released \subseteq host'[op.agent].up \cup op'.released
    <3>1. CASE Release
      <4> DEFINE part == IF "chat" \in Unreleased THEN "chat" ELSE "session"
                 gone == IF part = "chat" THEN {"chat"} ELSE Parts
      <4>1. /\ op.at = "release" /\ Unreleased # {}
            /\ host' = [host EXCEPT ![op.agent].up = @ \ gone]
            /\ op' = [op EXCEPT !.released = @ \cup {part}]
        BY <3>1 DEF Release
      <4> HIDE DEF part, gone
      <4>2. op'.released = op.released \cup {part} /\ host'[op.agent].up = host[op.agent].up \ gone
        BY <1>1, <4>1 DEF Operations, Typed, Captured
      <4>3. Unreleased = op.records \ op.released /\ op.records \subseteq Parts
        BY <1>1 DEF Unreleased, Operations
      <4>4. CASE "chat" \in Unreleased
        <5>1. part = "chat" /\ gone = {"chat"}
          BY <4>4 DEF part, gone
        <5> QED BY <4>2, <5>1
      <4>5. CASE "chat" \notin Unreleased
        <5>1. part = "session" /\ gone \subseteq {"chat", "session"} /\ "session" \in op.records
          BY <4>1, <4>3, <4>5 DEF part, gone, Parts
        <5>2. "chat" \in host[op.agent].up => "chat" \in op.released
          <6>1. host[op.agent].up \subseteq op.records
            BY <2>4, <4>1, <5>1 DEF Emptied
          <6> QED BY <4>3, <4>5, <6>1
        <5> QED BY <4>2, <5>1, <5>2
      <4> QED BY <4>4, <4>5
    <3>2. CASE Rematerialize
      <4> DEFINE part == IF "session" \in op.released THEN "session" ELSE "chat"
      <4>1. /\ host' = [host EXCEPT ![op.agent].up = @ \cup {part}]
            /\ op' = [op EXCEPT !.released = @ \ {part}]
        BY <3>2 DEF Rematerialize
      <4> HIDE DEF part
      <4>2. op'.released = op.released \ {part} /\ host'[op.agent].up = host[op.agent].up \cup {part}
        BY <1>1, <4>1 DEF Operations, Typed, Captured
      <4> QED BY <4>2
    <3> QED BY <1>11, <3>1, <3>2
  <2>5. Keeps
    <3> SUFFICES ASSUME NEW a \in Agents, Sure(a)'
                 PROVE  Sure(a) /\ Held(a) \subseteq Held(a)'
      BY <2>3 DEF Keeps
    <3>1. a \notin doubtful /\ Sure(a)
      BY <2>1, <2>2 DEF Sure
    <3>2. CASE a = op.agent
      <4>1. Taken(a) = op.released /\ Taken(a)' = op'.released
        BY <2>2, <3>2 DEF Taken, Drained
      <4> QED BY <2>4, <3>1, <3>2, <4>1 DEF Held
    <3>3. CASE a # op.agent
      BY <2>2, <2>3, <3>1, <3>3 DEF Held, Taken
    <3> QED BY <3>1, <3>2, <3>3
  <2> QED BY <1>5, <2>1, <2>2, <2>5
<1>12. CASE CommitRecord
  <2>1. /\ Holds("op") /\ UNCHANGED <<host, doubtful>> /\ op.at # "stuck"
        /\ store' = [store EXCEPT !.revision = @ + 1]
    BY <1>12 DEF CommitRecord, Record
  <2>2. \/ op.at \notin Drained /\ op'.at \in {"prepared", "gate", "idle"}
        \/ op.at = "activated" /\ op'.at = "commit" /\ op'.agent = op.agent /\ op'.released = op.released
    BY <1>1, <1>12 DEF CommitRecord, Operations, NoOperation, Drained
  <2>3. Keeps
    BY <1>6, <2>1, <2>2 DEF Drained
  <2>4. ~Staged /\ ~Holds("nobody")
    BY <2>1, LockFacts
  <2>5. Agrees(store)
    BY <2>4 DEF Agreement, StoreAgrees
  <2>6. store'.retained = store.retained /\ store'.up = store.up
    BY <2>1 DEF Typed, Stores
  <2>7. Agrees(store)'
    BY <2>3, <2>5, <2>6, StillAgrees DEF Agrees, RecordOf
  <2>8. op'.at \notin {"complete", "restore", "settled"}
    BY <2>2
  <2> QED BY <1>4, <2>4, <2>7, <2>8 DEF Agreement, StoreAgrees, OpHolds
<1>13. CASE CommitState
  <2>1. /\ op.at = "commit" /\ Holds("op") /\ UNCHANGED <<host, doubtful>>
        /\ store' = [store EXCEPT !.revision = @ + 1,
                                  !.active[op.agent] = op.next,
                                  !.retained = [a \in DOMAIN @ \cup {op.agent} |->
                                                  IF a = op.agent THEN op.carried ELSE @[a]],
                                  !.up[op.agent] = {}]
        /\ op' = [op EXCEPT !.at = "complete", !.previous = store]
    BY <1>13 DEF CommitState
  <2>2. ~Staged /\ ~Holds("nobody")
    BY <2>1, LockFacts
  <2>3. Agrees(store)
    BY <2>2 DEF Agreement, StoreAgrees
  <2>4. op'.at = "complete" /\ op'.agent = op.agent /\ op'.released = op.released /\ op'.previous = store
    BY <1>1, <2>1 DEF Operations
  <2>5. Keeps
    BY <1>6, <2>1, <2>4 DEF Drained
  <2>6. /\ store'.retained = [a \in DOMAIN store.retained \cup {op.agent} |->
                                IF a = op.agent THEN op.carried ELSE store.retained[a]]
        /\ store'.up = [store.up EXCEPT ![op.agent] = {}]
    BY <2>1 DEF Typed, Stores
  <2>7. \A a \in Agents : RecordOf(store', a) = IF a = op.agent THEN op.carried ELSE RecordOf(store, a)
    BY <2>6 DEF RecordOf
  <2>8. \A a \in Agents : store'.up[a] = IF a = op.agent THEN {} ELSE store.up[a]
    BY <2>6 DEF Typed, Stores
  <2>9. op.carried = NoResume \/ op.carried.stamp = host'[op.agent].resume.stamp
    BY <2>1, <2>2 DEF Carried, Promised
  <2>10. Agrees(store)'
    BY <2>3, <2>5, <2>7, <2>8, <2>9, StillAgrees DEF Agrees
  <2>11. Agrees(op.previous)'
    BY <2>3, <2>4, <2>5, StillAgrees DEF Agrees
  <2>12. store'.up[op'.agent] = {}
    BY <1>1, <2>4, <2>8
  <2> QED BY <1>4, <2>2, <2>10, <2>11, <2>12 DEF Agreement, StoreAgrees
<1>14. CASE Settled
  <2>1. UNCHANGED <<host, store, doubtful>> /\ op.at = "settled"
    BY <1>14 DEF Settled
  <2>2. op'.at = "finished" /\ op'.agent = op.agent
    BY <1>1, <1>14 DEF Settled, Operations
  <2>3. Holds("op") /\ OpHolds
    BY <2>1 DEF Locks, OpHolds
  <2>4. ~Staged /\ ~Holds("nobody")
    BY <2>3, LockFacts
  <2>5. Agrees(store) /\ store.up[op.agent] = {}
    BY <2>3, <2>4 DEF Agreement, StoreAgrees
  <2>6. Agrees(store)'
    <3> SUFFICES ASSUME NEW a \in Agents
                 PROVE  /\ RecordOf(store, a) # NoResume => RecordOf(store, a).stamp = host[a].resume.stamp
                        /\ Sure(a)' => store.up[a] \subseteq Held(a)'
      BY <2>1 DEF Agrees, RecordOf
    <3>1. /\ RecordOf(store, a) # NoResume => RecordOf(store, a).stamp = host[a].resume.stamp
          /\ Sure(a) => store.up[a] \subseteq Held(a)
      BY <2>5 DEF Agrees
    <3>2. Sure(a)' => Sure(a)
      BY <2>1 DEF Sure
    <3>3. CASE a = op.agent
      BY <2>5, <3>1, <3>3
    <3>4. CASE a # op.agent
      <4>1. Held(a) \subseteq Held(a)'
        BY <2>1, <3>4 DEF Held, Taken
      <4> QED BY <3>1, <3>2, <4>1
    <3> QED BY <3>3, <3>4
  <2> QED BY <1>4, <2>2, <2>4, <2>6 DEF Agreement, StoreAgrees, OpHolds
<1>15. CASE Restore
  <2>1. op.at = "restore" /\ UNCHANGED <<host, doubtful>>
    BY <1>15 DEF Restore
  <2>2. Holds("op") /\ OpHolds
    BY <2>1 DEF Locks, OpHolds
  <2>3. ~Staged /\ ~Holds("nobody")
    BY <2>2, LockFacts
  <2>4. Agrees(store) /\ Agrees(op.previous)
    BY <2>1, <2>3 DEF Agreement, StoreAgrees
  <2>5. CASE store' = [op.previous EXCEPT !.revision = store.revision + 1] /\ op' = [op EXCEPT !.at = "rollback"]
    <3>1. op'.at = "rollback" /\ op'.agent = op.agent /\ op'.released = op.released
      BY <1>1, <2>5 DEF Operations
    <3>2. Keeps
      BY <1>6, <2>1, <3>1 DEF Drained
    <3>3. store'.retained = op.previous.retained /\ store'.up = op.previous.up
      BY <1>1, <2>5 DEF Operations, Stores
    <3>4. Agrees(store)'
      BY <2>4, <3>2, <3>3, StillAgrees DEF Agrees, RecordOf
    <3> QED BY <1>4, <2>3, <3>1, <3>4 DEF Agreement, StoreAgrees, OpHolds
  <2>6. CASE store' = store /\ op' = [op EXCEPT !.at = "stuck"]
    <3>1. op'.at = "stuck" /\ op'.agent = op.agent
      BY <1>1, <2>6 DEF Operations
    <3>2. Keeps
      <4> SUFFICES ASSUME NEW a \in Agents, Sure(a)'
                   PROVE  Sure(a) /\ Taken(a) \subseteq Taken(a)'
        BY <2>1 DEF Keeps, Held
      <4>1. a # op.agent /\ a \notin doubtful
        BY <2>1, <3>1 DEF Sure
      <4> QED BY <4>1 DEF Sure, Taken
    <3> QED BY <1>5, <2>6, <3>1, <3>2
  <2> QED BY <1>15, <2>5, <2>6 DEF Restore
<1> QED BY <1>7, <1>8, <1>9, <1>10, <1>11, <1>12, <1>13, <1>14, <1>15 DEF OperationStep

LEMMA AgreementKept ==
  ASSUME Typed, Completing, Belief, Fresh, ResumesCaptured, Locks, Emptied, Carried, Agreement,
         JobStep \/ OperationStep \/ Environment
  PROVE  Agreement'
<1>1. Holds("nobody") => Holds("nobody")'
  BY NobodyStays
<1>2. ASSUME NEW a, (\E call \in Calls : Ask(a, call)) \/ Emit(a) \/ EndTurn(a)
      PROVE  Agreement'
  <2>1. UNCHANGED <<op, host, doubtful, store, run>>
    BY <1>2 DEF Ask, Emit, EndTurn
  <2> QED BY <1>1, <2>1, AgreementQuiet DEF Keeps, Held, Taken, Sure, Staged, OpHolds
<1>3. ASSUME NEW a, NEW kind, NEW next, Open(a, kind, next)
      PROVE  Agreement'
  <2>1. UNCHANGED <<host, doubtful, store, run>> /\ op.at = "idle" /\ op'.at = "recorded"
    BY <1>3 DEF Open, NoOperation
  <2>2. Keeps
    BY <2>1 DEF Keeps, Held, Taken, Sure, Drained
  <2> QED BY <1>1, <2>1, <2>2, AgreementQuiet DEF Staged, OpHolds
<1> QED BY <1>2, <1>3, AgreementAfterJob, AgreementAfterStep DEF Environment

LEMMA CarriedAfterJob ==
  ASSUME Typed, Completing, ResumesCaptured, Locks, Awaited, Carried, JobStep
  PROVE  Carried'
<1>1. Holds("nobody") => Holds("nobody")'
  BY NobodyStays
<1>2. CASE Holds("nobody")
  BY <1>1, <1>2 DEF Carried
<1>3. CASE op'.at \notin {"migrate", "activated", "commit", "release", "settle"}
  BY <1>3 DEF Carried, WithoutChat
<1>4. CASE ~Holds("nobody") /\ op'.at \in {"migrate", "activated", "commit", "release", "settle"}
  <2>1. op' = op
    BY <1>4, OperationAfterJob
  <2>2. CASE ~(op.at \in {"migrate", "activated", "commit"} \/ WithoutChat)
    BY <2>1, <2>2 DEF Carried, WithoutChat
  <2>3. CASE op.at \in {"migrate", "activated", "commit"} \/ WithoutChat
    <3>1. op.agent \in Agents
      BY <2>3, OpFacts DEF Operations, WithoutChat
    <3>2. host'[op.agent].resume = host[op.agent].resume
      <4>1. CASE Commit
        <5>1. Capturing /\ queue # <<>> /\ host' = run.next
          BY <4>1 DEF Commit, Capturing, Typed, NoRun
        <5>2. ~(Job.kind = "resume" /\ Job.agent = op.agent)
          BY <2>3, <5>1, JobFacts DEF Awaited, Resuming
        <5> QED BY <3>1, <5>1, <5>2 DEF ResumesCaptured, ResumeAfter
      <4>2. CASE ~Commit
        BY <4>2 DEF JobStep, Refuse, Start, AgentAnswers, AgentRefuses, Stage, StageRefused, CommitRefused, Undo,
                    Compensate, Complete, CompleteRefused
      <4> QED BY <4>1, <4>2
    <3>3. Promised
      BY <1>4, <2>3 DEF Carried
    <3>4. Promised'
      BY <2>1, <3>2, <3>3 DEF Promised
    <3> QED BY <3>4 DEF Carried
  <2> QED BY <2>2, <2>3
<1> QED BY <1>2, <1>3, <1>4

\* When the drain is over, the record in the package store is the Host's, even
\* while the commit of another Agent is staged.
LEMMA RecordIsHosts ==
  ASSUME Typed, ResumesCaptured, Awaited, Agreement, ~Holds("nobody"), op.at = "checkpoint", op.agent \in Agents
  PROVE  Retained(op.agent) = NoResume \/ Retained(op.agent).stamp = host[op.agent].resume.stamp
<1>1. StoreAgrees /\ Retained(op.agent) = RecordOf(store, op.agent)
  BY DEF Agreement, Retained, RecordOf
<1>2. CASE ~Staged
  BY <1>1, <1>2 DEF StoreAgrees, Agrees
<1>3. CASE Staged
  <2>1. Capturing /\ queue # <<>>
    BY <1>3 DEF Staged, Capturing, Typed, NoRun
  <2>2. ~(Job.kind = "resume" /\ Job.agent = op.agent)
    BY <2>1, JobFacts DEF Awaited, Resuming
  <2>3. run.next[op.agent].resume = host[op.agent].resume
    BY <2>1, <2>2 DEF ResumesCaptured, ResumeAfter
  <2>4. Follows
    BY <1>1, <1>3 DEF StoreAgrees
  <2> QED BY <1>1, <2>3, <2>4 DEF Follows
<1> QED BY <1>2, <1>3

LEMMA CarriedAfterStep ==
  ASSUME Typed, ResumesCaptured, Locks, Awaited, Carried, Agreement, OperationStep
  PROVE  Carried'
<1>1. op # NoOperation /\ op \in Operations /\ op.agent \in Agents
  BY OperationAfterStep DEF Typed
<1>2. Holds("nobody") => Holds("nobody")'
  BY NobodyStays
<1>3. CASE Holds("nobody")
  BY <1>2, <1>3 DEF Carried
<1> SUFFICES ASSUME ~Holds("nobody") PROVE Carried'
  BY <1>3
<1>4. CASE Checkpoint
  <2> DEFINE records == IF op.kind = "install" THEN {} ELSE store.up[op.agent]
  <2>1. /\ op.at = "checkpoint" /\ host' = host
        /\ op' = [op EXCEPT !.records = records, !.carried = Retained(op.agent),
                            !.at = CASE op.kind = "install" -> "migrate"
                                     [] op.kind # "install" /\ Mismatched(op.agent, records) -> "rollback"
                                     [] OTHER -> "release"]
    BY <1>4 DEF Checkpoint
  <2>2. op.kind = "install" => records = {}
    OBVIOUS
  <2> HIDE DEF records
  <2>3. /\ op'.agent = op.agent /\ op'.records = records /\ op'.carried = Retained(op.agent)
        /\ op'.at \in {"migrate", "rollback", "release"} /\ (op'.at = "migrate" => op.kind = "install")
    BY <1>1, <2>1 DEF Operations
  <2>4. Retained(op.agent) = NoResume \/ Retained(op.agent).stamp = host[op.agent].resume.stamp
    BY <1>1, <2>1, RecordIsHosts
  <2>5. op'.at = "migrate" \/ WithoutChat' => "chat" \notin op'.records
    BY <2>2, <2>3 DEF WithoutChat
  <2>6. op'.at = "migrate" \/ WithoutChat' => Promised'
    BY <2>1, <2>3, <2>4, <2>5 DEF Promised
  <2> QED BY <2>3, <2>6 DEF Carried
<1>5. CASE Release \/ Released
  <2>1. /\ op.at = "release" /\ op'.at \in {"release", "settle"} /\ op'.agent = op.agent /\ op'.records = op.records
        /\ op'.carried = op.carried
    <3>1. CASE Release
      BY <1>1, <3>1 DEF Release, Operations
    <3>2. CASE Released
      BY <1>1, <3>2 DEF Released, Operations
    <3> QED BY <1>5, <3>1, <3>2
  <2>2. host'[op.agent].resume = host[op.agent].resume
    <3>1. CASE Release
      BY <1>1, <3>1 DEF Release, Typed, Captured
    <3>2. CASE Released
      BY <3>2 DEF Released
    <3> QED BY <1>5, <3>1, <3>2
  <2>3. WithoutChat' => WithoutChat
    BY <2>1 DEF WithoutChat
  <2>4. Promised => Promised'
    BY <2>1, <2>2 DEF Promised
  <2> QED BY <2>1, <2>3, <2>4 DEF Carried
<1>6. CASE TakeCheckpoints
  <2>1. op.at = "settle" /\ host' = host
    BY <1>6 DEF TakeCheckpoints
  <2>2. CASE host[op.agent].up \cap op.records # {}
    <3>1. op'.at = "rollback"
      BY <1>1, <1>6, <2>2 DEF TakeCheckpoints, Operations
    <3> QED BY <3>1 DEF Carried, WithoutChat
  <2>3. CASE ~(host[op.agent].up \cap op.records # {})
    <3>1. /\ op'.agent = op.agent /\ op'.at = "migrate" /\ op'.records = op.records
          /\ op'.carried = IF "chat" \in op.records THEN host[op.agent].resume ELSE op.carried
      BY <1>1, <1>6, <2>3 DEF TakeCheckpoints, Operations
    <3>2. "chat" \notin op.records => Promised
      BY <2>1 DEF Carried, WithoutChat
    <3>3. Promised'
      BY <2>1, <3>1, <3>2 DEF Promised
    <3> QED BY <3>3 DEF Carried
  <2> QED BY <2>2, <2>3
<1>7. CASE Migrate
  <2>1. op.at = "migrate" /\ host' = host /\ op' = [op EXCEPT !.carried = Migrated(@), !.at = "activated"]
    BY <1>7 DEF Migrate
  <2>2. op'.agent = op.agent /\ op'.records = op.records /\ op'.carried = Migrated(op.carried)
    BY <1>1, <2>1 DEF Operations
  <2>3. Promised
    BY <2>1 DEF Carried
  <2>4. Migrated(op.carried).stamp = op.carried.stamp /\ Migrated(NoResume) = NoResume
    <3>1. op.carried \in [stamp : Nat, schema : Nat]
      BY <1>1 DEF Operations, Resume
    <3> QED BY <3>1 DEF Migrated
  <2>5. Promised'
    BY <2>1, <2>2, <2>3, <2>4 DEF Promised
  <2> QED BY <2>5 DEF Carried
<1>8. CASE CommitRecord \/ CommitRecordRefused
  <2>1. \/ op.at = "activated" /\ op'.at = "commit" /\ op'.agent = op.agent /\ op'.records = op.records
           /\ op'.carried = op.carried
        \/ op'.at \in {"prepared", "gate", "idle", "rollback", "finished", "failed"}
    BY <1>1, <1>8 DEF CommitRecord, CommitRecordRefused, Operations, NoOperation
  <2>2. host' = host
    BY <1>8 DEF CommitRecord, CommitRecordRefused
  <2>3. op.at = "activated" => Promised
    BY DEF Carried
  <2> QED BY <2>1, <2>2, <2>3 DEF Carried, Promised, WithoutChat
<1>9. CASE Gate \/ Drain \/ ReleaseRefused \/ MigrateRefused \/ CommitState \/ CommitStateRefused \/ Settled
           \/ Restore \/ Rematerialize \/ RematerializeRefused \/ RolledBack
  <2>1. op'.at \notin {"migrate", "activated", "commit", "release", "settle"}
    <3>1. CASE Drain
      <4>1. op' = [op EXCEPT !.at = "checkpoint"] \/ op' = [op EXCEPT !.at = "asleep"]
        BY <3>1 DEF Drain
      <4> QED BY <1>1, <4>1 DEF Operations
    <3>2. CASE Gate \/ ReleaseRefused \/ MigrateRefused \/ CommitState \/ CommitStateRefused \/ Settled \/ Restore
      BY <1>1, <3>2 DEF Gate, ReleaseRefused, MigrateRefused, CommitState, CommitStateRefused, Settled, Restore, Operations
    <3>3. CASE RolledBack
      BY <1>1, <3>3 DEF RolledBack, AwaitStateLock, Operations
    <3>4. CASE Rematerialize
      BY <1>1, <3>4 DEF Rematerialize, Operations
    <3>5. CASE RematerializeRefused
      BY <1>1, <3>5 DEF RematerializeRefused, Operations
    <3> QED BY <1>9, <3>1, <3>2, <3>3, <3>4, <3>5
  <2> QED BY <2>1 DEF Carried, WithoutChat
<1> QED BY <1>4, <1>5, <1>6, <1>7, <1>8, <1>9 DEF OperationStep

LEMMA CarriedKept ==
  ASSUME Typed, Completing, ResumesCaptured, Locks, Awaited, Carried, Agreement,
         JobStep \/ OperationStep \/ Environment
  PROVE  Carried'
<1>1. Holds("nobody") => Holds("nobody")'
  BY NobodyStays
<1>2. ASSUME NEW a, (\E call \in Calls : Ask(a, call)) \/ Emit(a) \/ EndTurn(a)
      PROVE  Carried'
  <2>1. UNCHANGED <<op, host>>
    BY <1>2 DEF Ask, Emit, EndTurn
  <2> QED BY <1>1, <2>1 DEF Carried, Promised, WithoutChat
<1>3. ASSUME NEW a, NEW kind, NEW next, Open(a, kind, next)
      PROVE  Carried'
  <2>1. op'.at = "recorded"
    BY <1>3 DEF Open
  <2> QED BY <2>1 DEF Carried, WithoutChat
<1> QED BY <1>2, <1>3, CarriedAfterJob, CarriedAfterStep DEF Environment

-----------------------------------------------------------------------------
Agreeing == Believing /\ ResumesCaptured /\ Locks /\ Awaited /\ Emptied /\ Carried /\ Agreement

LEMMA AgreeingInitially == Init => Agreeing
<1> SUFFICES ASSUME Init PROVE Agreeing
  OBVIOUS
<1>1. Believing
  BY BelievingInitially
<1>2. run = NoRun /\ run.at = "idle" /\ op = NoOperation /\ op.at = "idle" /\ lock = <<>> /\ queue = <<>>
  BY DEF Init, NoRun, NoOperation
<1>3. ResumesCaptured /\ Awaited /\ Emptied /\ Carried
  BY <1>2 DEF ResumesCaptured, Capturing, Awaited, WithoutChat, Emptied, Carried
<1>4. Locks
  BY <1>2 DEF Locks, Once, Has, Kept, OpNeeds, OpHolds, JobNeeds, Staged
<1>5. Agrees(store)
  <2>1. \A a \in Agents : RecordOf(store, a) = NoResume /\ store.up[a] = Parts /\ host[a].up = Parts
    BY DEF Init, RecordOf
  <2> QED BY <2>1 DEF Agrees, Held
<1>6. Agreement
  BY <1>2, <1>5 DEF Agreement, StoreAgrees, Staged, OpHolds
<1> QED BY <1>1, <1>3, <1>4, <1>6 DEF Agreeing

\* The invariant of the two stores is inductive.
LEMMA AgreeingKept == Agreeing /\ [Next]_vars => Agreeing'
<1> SUFFICES ASSUME Agreeing, [Next]_vars PROVE Agreeing'
  OBVIOUS
<1>1. Believing'
  BY BelievingKept DEF Agreeing
<1>2. CASE Next
  <2>1. /\ Typed /\ Completing /\ Turns /\ DrainHolds /\ Belief /\ Fresh
        /\ ResumesCaptured /\ Locks /\ Awaited /\ Emptied /\ Carried /\ Agreement
        /\ JobStep \/ OperationStep \/ Environment
    BY <1>2 DEF Agreeing, Believing, Working, Next
  <2>2. ResumesCaptured' /\ Locks'
    BY <2>1, ResumesKept, LocksKept
  <2>3. Awaited' /\ Emptied'
    BY <2>1, AwaitedKept, EmptiedKept
  <2>4. Carried'
    BY <2>1, CarriedKept
  <2>5. Agreement'
    BY <2>1, AgreementKept
  <2> QED BY <1>1, <2>2, <2>3, <2>4, <2>5 DEF Agreeing
<1>3. CASE UNCHANGED vars
  <2>1. UNCHANGED <<host, store, lock, queue, run, op, tail, busy, doubtful>>
    BY <1>3 DEF vars
  <2>2. ResumesCaptured' /\ Awaited' /\ Emptied'
    BY <2>1 DEF Agreeing, ResumesCaptured, Capturing, ResumeAfter, Job, Awaited, WithoutChat, Resuming, Ending, Emptied
  <2>3. Locks'
    BY <2>1, LocksQuiet DEF Agreeing, OpNeeds, OpHolds, JobNeeds, Staged
  <2>4. Holds("nobody")' = Holds("nobody")
    BY <2>1 DEF Holds
  <2>5. Carried'
    BY <2>1, <2>4 DEF Agreeing, Carried, Promised, WithoutChat
  <2>6. Keeps
    BY <2>1 DEF Keeps, Sure, Held, Taken
  <2>7. Agreement'
    BY <2>1, <2>4, <2>6, AgreementQuiet DEF Agreeing, Staged, OpHolds
  <2> QED BY <1>1, <2>2, <2>3, <2>5, <2>7 DEF Agreeing
<1> QED BY <1>2, <1>3

\* What holds of the two stores whenever the Host works: who has the state lock,
\* what is staged, what an operation awaits, carries and can take back.
THEOREM AlwaysAgreeing == Spec => []Agreeing
<1>1. Init => Agreeing
  BY AgreeingInitially
<1>2. Agreeing /\ [Next]_vars => Agreeing'
  BY AgreeingKept
<1> QED BY <1>1, <1>2, PTL DEF Spec

\* With nobody in a commit and nothing released, the package store holds no
\* resume value that the Host does not, and nothing materialized that the Host
\* does not, whichever commit or rollback failed before
\* (commitHostAndBackingState, beginHostBackingStateCommit, complete).
THEOREM StoresAgree == Spec => []BackingStoresAgree
<1>1. Agreeing => BackingStoresAgree
  <2> SUFFICES ASSUME Agreeing, lock = <<>>, op.at \notin (Drained \ {"checkpoint"}) \cup {"stuck"},
                      NEW a \in Agents, a \notin doubtful
               PROVE  /\ store.up[a] \subseteq host[a].up
                      /\ Retained(a) # NoResume => Retained(a).stamp = host[a].resume.stamp
    BY DEF BackingStoresAgree
  <2>1. ~Holds("nobody") /\ ~Holds("job")
    BY DEF Holds
  <2>2. ~Staged
    BY <2>1 DEF Agreeing, Locks
  <2>3. Agrees(store)
    BY <2>1, <2>2 DEF Agreeing, Agreement, StoreAgrees
  <2>4. Sure(a)
    BY DEF Sure
  <2>5. Taken(a) = {}
    BY DEF Agreeing, Believing, Fresh, Taken
  <2>6. Retained(a) = RecordOf(store, a)
    BY DEF Retained, RecordOf
  <2> QED BY <2>3, <2>4, <2>5, <2>6 DEF Agrees, Held
<1> QED BY <1>1, AlwaysAgreeing, PTL

\* The record that a package commit writes carries the resume value that the
\* Host accepted last, also when the Agent emitted it as it released
\* (checkpointAndRelease, mergeCheckpoints).
THEOREM CheckpointsAreCommitted == Spec => CheckpointIsCommitted
<1> DEFINE A == op.at = "commit" /\ op'.at = "complete" =>
                  LET committed == store'.retained[op.agent] IN
                  \/ committed.stamp = host[op.agent].resume.stamp
                  \/ "chat" \notin op.records /\ committed = NoResume
<1>1. Agreeing /\ [Next]_vars => [A]_vars
  <2> SUFFICES ASSUME Agreeing, Next, op.at = "commit", op'.at = "complete"
               PROVE  \/ store'.retained[op.agent].stamp = host[op.agent].resume.stamp
                      \/ "chat" \notin op.records /\ store'.retained[op.agent] = NoResume
    OBVIOUS
  <2>1. Typed /\ Completing /\ Locks /\ Carried /\ op \in Operations
    BY OpFacts DEF Agreeing, Believing, Working
  <2>2. CommitState
    <3>1. ~JobStep
      BY <2>1, OperationAfterJob
    <3>2. ~Environment
      <4>1. ASSUME NEW a, (\E call \in Calls : Ask(a, call)) \/ Emit(a) \/ EndTurn(a)
            PROVE  op' = op
        BY <4>1 DEF Ask, Emit, EndTurn
      <4>2. ASSUME NEW a, NEW kind, NEW next, Open(a, kind, next)
            PROVE  op'.at = "recorded"
        BY <4>2 DEF Open
      <4> QED BY <4>1, <4>2 DEF Environment
    <3>3. CASE CommitRecord \/ CommitRecordRefused \/ CommitStateRefused
      BY <2>1, <3>3 DEF CommitRecord, CommitRecordRefused, CommitStateRefused, Operations, NoOperation
    <3>4. OperationStep => CommitRecord \/ CommitRecordRefused \/ CommitState \/ CommitStateRefused
      BY DEF OperationStep, Gate, Drain, Checkpoint, Release, ReleaseRefused, Released, TakeCheckpoints, Migrate,
             MigrateRefused, Settled, Restore, Rematerialize, RematerializeRefused, RolledBack
    <3> QED BY <3>1, <3>2, <3>3, <3>4 DEF Next
  <2>3. Holds("op") /\ ~Holds("nobody")
    BY <2>1, <2>2, LockFacts DEF CommitState
  <2>4. Promised
    BY <2>1, <2>3 DEF Carried
  <2>5. store'.retained[op.agent] = op.carried
    BY <2>1, <2>2 DEF CommitState, Typed, Stores
  <2> QED BY <2>4, <2>5 DEF Promised
<1> QED BY <1>1, AlwaysAgreeing, PTL DEF Spec, CheckpointIsCommitted

-----------------------------------------------------------------------------
(* What is left of the type invariant *)

\* One gate is closed, that of the operation; the queue that is awaited is part
\* of the catalog queue.
OneGate ==
  gates = {} \/ (op.at \in Drained \cup {"drain", "asleep", "stuck"} /\ gates = {op.agent} /\ op.agent \in Agents)
Sized == OneGate /\ tail <= Len(queue)

LEMMA OneGateKept ==
  ASSUME Typed, Completing, OneGate, JobStep \/ OperationStep \/ Environment
  PROVE  OneGate'
<1>1. CASE JobStep
  <2>1. /\ gates' = gates
        /\ \/ op' = op
           \/ op.at = "asleep" /\ op'.at = "drain" /\ op'.agent = op.agent
           \/ op.at = "complete" /\ op'.at \in {"settled", "restore"} /\ op'.agent = op.agent
    BY <1>1, OperationAfterJob
  <2> QED BY <2>1 DEF OneGate, Drained
<1>2. CASE OperationStep
  <2>1. op # NoOperation /\ op \in Operations /\ op.agent \in Agents
    BY <1>2, OperationAfterStep DEF Typed
  <2>2. CASE Gate
    <3>1. op.at = "gate" /\ gates' = gates \cup {op.agent} /\ op'.at = "drain" /\ op'.agent = op.agent
      BY <2>1, <2>2 DEF Gate, Operations
    <3> QED BY <2>1, <3>1 DEF OneGate, Drained
  <2>3. CASE Settled \/ RolledBack
    <3>1. gates' = gates \ {op.agent}
      BY <2>3 DEF Settled, RolledBack
    <3> QED BY <3>1 DEF OneGate
  <2>4. CASE gates = {} /\ gates' = gates
    BY <2>4 DEF OneGate
  <2>5. CASE gates # {} /\ gates' = gates
    <3>1. op.at \in Drained \cup {"drain", "asleep", "stuck"} /\ gates = {op.agent}
      BY <2>5 DEF OneGate
    <3>2. \/ op'.agent = op.agent /\ op'.at \in Drained \cup {"drain", "asleep", "stuck"}
          \/ Settled \/ RolledBack
      <4>1. CASE CommitRecord \/ CommitRecordRefused
        BY <2>1, <3>1, <4>1 DEF CommitRecord, CommitRecordRefused, Operations, Drained
      <4>2. CASE Drain
        <5>1. op' = [op EXCEPT !.at = "checkpoint"] \/ op' = [op EXCEPT !.at = "asleep"]
          BY <4>2 DEF Drain
        <5> QED BY <2>1, <5>1 DEF Operations, Drained
      <4>3. CASE Checkpoint
        BY <2>1, <4>3 DEF Checkpoint, Operations, Drained
      <4>4. CASE Release \/ ReleaseRefused \/ Released
        <5>1. op'.agent = op.agent /\ op'.at \in {"release", "unrelease", "settle"}
          BY <2>1, <4>4 DEF Release, ReleaseRefused, Released, Operations
        <5> QED BY <5>1 DEF Drained
      <4>5. CASE TakeCheckpoints
        BY <2>1, <4>5 DEF TakeCheckpoints, Operations, Drained
      <4>6. CASE Migrate \/ MigrateRefused \/ CommitState \/ CommitStateRefused \/ Restore
        BY <2>1, <4>6 DEF Migrate, MigrateRefused, CommitState, CommitStateRefused, Restore, Operations, Drained
      <4>7. CASE Rematerialize \/ RematerializeRefused
        <5>1. op'.agent = op.agent /\ op'.at \in {"unrelease", "rollback", "stuck"}
          BY <2>1, <4>7 DEF Rematerialize, RematerializeRefused, Operations
        <5> QED BY <5>1 DEF Drained
      <4>8. CASE Gate
        BY <3>1, <4>8 DEF Gate, Drained
      <4> QED BY <1>2, <4>1, <4>2, <4>3, <4>4, <4>5, <4>6, <4>7, <4>8 DEF OperationStep
    <3> QED BY <2>1, <2>3, <2>5, <3>1, <3>2 DEF OneGate
  <2>6. gates' = gates \/ Gate \/ Settled \/ RolledBack
    BY <1>2 DEF OperationStep, CommitRecord, CommitRecordRefused, Drain, Checkpoint, Release, ReleaseRefused,
                Released, TakeCheckpoints, Migrate, MigrateRefused, CommitState, CommitStateRefused,
                Restore, Rematerialize, RematerializeRefused
  <2> QED BY <2>2, <2>3, <2>4, <2>5, <2>6
<1>3. ASSUME NEW a, (\E call \in Calls : Ask(a, call)) \/ Emit(a) \/ EndTurn(a)
      PROVE  OneGate'
  <2>1. UNCHANGED <<op, gates>>
    BY <1>3 DEF Ask, Emit, EndTurn
  <2> QED BY <2>1 DEF OneGate
<1>4. ASSUME NEW a, NEW kind, NEW next, Open(a, kind, next)
      PROVE  OneGate'
  <2>1. gates' = gates /\ op.at = "idle"
    BY <1>4 DEF Open, NoOperation
  <2> QED BY <2>1 DEF OneGate, Drained
<1> QED BY <1>1, <1>2, <1>3, <1>4 DEF Environment

LEMMA TailKept ==
  ASSUME Typed, Completing, tail <= Len(queue), JobStep \/ OperationStep \/ Environment
  PROVE  tail' <= Len(queue')
<1>0. queue \in Seq(Jobs) /\ tail \in Nat
  BY DEF Typed
<1>1. CASE JobStep
  <2>1. CASE Leaves
    <3>1. queue' = Tail(queue) /\ tail' = (IF tail = 0 THEN 0 ELSE tail - 1) /\ queue # <<>>
      BY <2>1 DEF Leaves, Dequeue
    <3>2. Len(Tail(queue)) = Len(queue) - 1 /\ Len(queue) \in Nat /\ Len(Tail(queue)) \in Nat
      BY <1>0, <3>1
    <3> QED BY <1>0, <3>1, <3>2
  <2> QED BY <1>1, <2>1, JobLeaves
<1>2. CASE OperationStep
  <2>1. CASE CommitState
    <3>1. queue' = Append(queue, [kind |-> "complete", agent |-> op.agent]) /\ tail' = tail
      BY <2>1 DEF CommitState
    <3> QED BY <1>0, <3>1
  <2>2. CASE ~CommitState
    <3>1. queue' = queue /\ tail' \in {tail, Len(queue)}
      BY <1>2, <2>2 DEF OperationStep, CommitRecord, CommitRecordRefused, Gate, Drain, Checkpoint, Release,
                  ReleaseRefused, Released, TakeCheckpoints, Migrate, MigrateRefused, CommitStateRefused, Settled,
                  Restore, Rematerialize, RematerializeRefused, RolledBack
    <3> QED BY <1>0, <3>1
  <2> QED BY <2>1, <2>2
<1>3. CASE Environment
  <2>1. tail' = tail /\ (queue' = queue \/ \E job : queue' = Append(queue, job))
    BY <1>3 DEF Environment, Ask, Emit, EndTurn, Open
  <2> QED BY <1>0, <2>1
<1> QED BY <1>1, <1>2, <1>3

\* The operation and the job are in the chain once, and nobody only ahead of them.
LEMMA LockShape ==
  ASSUME Locks
  PROVE  lock \in {<<>>, <<"op">>, <<"job">>, <<"op", "job">>, <<"job", "op">>,
                   <<"nobody">>, <<"nobody", "op">>, <<"nobody", "job">>,
                   <<"nobody", "op", "job">>, <<"nobody", "job", "op">>}
<1>1. lock \in Seq(Waiters) /\ Len(lock) \in Nat /\ DOMAIN lock = 1 .. Len(lock)
  BY DEF Locks
<1>2. \A i \in 1 .. Len(lock) : lock[i] \in {"op", "job", "nobody"} /\ (i # 1 => lock[i] \in {"op", "job"})
  BY <1>1 DEF Locks, Kept, Waiters
<1>3. \A i, j \in 1 .. Len(lock) : i # j => lock[i] # lock[j]
  <2> SUFFICES ASSUME NEW i \in 1 .. Len(lock), NEW j \in 1 .. Len(lock), lock[i] = lock[j]
               PROVE  i = j
    OBVIOUS
  <2> QED BY <1>1, <1>2 DEF Locks, Once, Kept
<1>4. Len(lock) <= 3
  <2> SUFFICES ASSUME Len(lock) > 3 PROVE FALSE
    BY <1>1
  <2>1. 2 \in 1 .. Len(lock) /\ 3 \in 1 .. Len(lock) /\ 4 \in 1 .. Len(lock)
    BY <1>1
  <2> QED BY <1>2, <1>3, <2>1
<1>5. CASE Len(lock) = 0
  BY <1>1, <1>5
<1>6. CASE Len(lock) = 1
  <2>1. lock = <<lock[1]>>
    BY <1>1, <1>6
  <2> QED BY <1>2, <1>6, <2>1
<1>7. CASE Len(lock) = 2
  <2>1. lock = <<lock[1], lock[2]>>
    BY <1>1, <1>7
  <2>2. 1 \in 1 .. Len(lock) /\ 2 \in 1 .. Len(lock)
    BY <1>7
  <2> QED BY <1>2, <1>3, <2>1, <2>2
<1>8. CASE Len(lock) = 3
  <2>1. lock = <<lock[1], lock[2], lock[3]>>
    BY <1>1, <1>8
  <2>2. 1 \in 1 .. Len(lock) /\ 2 \in 1 .. Len(lock) /\ 3 \in 1 .. Len(lock)
    BY <1>8
  <2> QED BY <1>2, <1>3, <2>1, <2>2
<1> QED BY <1>1, <1>4, <1>5, <1>6, <1>7, <1>8

\* Every variable has its type: no place, flag, registration or resume value is
\* ever another than the code's, a chain has one waiter of each kind, and what a
\* job has captured are sessions.
THEOREM TypeCorrect == Spec => []TypeOK
<1>1. Init => Sized
  BY DEF Init, Sized, OneGate
<1>2. Agreeing /\ Sized /\ [Next]_vars => Sized'
  <2> SUFFICES ASSUME Agreeing, Sized, [Next]_vars PROVE Sized'
    OBVIOUS
  <2>1. CASE Next
    BY <2>1, OneGateKept, TailKept DEF Sized, Next, Agreeing, Believing, Working
  <2>2. CASE UNCHANGED vars
    BY <2>2 DEF vars, Sized, OneGate
  <2> QED BY <2>1, <2>2
<1>3. Agreeing /\ Sized => TypeOK
  <2> SUFFICES ASSUME Agreeing, Sized PROVE TypeOK
    OBVIOUS
  <2>1. Typed /\ Locks
    BY DEF Agreeing, Believing, Working
  <2>2. Captured = Sessions
    BY DEF Captured, Sessions
  <2>3. /\ host \in Sessions /\ live \in [Agents -> Registration] /\ loaded \in [Agents -> SUBSET Parts]
        /\ gates \subseteq Agents /\ busy \subseteq Agents
    BY <2>1, <2>2 DEF Typed
  <2>4. run.at \in {"lock", "commit", "undo"} => run.next \in Sessions
    BY <2>1, <2>2, RunFacts
  <2>5. /\ store.revision \in Nat /\ store.active \in [Agents -> Registration]
        /\ store.up \in [Agents -> SUBSET Parts] /\ store.retained \in Records
    BY <2>1 DEF Typed, Stores
  <2>6. DOMAIN store.retained \subseteq Agents /\ \A a \in DOMAIN store.retained : store.retained[a] \in Resume
    BY <2>5 DEF Records
  <2>7. Cardinality(gates) <= 1
    <3>1. CASE gates = {}
      <4>1. Cardinality(gates) = 0
        BY <3>1, FS_EmptySet
      <4> QED BY <4>1
    <3>2. CASE gates # {}
      <4>1. gates = {op.agent}
        BY <3>2 DEF Sized, OneGate
      <4>2. Cardinality(gates) = 1
        BY <4>1, FS_Singleton
      <4> QED BY <4>2
    <3> QED BY <3>1, <3>2
  <2>8. tail \in 0 .. Len(queue)
    BY <2>1 DEF Typed, Sized
  <2> QED BY <2>1, <2>3, <2>4, <2>5, <2>6, <2>7, <2>8, LockShape DEF TypeOK
<1> QED BY <1>1, <1>2, <1>3, AlwaysAgreeing, PTL DEF Spec
=============================================================================
