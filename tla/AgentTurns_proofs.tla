-------------------------- MODULE AgentTurns_proofs --------------------------
(***************************************************************************)
(* Proofs about the Turns of a Chat, for any finite number of Turns and of *)
(* interactions and any number of disturbances: what a Turn holds, that    *)
(* the gate drains, and that an open Turn is owed its end.                 *)
(*                                                                         *)
(* That an end which is on its way will be accepted depends on what is     *)
(* before it in the queue: the Host refuses it while an interaction is     *)
(* open.  The invariant therefore speaks of the queue up to a job, and     *)
(* relates what the Agent has pending to what the Host will have pending   *)
(* when it gets there.                                                     *)
(***************************************************************************)
EXTENDS AgentTurns, FunctionTheorems, FiniteSetTheorems, WellFoundedInduction, TLAPS

-----------------------------------------------------------------------------
(* Types *)

\* What the catalog queue of the Host holds.
Kinds == Mutations \cup {"progress", "requested", "answered", "terminal"}
Jobs == [kind : Kinds, turn : Turns \cup {NoTurn},
         about : Requests \cup Terminal \cup {"", "running", "cancelling"}, data : BOOLEAN]

\* What a job of each kind is about.
JobShape(job) ==
  /\ job.kind \notin Lifecycle => job.turn \in Turns
  /\ job.kind \in {"respond", "requested", "answered"} => job.about \in Requests
  /\ job.kind = "progress" => job.about \in {"running", "cancelling"}
  /\ job.kind = "terminal" => job.about \in Terminal

\* Types of the Host.
HostTypes ==
  /\ chat \in {"available", "released", "deleted"}
  /\ turns \in [Turns -> {"none", "gone"} \cup Open \cup Terminal]
  /\ activeTurn \in Turns \cup {NoTurn}
  /\ pending \in [Turns -> SUBSET Requests] /\ closed \in [Turns -> SUBSET Requests]
  /\ anchors \subseteq Turns /\ bindings \subseteq Turns
  /\ started \in BOOLEAN
  /\ gate \in [by : {"none", "package", "shutdown"},
               at : {"open", "cancel", "drain", "drained", "closed"}, turn : Turns \cup {NoTurn}]
  /\ spent \in [Disturbances -> Nat]

\* Types of the catalog queue.
QueueTypes ==
  /\ queue \in Seq(Jobs)
  /\ \A i \in 1 .. Len(queue) : JobShape(queue[i])

\* Types of the Agent and of the app-server.
AgentTypes ==
  /\ agent \in {"codex", "comet"}
  /\ loaded \in {"loaded", "released", "gone"}
  /\ run \in [Turns -> {"none", "credential", "thread", "starting", "native", "interrupting",
                        "loop", "over", "failed"}]
  /\ cancelled \subseteq Turns /\ reported \subseteq Turns /\ waiting \subseteq Turns
  /\ asked \in [Turns -> SUBSET Requests] /\ used \in [Turns -> SUBSET Requests]
  /\ thread \in Turns \cup {NoTurn} /\ mine \in [Turns -> Turns \cup {NoTurn}]
  /\ byThread \in [Turns -> Turns \cup {NoTurn}] /\ known \in [Turns -> Turns \cup {NoTurn}]
  /\ completion \in [Turns -> {"open", "resolved", "rejected"}]
  /\ native \in [Turns -> {"none", "running", "aborted", "ended"}]
  /\ interrupt \in [Turns -> {"none", "asked", "answered", "refused"}]
  /\ client \in {"none", "connected", "failed"}

Types == HostTypes /\ QueueTypes /\ AgentTypes

-----------------------------------------------------------------------------
(* The Agent *)

\* The steps of the send of each Agent; a native Turn is known by its send only
\* after that has asked for it, what awaits the app-server has one, and a Turn is
\* interrupted when it is cancelled.
Sends ==
  /\ \A t \in Turns :
       /\ run[t] \in {"credential", "thread", "starting", "native", "interrupting"} => Codex
       /\ run[t] = "loop" => Comet
       /\ known[t] # NoTurn => Codex /\ run[t] \notin {"none", "credential", "thread"}
       /\ byThread[t] # NoTurn => run[byThread[t]] \notin {"none", "credential", "thread"}
       /\ interrupt[t] # "none" => Codex /\ t \in cancelled
       /\ interrupt[t] = "answered" => completion[t] # "open"
       /\ run[t] = "interrupting" => t \in cancelled
       /\ Comet /\ Active(t) => loaded = "loaded"
       /\ run[t] \in {"none", "credential", "thread"} => native[t] = "none"
       /\ AtServer(t) => client # "none"
       /\ run[t] = "native" => known[t] = t
       /\ run[t] \in {"starting", "native", "interrupting"} \/ native[t] # "none" => mine[t] \in Turns

\* An interaction is asked for by the native Turn that the Turn is known by.
Asking == \A t \in Turns : asked[t] # {} => known[t] # NoTurn /\ asked[t] \subseteq used[known[t]]

\* The send awaits a completion that was told before: to nobody, although the Turn
\* is the one of its thread and is known by no other native Turn.
Deaf(t) ==
  /\ turns[t] \in Open /\ native[t] = "ended" /\ run[t] \in {"starting", "native"}
  /\ byThread[mine[t]] = t /\ t \notin reported /\ known[t] \in {NoTurn, t}

Awaited == spent["failure"] = 0 => \A t \in Turns : ~Deaf(t)

-----------------------------------------------------------------------------
(* The queue *)

\* A Turn that was not submitted is known to nobody but the one job that submits it.
Fresh ==
  \A t \in Turns : turns[t] = "none" =>
    /\ run[t] = "none" /\ completion[t] = "open" /\ t \notin cancelled \cup reported
    /\ \A i \in 1 .. Len(queue) : queue[i].turn = t => queue[i].kind = "submit"

\* One submission waits at most, and the Host has not heard of its Turn.
Submits ==
  \A i \in 1 .. Len(queue) : queue[i].kind = "submit" =>
    /\ turns[queue[i].turn] = "none"
    /\ \A j \in 1 .. Len(queue) : queue[j].kind = "submit" => i = j

\* What a job tells of an interaction and of the end of a Turn.
IsRequested(job, t, r) == job.kind = "requested" /\ job.turn = t /\ job.about = r
IsAnswered(job, t, r) == job.kind = "answered" /\ job.turn = t /\ job.about = r
IsEnd(job, t) == job.kind = "terminal" /\ job.turn = t

\* An interaction is asked for once.
Raised ==
  \A t \in Turns, r \in Requests :
    /\ r \in pending[t] \cup closed[t] => known[t] # NoTurn /\ r \in used[known[t]]
    /\ \A i \in 1 .. Len(queue) : IsRequested(queue[i], t, r) =>
         /\ known[t] # NoTurn /\ r \in used[known[t]]
         /\ r \notin pending[t] \cup closed[t]
         /\ \A j \in 1 .. Len(queue) : IsRequested(queue[j], t, r) => i = j

\* With what the first n jobs of a queue do, an interaction that is open, or is
\* opened by them, is closed again.
OpenedBy(q, p, t, r, n) == r \in p[t] \/ \E j \in 1 .. n : IsRequested(q[j], t, r)

\* It is closed by an answer that comes after what opens it ...
ClosedBy(q, t, r, n) ==
  \E k \in 1 .. n : /\ IsAnswered(q[k], t, r)
                    /\ \A j \in 1 .. n : IsRequested(q[j], t, r) => j < k

\* ... and then the Host has it no longer pending when it gets to job n + 1.
SettledBy(q, p, t, r, n) == OpenedBy(q, p, t, r, n) => ClosedBy(q, t, r, n)

\* An end that the Host is going to accept.
EndsAt(q, p, t, n) ==
  /\ n \in 1 .. Len(q) /\ IsEnd(q[n], t)
  /\ q[n].data => q[n].about = "failed"
  /\ \A r \in Requests : SettledBy(q, p, t, r, n - 1)

\* The end of a Turn is on its way.
Ends(q, p, t) == \E n \in 1 .. Len(q) : EndsAt(q, p, t, n)

\* What the Agent no longer has pending is closed by what it has said.
Settled ==
  spent["failure"] = 0 =>
    \A t \in Turns, r \in Requests :
      turns[t] \in Open /\ r \notin asked[t] => SettledBy(queue, pending, t, r, Len(queue))

\* The Agent does nothing more that would tell the end of the Turn.
Past(t) ==
  \/ ~Active(t) \/ t \in reported \/ completion[t] # "open"
  \/ Codex /\ t \in cancelled /\ run[t] \in {"credential", "thread"}

\* The exceptions that OpenTurnIsOwed names.
Excused(t) ==
  \/ Comet /\ t \in cancelled
  \/ HasAsked(t) /\ (t \in cancelled \/ run[t] = "failed")
  \/ spent["failure"] > 0

\* A Turn of which the Agent says nothing more has its end on the way.
Told == \A t \in Turns : turns[t] \in Open /\ Past(t) => Ends(queue, pending, t) \/ Excused(t)

-----------------------------------------------------------------------------
(* The gate *)

\* The Agent still runs a Turn, but has nothing to say of it.
Harmless(t) == Codex /\ completion[t] # "open"

\* Only Turns that are open, or about to be, have an Agent that may still speak, and
\* it has said nothing of their end.
Resting ==
  /\ \A t \in Turns : Active(t) /\ t \in reported => Harmless(t)
  /\ \A t \in Turns : Active(t) /\ turns[t] \notin Open => Harmless(t) \/ (Codex /\ turns[t] \in {"failed", "gone"})
  /\ \A i \in 1 .. Len(queue) : queue[i].kind = "terminal" /\ Active(queue[i].turn) =>
       Harmless(queue[i].turn) \/ (Codex /\ queue[i].about = "failed")

\* A drained gate has no open Turn behind it.
Gated == gate.at \in {"drained", "closed"} => ~started /\ \A t \in Turns : turns[t] \notin Open

\* The inductive invariant.
IInv == Types /\ HeldWhileOpen /\ Sends /\ Asking /\ Awaited /\ Fresh /\ Submits /\ Raised
        /\ Settled /\ Told /\ Resting /\ Gated

-----------------------------------------------------------------------------
(* Queues *)

\* q2 is q without its first d jobs and with the jobs of e at its end.
Follows(q, q2, d, e) ==
  /\ d \in {0, 1} /\ d <= Len(q) /\ q \in Seq(Jobs) /\ q2 \in Seq(Jobs) /\ e \in Seq(Jobs)
  /\ Len(q2) = Len(q) - d + Len(e)
  /\ \A i \in 1 .. Len(q) - d : q2[i] = q[i + d]
  /\ \A i \in 1 .. Len(e) : q2[Len(q) - d + i] = e[i]

\* A queue that something is said into.
LEMMA EmitFollows ==
  ASSUME NEW q \in Seq(Jobs), NEW e \in Seq(Jobs)
  PROVE  Follows(q, q \o e, 0, e)
BY DEF Follows

\* A queue whose first job is done.
LEMMA DoneFollows ==
  ASSUME NEW q \in Seq(Jobs), q # <<>>, NEW e \in Seq(Jobs)
  PROVE  Follows(q, Tail(q) \o e, 1, e)
<1>1. Tail(q) \in Seq(Jobs) /\ Len(Tail(q)) = Len(q) - 1 /\ Len(q) >= 1 /\ Len(q) \in Nat /\ Len(e) \in Nat
  OBVIOUS
<1>2. \A i \in 1 .. Len(q) - 1 : Tail(q)[i] = q[i + 1]
  OBVIOUS
<1>3. Tail(q) \o e \in Seq(Jobs) /\ Len(Tail(q) \o e) = Len(q) - 1 + Len(e)
  BY <1>1
<1>4. \A i \in 1 .. Len(q) - 1 : (Tail(q) \o e)[i] = q[i + 1]
  BY <1>1, <1>2
<1>5. \A i \in 1 .. Len(e) : (Tail(q) \o e)[Len(q) - 1 + i] = e[i]
  BY <1>1
<1> QED BY <1>1, <1>3, <1>4, <1>5 DEF Follows

\* A queue that a mutation joins.
LEMMA AppendFollows ==
  ASSUME NEW q \in Seq(Jobs), NEW job \in Jobs
  PROVE  Follows(q, Append(q, job), 0, <<job>>)
BY DEF Follows

\* A queue that nothing happens to.
LEMMA SameFollows ==
  ASSUME NEW q \in Seq(Jobs)
  PROVE  Follows(q, q, 0, <<>>)
BY DEF Follows

\* A job of the later queue is one of the earlier queue, one place further on, or of e.
LEMMA JobsOf ==
  ASSUME NEW q, NEW q2, NEW d, NEW e, Follows(q, q2, d, e), NEW i \in 1 .. Len(q2)
  PROVE  \/ i \in 1 .. Len(q) - d /\ i + d \in 1 .. Len(q) /\ q2[i] = q[i + d]
         \/ i - (Len(q) - d) \in 1 .. Len(e) /\ q2[i] = e[i - (Len(q) - d)]
<1>1. d \in {0, 1} /\ Len(q) \in Nat /\ Len(e) \in Nat /\ Len(q2) = Len(q) - d + Len(e) /\ d <= Len(q)
  BY DEF Follows
<1>2. CASE i \in 1 .. Len(q) - d
  <2>1. q2[i] = q[i + d]
    BY <1>2 DEF Follows
  <2> QED BY <2>1, <1>1, <1>2
<1>3. CASE i \notin 1 .. Len(q) - d
  <2>1. i - (Len(q) - d) \in 1 .. Len(e)
    BY <1>1, <1>3
  <2>2. q2[Len(q) - d + (i - (Len(q) - d))] = e[i - (Len(q) - d)]
    BY <2>1 DEF Follows
  <2>3. Len(q) - d + (i - (Len(q) - d)) = i
    BY <1>1
  <2> QED BY <2>1, <2>2, <2>3
<1> QED BY <1>2, <1>3

\* The types of a queue follow those of what is said.
LEMMA TypesFollow ==
  ASSUME NEW q, NEW q2, NEW d, NEW e, Follows(q, q2, d, e),
         \A i \in 1 .. Len(q) : JobShape(q[i]), \A i \in 1 .. Len(e) : JobShape(e[i])
  PROVE  q2 \in Seq(Jobs) /\ \A i \in 1 .. Len(q2) : JobShape(q2[i])
<1>1. q2 \in Seq(Jobs)
  BY DEF Follows
<1> SUFFICES ASSUME NEW i \in 1 .. Len(q2) PROVE JobShape(q2[i])
  BY <1>1
<1> QED BY JobsOf

\* What the first n jobs settle is settled when one of them is done.
LEMMA SettledFollows ==
  ASSUME NEW q, NEW q2, NEW d, NEW e, Follows(q, q2, d, e), NEW p, NEW p2,
         NEW t \in Turns, NEW r \in Requests, NEW n \in d .. Len(q), SettledBy(q, p, t, r, n),
         r \in p2[t] => \/ r \in p[t] /\ ~(d = 1 /\ IsAnswered(q[1], t, r))
                        \/ d = 1 /\ IsRequested(q[1], t, r)
  PROVE  SettledBy(q2, p2, t, r, n - d)
<1>1. d \in {0, 1} /\ Len(q) \in Nat /\ d <= Len(q) /\ n \in Nat
  BY DEF Follows
<1>2. \A i \in 1 .. n - d : i + d \in 1 .. n /\ q2[i] = q[i + d]
  BY <1>1 DEF Follows
<1> SUFFICES ASSUME OpenedBy(q2, p2, t, r, n - d) PROVE ClosedBy(q2, t, r, n - d)
  BY DEF SettledBy
<1>3. OpenedBy(q, p, t, r, n)
  <2>1. CASE r \in p2[t]
    <3>1. CASE d = 1 /\ IsRequested(q[1], t, r)
      <4>1. 1 \in 1 .. n
        BY <3>1, <1>1
      <4> QED BY <4>1, <3>1 DEF OpenedBy
    <3> QED BY <2>1, <3>1 DEF OpenedBy
  <2>2. CASE r \notin p2[t]
    <3>1. PICK j \in 1 .. n - d : IsRequested(q2[j], t, r)
      BY <2>2 DEF OpenedBy
    <3>2. j + d \in 1 .. n /\ IsRequested(q[j + d], t, r)
      BY <3>1, <1>2
    <3> QED BY <3>2 DEF OpenedBy
  <2> QED BY <2>1, <2>2
<1>4. PICK k \in 1 .. n : IsAnswered(q[k], t, r) /\ \A j \in 1 .. n : IsRequested(q[j], t, r) => j < k
  BY <1>3 DEF SettledBy, ClosedBy
<1>5. d < k
  <2> SUFFICES ASSUME d >= k PROVE FALSE
    BY <1>1
  <2>1. d = 1 /\ k = 1
    BY <1>1
  <2>2. \A j \in 1 .. n : ~IsRequested(q[j], t, r)
    BY <2>1, <1>4
  <2>3. ~IsRequested(q[1], t, r) /\ r \notin p2[t]
    BY <2>1, <2>2, <1>4
  <2>4. PICK j \in 1 .. n - d : IsRequested(q2[j], t, r)
    BY <2>3 DEF OpenedBy
  <2> QED BY <2>4, <1>2, <2>2
<1>6. k - d \in 1 .. n - d /\ q2[k - d] = q[k]
  <2>1. k - d \in 1 .. n - d
    BY <1>5, <1>1
  <2>2. k - d + d = k
    BY <1>1
  <2> QED BY <2>1, <2>2, <1>2
<1>7. \A j \in 1 .. n - d : IsRequested(q2[j], t, r) => j < k - d
  <2> SUFFICES ASSUME NEW j \in 1 .. n - d, IsRequested(q2[j], t, r) PROVE j < k - d
    OBVIOUS
  <2>1. j + d \in 1 .. n /\ IsRequested(q[j + d], t, r)
    BY <1>2
  <2>2. j + d < k
    BY <2>1, <1>4
  <2> QED BY <2>2, <1>1
<1> QED BY <1>4, <1>6, <1>7 DEF ClosedBy

\* An end that will be accepted still will be when a job before it is done.
LEMMA EndFollows ==
  ASSUME NEW q, NEW q2, NEW d, NEW e, Follows(q, q2, d, e), NEW p, NEW p2,
         NEW t \in Turns, NEW n \in 1 .. Len(q), EndsAt(q, p, t, n), n > d,
         \A r \in Requests : r \in p2[t] => \/ r \in p[t] /\ ~(d = 1 /\ IsAnswered(q[1], t, r))
                                            \/ d = 1 /\ IsRequested(q[1], t, r)
  PROVE  Ends(q2, p2, t)
<1>1. d \in {0, 1} /\ Len(q) \in Nat /\ n \in Nat /\ Len(e) \in Nat /\ Len(q2) = Len(q) - d + Len(e)
  BY DEF Follows
<1>2. n - d \in 1 .. Len(q2) /\ n - d \in 1 .. Len(q) - d /\ n - d + d = n
  BY <1>1
<1>3. q2[n - d] = q[n]
  BY <1>2 DEF Follows
<1>4. \A r \in Requests : SettledBy(q2, p2, t, r, n - d - 1)
  <2> SUFFICES ASSUME NEW r \in Requests PROVE SettledBy(q2, p2, t, r, n - d - 1)
    OBVIOUS
  <2>1. n - 1 \in d .. Len(q) /\ (n - 1) - d = n - d - 1
    BY <1>1
  <2>2. SettledBy(q, p, t, r, n - 1)
    BY DEF EndsAt
  <2> QED BY <2>1, <2>2, SettledFollows
<1>5. IsEnd(q2[n - d], t) /\ (q2[n - d].data => q2[n - d].about = "failed")
  BY <1>3 DEF EndsAt
<1> QED BY <1>2, <1>4, <1>5 DEF Ends, EndsAt

\* What is said settles what it answers, and leaves settled what was.
LEMMA SaidSettles ==
  ASSUME NEW q, NEW q2, NEW d, NEW e, Follows(q, q2, d, e), NEW p, NEW p2,
         NEW t \in Turns, NEW r \in Requests, NEW m \in 0 .. Len(e),
         \A i \in 1 .. m : ~IsRequested(e[i], t, r),
         \/ \E i \in 1 .. m : IsAnswered(e[i], t, r)
         \/ SettledBy(q, p, t, r, Len(q)),
         r \in p2[t] => \/ r \in p[t] /\ ~(d = 1 /\ IsAnswered(q[1], t, r))
                        \/ d = 1 /\ IsRequested(q[1], t, r)
  PROVE  SettledBy(q2, p2, t, r, Len(q) - d + m)
<1> DEFINE l == Len(q) - d
<1>1. d \in {0, 1} /\ Len(q) \in Nat /\ d <= Len(q) /\ Len(e) \in Nat /\ m \in Nat /\ l \in Nat
  BY DEF Follows
<1>2. \A j \in 1 .. l + m : IsRequested(q2[j], t, r) => j \in 1 .. l
  <2> SUFFICES ASSUME NEW j \in 1 .. l + m, IsRequested(q2[j], t, r), j \notin 1 .. l PROVE FALSE
    OBVIOUS
  <2>1. j - l \in 1 .. m /\ j - l \in 1 .. Len(e) /\ l + (j - l) = j
    BY <1>1
  <2>2. q2[l + (j - l)] = e[j - l]
    BY <2>1 DEF Follows
  <2>3. q2[j] = e[j - l]
    BY <2>1, <2>2
  <2> QED BY <2>1, <2>3
<1>3. CASE \E i \in 1 .. m : IsAnswered(e[i], t, r)
  <2>1. PICK i \in 1 .. m : IsAnswered(e[i], t, r)
    BY <1>3
  <2>2. i \in 1 .. Len(e) /\ l + i \in 1 .. l + m /\ \A j \in 1 .. l : j < l + i
    BY <1>1
  <2>3. q2[l + i] = e[i]
    BY <2>2 DEF Follows
  <2>4. IsAnswered(q2[l + i], t, r) /\ \A j \in 1 .. l + m : IsRequested(q2[j], t, r) => j < l + i
    BY <2>1, <2>2, <2>3, <1>2
  <2> QED BY <2>2, <2>4 DEF SettledBy, ClosedBy
<1>4. CASE SettledBy(q, p, t, r, Len(q))
  <2>1. SettledBy(q2, p2, t, r, l)
    <3>1. Len(q) \in d .. Len(q)
      BY <1>1
    <3> QED BY <3>1, <1>4, SettledFollows
  <2> SUFFICES ASSUME OpenedBy(q2, p2, t, r, l + m) PROVE ClosedBy(q2, t, r, l + m)
    BY DEF SettledBy
  <2>2. OpenedBy(q2, p2, t, r, l)
    BY <1>2 DEF OpenedBy
  <2>3. PICK k \in 1 .. l : IsAnswered(q2[k], t, r) /\ \A j \in 1 .. l : IsRequested(q2[j], t, r) => j < k
    BY <2>1, <2>2 DEF SettledBy, ClosedBy
  <2>4. k \in 1 .. l + m /\ \A j \in 1 .. l + m : IsRequested(q2[j], t, r) => j < k
    BY <2>3, <1>1, <1>2
  <2> QED BY <2>3, <2>4 DEF ClosedBy
<1> QED BY <1>3, <1>4

\* Words of the Agent or the Host that raise no interaction and submit nothing.
Speech(e) ==
  /\ e \in Seq(Jobs)
  /\ \A i \in 1 .. Len(e) : /\ JobShape(e[i]) /\ e[i].turn \in Turns
                            /\ e[i].kind \in {"answered", "terminal", "progress"}

\* They close the interactions of a set, and then tell the end of t.
Tells(e, t, open) ==
  \E m \in 1 .. Len(e) :
    /\ IsEnd(e[m], t) /\ (e[m].data => e[m].about = "failed")
    /\ \A r \in open : \E k \in 1 .. m - 1 : IsAnswered(e[k], t, r)

\* An end that is told when nothing is left open will be accepted.
LEMMA ToldEnds ==
  ASSUME NEW q, NEW q2, NEW d, NEW e, Follows(q, q2, d, e), NEW p, NEW p2, Speech(e),
         NEW t \in Turns, NEW open, Tells(e, t, open),
         \A r \in Requests \ open : SettledBy(q, p, t, r, Len(q)),
         \A r \in Requests : r \in p2[t] => \/ r \in p[t] /\ ~(d = 1 /\ IsAnswered(q[1], t, r))
                                            \/ d = 1 /\ IsRequested(q[1], t, r)
  PROVE  Ends(q2, p2, t)
<1>7. d \in {0, 1} /\ Len(q) \in Nat /\ d <= Len(q) /\ Len(e) \in Nat
      /\ Len(q2) = Len(q) - d + Len(e) /\ Len(q) - d \in Nat
  BY DEF Follows
<1>0. PICK l \in Nat : l = Len(q) - d
  BY <1>7
<1>1. d \in {0, 1} /\ Len(q) \in Nat /\ d <= Len(q) /\ Len(e) \in Nat /\ Len(q2) = l + Len(e)
  BY <1>0, <1>7
<1>2. PICK m \in 1 .. Len(e) :
        /\ IsEnd(e[m], t) /\ (e[m].data => e[m].about = "failed")
        /\ \A r \in open : \E k \in 1 .. m - 1 : IsAnswered(e[k], t, r)
  BY DEF Tells
<1>3. l + m \in 1 .. Len(q2) /\ q2[l + m] = e[m]
  <2>1. l + m \in 1 .. Len(q2)
    BY <1>1
  <2> QED BY <2>1, <1>0 DEF Follows
<1>4. \A r \in Requests : SettledBy(q2, p2, t, r, l + m - 1)
  <2> SUFFICES ASSUME NEW r \in Requests PROVE SettledBy(q2, p2, t, r, l + m - 1)
    OBVIOUS
  <2>1. m - 1 \in 0 .. Len(e) /\ l + (m - 1) = l + m - 1
    BY <1>1
  <2>2. \A i \in 1 .. m - 1 : ~IsRequested(e[i], t, r)
    <3>1. \A i \in 1 .. m - 1 : i \in 1 .. Len(e)
      BY <1>1
    <3> QED BY <3>1 DEF Speech, IsRequested
  <2>3. \/ \E i \in 1 .. m - 1 : IsAnswered(e[i], t, r)
        \/ SettledBy(q, p, t, r, Len(q))
    BY <1>2
  <2>4. SettledBy(q2, p2, t, r, l + (m - 1))
    BY <1>0, <2>1, <2>2, <2>3, SaidSettles
  <2> QED BY <2>1, <2>4
<1>5. IsEnd(q2[l + m], t) /\ (q2[l + m].data => q2[l + m].about = "failed")
  BY <1>2, <1>3
<1>6. EndsAt(q2, p2, t, l + m)
  BY <1>3, <1>4, <1>5 DEF EndsAt
<1> QED BY <1>3, <1>6 DEF Ends

-----------------------------------------------------------------------------
(* What a step of the queue keeps *)

\* What is open for a turn after a step was open before, and is not closed by
\* the job that is done, or is opened by it.
Shrinks(q, p, p2, d, t) ==
  \A r \in Requests : r \in p2[t] => \/ r \in p[t] /\ ~(d = 1 /\ IsAnswered(q[1], t, r))
                                     \/ d = 1 /\ IsRequested(q[1], t, r)

\* What is never taken back.
Grows ==
  /\ agent' = agent /\ cancelled \subseteq cancelled'
  /\ \A t \in Turns : /\ known[t] # NoTurn => known'[t] = known[t]
                      /\ used[t] \subseteq used'[t]
                      /\ run[t] = "failed" => run'[t] = "failed"
  /\ spent["failure"] <= spent'["failure"]

\* A Turn that is excused stays so.
LEMMA ExcusedStays ==
  ASSUME Types, Types', Grows, NEW t \in Turns, Excused(t)
  PROVE  Excused(t)'
<1>1. CASE Comet /\ t \in cancelled
  BY <1>1 DEF Grows, Excused, Comet
<1>2. CASE HasAsked(t) /\ (t \in cancelled \/ run[t] = "failed")
  <2>1. known[t] \in Turns /\ known'[t] = known[t]
    BY <1>2 DEF Types, AgentTypes, HasAsked, Grows
  <2>2. used[known[t]] # {} /\ used[known[t]] \subseteq used'[known[t]]
    BY <1>2, <2>1 DEF HasAsked, Grows
  <2>3. HasAsked(t)'
    BY <2>1, <2>2, NoTurnAssumption DEF HasAsked
  <2>4. t \in cancelled' \/ run'[t] = "failed"
    BY <1>2 DEF Grows
  <2> QED BY <2>3, <2>4 DEF Excused
<1>3. CASE spent["failure"] > 0
  <2>1. spent["failure"] \in Nat /\ spent'["failure"] \in Nat
    BY DEF Types, HostTypes, Disturbances
  <2>2. spent'["failure"] > 0
    BY <1>3, <2>1 DEF Grows
  <2> QED BY <2>2 DEF Excused
<1> QED BY <1>1, <1>2, <1>3 DEF Excused

\* Interactions stay asked for once when nothing is said that asks for one.
LEMMA RaisedKeeps ==
  ASSUME Types, Types', Raised, Grows, NEW d, NEW e, Follows(queue, queue', d, e), Speech(e),
         \A t \in Turns, r \in Requests : r \in pending'[t] \cup closed'[t] =>
           r \in pending[t] \cup closed[t] \/ (d = 1 /\ IsRequested(queue[1], t, r))
  PROVE  Raised'
<1> SUFFICES ASSUME NEW t \in Turns, NEW r \in Requests
             PROVE  /\ r \in pending'[t] \cup closed'[t] => known'[t] # NoTurn /\ r \in used'[known'[t]]
                    /\ \A i \in 1 .. Len(queue') : IsRequested(queue'[i], t, r) =>
                         /\ known'[t] # NoTurn /\ r \in used'[known'[t]]
                         /\ r \notin pending'[t] \cup closed'[t]
                         /\ \A j \in 1 .. Len(queue') : IsRequested(queue'[j], t, r) => i = j
  BY DEF Raised, IsRequested
<1>1. d \in {0, 1} /\ Len(queue) \in Nat /\ Len(queue') \in Nat /\ (d = 1 => 1 \in 1 .. Len(queue))
  BY DEF Follows
<1>2. ASSUME known[t] # NoTurn, r \in used[known[t]] PROVE known'[t] # NoTurn /\ r \in used'[known'[t]]
  <2>1. known[t] \in Turns /\ known'[t] = known[t]
    BY <1>2 DEF Types, AgentTypes, Grows
  <2> QED BY <1>2, <2>1 DEF Grows
<1>3. \A i \in 1 .. Len(queue) : IsRequested(queue[i], t, r) => known[t] # NoTurn /\ r \in used[known[t]]
  BY DEF Raised
<1>4. r \in pending'[t] \cup closed'[t] => known'[t] # NoTurn /\ r \in used'[known'[t]]
  <2>1. r \in pending[t] \cup closed[t] => known[t] # NoTurn /\ r \in used[known[t]]
    BY DEF Raised
  <2> QED BY <2>1, <1>1, <1>2, <1>3
<1>5. \A i \in 1 .. Len(queue') : IsRequested(queue'[i], t, r) =>
        i + d \in 1 .. Len(queue) /\ IsRequested(queue[i + d], t, r)
  <2> SUFFICES ASSUME NEW i \in 1 .. Len(queue'), IsRequested(queue'[i], t, r)
               PROVE  i + d \in 1 .. Len(queue) /\ IsRequested(queue[i + d], t, r)
    OBVIOUS
  <2>1. ASSUME NEW k \in 1 .. Len(e) PROVE ~IsRequested(e[k], t, r)
    BY DEF Speech, IsRequested
  <2> QED BY <2>1, JobsOf
<1> SUFFICES ASSUME NEW i \in 1 .. Len(queue'), IsRequested(queue'[i], t, r)
             PROVE  /\ known'[t] # NoTurn /\ r \in used'[known'[t]]
                    /\ r \notin pending'[t] \cup closed'[t]
                    /\ \A j \in 1 .. Len(queue') : IsRequested(queue'[j], t, r) => i = j
  BY <1>4
<1>6. i + d \in 1 .. Len(queue) /\ IsRequested(queue[i + d], t, r)
  BY <1>5
<1>7. /\ known[t] # NoTurn /\ r \in used[known[t]] /\ r \notin pending[t] \cup closed[t]
      /\ \A j \in 1 .. Len(queue) : IsRequested(queue[j], t, r) => i + d = j
  BY <1>6 DEF Raised
<1>8. ~(d = 1 /\ IsRequested(queue[1], t, r))
  <2> SUFFICES ASSUME d = 1, IsRequested(queue[1], t, r) PROVE FALSE
    OBVIOUS
  <2>1. i + d = 1
    BY <1>1, <1>7
  <2> QED BY <2>1, <1>1
<1>9. \A j \in 1 .. Len(queue') : IsRequested(queue'[j], t, r) => i = j
  <2> SUFFICES ASSUME NEW j \in 1 .. Len(queue'), IsRequested(queue'[j], t, r) PROVE i = j
    OBVIOUS
  <2>1. i + d = j + d
    BY <1>5, <1>7
  <2> QED BY <2>1, <1>1
<1> QED BY <1>2, <1>7, <1>8, <1>9

\* What is settled stays so, and what the Agent gives up is answered.
LEMMA SettledKeeps ==
  ASSUME Types, Types', Settled, Grows, NEW d, NEW e, Follows(queue, queue', d, e), Speech(e),
         \A t \in Turns : turns'[t] \in Open => Shrinks(queue, pending, pending', d, t),
         \A t \in Turns, r \in Requests : turns'[t] \in Open /\ r \notin asked'[t] =>
           \/ turns[t] \in Open /\ r \notin asked[t]
           \/ \E i \in 1 .. Len(e) : IsAnswered(e[i], t, r)
           \/ SettledBy(queue, pending, t, r, Len(queue))
           \/ SettledBy(queue', pending', t, r, Len(queue'))
  PROVE  Settled'
<1> SUFFICES ASSUME spent'["failure"] = 0, NEW t \in Turns, NEW r \in Requests,
                    turns'[t] \in Open, r \notin asked'[t]
             PROVE  SettledBy(queue', pending', t, r, Len(queue'))
  BY DEF Settled, SettledBy, OpenedBy, ClosedBy, IsRequested, IsAnswered
<1>1. spent["failure"] = 0
  <2>1. spent["failure"] \in Nat
    BY DEF Types, HostTypes, Disturbances
  <2> QED BY <2>1 DEF Grows
<1>2. \/ \E i \in 1 .. Len(e) : IsAnswered(e[i], t, r)
      \/ SettledBy(queue, pending, t, r, Len(queue))
      \/ SettledBy(queue', pending', t, r, Len(queue'))
  BY <1>1 DEF Settled
<1>3. Len(e) \in 0 .. Len(e) /\ Len(queue') = Len(queue) - d + Len(e)
  BY DEF Follows
<1>4. \A i \in 1 .. Len(e) : ~IsRequested(e[i], t, r)
  BY DEF Speech, IsRequested
<1>5. r \in pending'[t] => \/ r \in pending[t] /\ ~(d = 1 /\ IsAnswered(queue[1], t, r))
                           \/ d = 1 /\ IsRequested(queue[1], t, r)
  BY DEF Shrinks
<1> QED BY <1>2, <1>3, <1>4, <1>5, SaidSettles

\* An open Turn that the Agent is past stays owed its end.
LEMMA ToldKeeps ==
  ASSUME Types, Types', Settled, Told, Grows, NEW d, NEW e, Follows(queue, queue', d, e), Speech(e),
         \A t \in Turns : turns'[t] \in Open => Shrinks(queue, pending, pending', d, t),
         \A t \in Turns : turns'[t] \in Open /\ Past(t)' =>
           \/ turns[t] \in Open /\ Past(t) /\ ~(d = 1 /\ EndsAt(queue, pending, t, 1))
           \/ turns[t] \in Open /\ Tells(e, t, asked[t])
           \/ Excused(t)'
           \/ Ends(queue', pending', t)
  PROVE  Told'
<1> SUFFICES ASSUME NEW t \in Turns, turns'[t] \in Open, Past(t)', ~Excused(t)'
             PROVE  Ends(queue', pending', t)
  BY DEF Told, Ends, EndsAt, SettledBy, OpenedBy, ClosedBy, IsEnd, IsRequested, IsAnswered
<1>1. ~Excused(t)
  BY ExcusedStays
<1>2. \A r \in Requests : r \in pending'[t] =>
         \/ r \in pending[t] /\ ~(d = 1 /\ IsAnswered(queue[1], t, r))
         \/ d = 1 /\ IsRequested(queue[1], t, r)
  BY DEF Shrinks
<1>3. CASE turns[t] \in Open /\ Past(t) /\ ~(d = 1 /\ EndsAt(queue, pending, t, 1))
  <2>1. PICK n \in 1 .. Len(queue) : EndsAt(queue, pending, t, n)
    BY <1>1, <1>3 DEF Told, Ends
  <2>2. n > d
    <3>1. d \in {0, 1} /\ n \in Nat
      BY DEF Follows
    <3> QED BY <1>3, <2>1, <3>1
  <2> QED BY <1>2, <2>1, <2>2, EndFollows
<1>4. CASE turns[t] \in Open /\ Tells(e, t, asked[t])
  <2>1. \A r \in Requests \ asked[t] : SettledBy(queue, pending, t, r, Len(queue))
    <3>1. spent["failure"] = 0
      <4>1. spent["failure"] \in Nat /\ ~(spent["failure"] > 0)
        BY <1>1 DEF Types, HostTypes, Disturbances, Excused
      <4> QED BY <4>1
    <3> QED BY <1>4, <3>1 DEF Settled
  <2> QED BY <1>2, <1>4, <2>1, ToldEnds
<1> QED BY <1>3, <1>4

\* Turns stay fresh, and of two jobs at most one submits.
LEMMA FreshKeeps ==
  ASSUME Fresh, NEW d, NEW e, Follows(queue, queue', d, e),
         \A i \in 1 .. Len(e) : turns'[e[i].turn] # "none",
         \A t \in Turns : turns'[t] = "none" =>
           /\ turns[t] = "none" /\ run'[t] = "none" /\ completion'[t] = "open"
           /\ t \notin cancelled' \cup reported'
  PROVE  Fresh'
<1> SUFFICES ASSUME NEW t \in Turns, turns'[t] = "none",
                    NEW i \in 1 .. Len(queue'), queue'[i].turn = t
             PROVE  queue'[i].kind = "submit"
  BY DEF Fresh
<1>1. CASE i - (Len(queue) - d) \in 1 .. Len(e) /\ queue'[i] = e[i - (Len(queue) - d)]
  BY <1>1
<1>2. CASE i + d \in 1 .. Len(queue) /\ queue'[i] = queue[i + d]
  BY <1>2 DEF Fresh
<1> QED BY <1>1, <1>2, JobsOf

\* Submissions stay alone when none is added.
LEMMA SubmitsKeep ==
  ASSUME Submits, NEW d, NEW e, Follows(queue, queue', d, e), \A i \in 1 .. Len(e) : e[i].kind # "submit",
         \A i \in 1 .. Len(queue) : i > d /\ queue[i].kind = "submit" => turns'[queue[i].turn] = "none"
  PROVE  Submits'
<1>1. d \in {0, 1} /\ Len(queue) \in Nat
  BY DEF Follows
<1>2. \A i \in 1 .. Len(queue') : queue'[i].kind = "submit" =>
        i + d \in 1 .. Len(queue) /\ queue'[i] = queue[i + d]
  <2> SUFFICES ASSUME NEW i \in 1 .. Len(queue'), queue'[i].kind = "submit"
               PROVE  i + d \in 1 .. Len(queue) /\ queue'[i] = queue[i + d]
    OBVIOUS
  <2> QED BY JobsOf
<1> SUFFICES ASSUME NEW i \in 1 .. Len(queue'), queue'[i].kind = "submit"
             PROVE  /\ turns'[queue'[i].turn] = "none"
                    /\ \A j \in 1 .. Len(queue') : queue'[j].kind = "submit" => i = j
  BY DEF Submits
<1>3. i + d \in 1 .. Len(queue) /\ queue'[i] = queue[i + d] /\ i + d > d /\ i \in Nat
  BY <1>1, <1>2
<1>4. turns'[queue'[i].turn] = "none"
  BY <1>3
<1>5. ASSUME NEW j \in 1 .. Len(queue'), queue'[j].kind = "submit" PROVE i = j
  <2>1. i + d = j + d
    BY <1>2, <1>3, <1>5 DEF Submits
  <2> QED BY <2>1, <1>1
<1> QED BY <1>4, <1>5

\* A Turn the Agent still runs, although it is over, stays harmless.
LEMMA RestingKeeps ==
  ASSUME Types, Types', Resting, NEW d, NEW e, Follows(queue, queue', d, e), agent' = agent,
         \A t \in Turns : Active(t)' /\ t \in reported' => Harmless(t)',
         \A t \in Turns : Active(t)' /\ turns'[t] \notin Open =>
           Harmless(t)' \/ (Codex' /\ turns'[t] \in {"failed", "gone"}),
         \A t \in Turns, i \in 1 .. Len(queue) : i > d /\ IsEnd(queue[i], t) /\ Active(t)' =>
           Active(t) /\ (completion[t] # "open" => completion'[t] # "open"),
         \A t \in Turns, i \in 1 .. Len(e) : IsEnd(e[i], t) /\ Active(t)' =>
           Harmless(t)' \/ (Codex' /\ e[i].about = "failed")
  PROVE  Resting'
<1>1. ASSUME NEW i \in 1 .. Len(queue'), queue'[i].kind = "terminal", NEW t \in Turns,
             t = queue'[i].turn, Active(t)'
      PROVE  Harmless(t)' \/ (Codex' /\ queue'[i].about = "failed")
  <2>1. CASE i - (Len(queue) - d) \in 1 .. Len(e) /\ queue'[i] = e[i - (Len(queue) - d)]
    BY <1>1, <2>1 DEF IsEnd
  <2>2. CASE i \in 1 .. Len(queue) - d /\ i + d \in 1 .. Len(queue) /\ queue'[i] = queue[i + d]
    <3>1. i + d > d
      BY <2>2 DEF Follows
    <3>2. Active(t) /\ (completion[t] # "open" => completion'[t] # "open")
      BY <1>1, <2>2, <3>1 DEF IsEnd
    <3>3. Harmless(t) \/ (Codex /\ queue[i + d].about = "failed")
      BY <1>1, <2>2, <3>2 DEF Resting
    <3> QED BY <2>2, <3>2, <3>3 DEF Codex, Harmless
  <2> QED BY <2>1, <2>2, JobsOf
<1>2. ASSUME NEW i \in 1 .. Len(queue'), queue'[i].kind = "terminal" PROVE queue'[i].turn \in Turns
  BY <1>2 DEF Types, QueueTypes, JobShape, Lifecycle
<1>3. \A i \in 1 .. Len(queue') : queue'[i].kind = "terminal" /\ Active(queue[i].turn)' =>
        Harmless(queue[i].turn)' \/ (Codex /\ queue[i].about = "failed")'
  BY <1>1, <1>2 DEF Active, Harmless, Codex
<1> QED BY <1>3 DEF Resting, Active, Harmless, Codex

\* No Turn misses a completion that none missed before.
LEMMA AwaitedKeeps ==
  ASSUME HostTypes, HostTypes', Awaited, spent["failure"] <= spent'["failure"],
         \A t \in Turns : Deaf(t)' => Deaf(t)
  PROVE  Awaited'
<1>1. spent["failure"] \in Nat /\ spent'["failure"] \in Nat
  BY DEF HostTypes, Disturbances
<1> QED BY <1>1 DEF Awaited, Deaf

\* A Turn misses none when its send does not begin to await one, it does not become
\* the one of its thread, and what was reported and known still is.
LEMMA DeafBefore ==
  ASSUME IInv, NEW t \in Turns, Deaf(t)', turns[t] \in Open, native'[t] = "ended" => native[t] = "ended",
         run'[t] = run[t], mine'[t] = mine[t], t \in reported => t \in reported',
         \A v \in Turns : byThread'[v] = t => byThread[v] = t,
         known[t] # NoTurn => known'[t] = known[t]
  PROVE  Deaf(t)
<1>1. Sends
  BY DEF IInv
<1>2. run[t] \in {"starting", "native"} /\ mine[t] \in Turns
  BY <1>1 DEF Deaf, Sends
<1>3. byThread[mine[t]] = t
  BY <1>2 DEF Deaf
<1> QED BY <1>2, <1>3 DEF Deaf

\* That is enough when every Turn that would miss one is as it was.
LEMMA StillAwaited ==
  ASSUME IInv, Types', spent["failure"] <= spent'["failure"],
         \A t \in Turns : Deaf(t)' =>
           /\ turns[t] \in Open /\ native[t] = "ended"
           /\ run'[t] = run[t] /\ mine'[t] = mine[t] /\ (t \in reported => t \in reported')
           /\ \A v \in Turns : byThread'[v] = t => byThread[v] = t
           /\ known[t] # NoTurn => known'[t] = known[t]
  PROVE  Awaited'
<1>1. \A t \in Turns : Deaf(t)' => Deaf(t)
  BY DeafBefore
<1> QED BY <1>1, AwaitedKeeps DEF IInv, Types

\* What an Agent says leaves the whole queue in order: it says of a Turn only
\* what it may, answers what it gives up and tells the end of a Turn it is past.
LEMMA EmitKeeps ==
  ASSUME IInv, Types', NEW e, queue' = queue \o e, Speech(e), UNCHANGED chatVars, Grows, Gated',
         \A i \in 1 .. Len(e) : turns[e[i].turn] # "none",
         \A t \in Turns : /\ Active(t)' => Active(t)
                          /\ completion[t] # "open" => completion'[t] # "open"
                          /\ Active(t)' /\ t \in reported' => t \in reported \/ Harmless(t)',
         \A t \in Turns : turns[t] = "none" =>
           run'[t] = "none" /\ completion'[t] = "open" /\ t \notin cancelled' \cup reported',
         \A t \in Turns, r \in Requests : turns[t] \in Open /\ r \in asked[t] /\ r \notin asked'[t] =>
           \E i \in 1 .. Len(e) : IsAnswered(e[i], t, r),
         \A t \in Turns : turns[t] \in Open /\ Past(t)' =>
           Past(t) \/ Tells(e, t, asked[t]) \/ Excused(t)',
         \A t \in Turns, i \in 1 .. Len(e) : IsEnd(e[i], t) /\ Active(t)' =>
           Harmless(t)' \/ (Codex' /\ e[i].about = "failed")
  PROVE  /\ (HeldWhileOpen /\ Fresh /\ Submits /\ Raised)'
         /\ (Settled /\ Told /\ Resting)'
<1>1. /\ Types /\ HeldWhileOpen /\ Fresh /\ Submits /\ Raised /\ Settled /\ Told /\ Resting /\ Gated
      /\ queue \in Seq(Jobs)
  BY DEF IInv, Types, QueueTypes
<1>2. /\ turns' = turns /\ pending' = pending /\ closed' = closed
      /\ anchors' = anchors /\ bindings' = bindings
  BY DEF chatVars
<1>3. Follows(queue, queue', 0, e)
  BY <1>1, EmitFollows DEF Speech
<1>4. \A t \in Turns : Shrinks(queue, pending, pending', 0, t)
  BY <1>2 DEF Shrinks
<1>5. HeldWhileOpen'
  BY <1>1, <1>2 DEF HeldWhileOpen
<1>6. Fresh'
  BY <1>1, <1>2, <1>3, FreshKeeps
<1>7. Submits'
  <2>1. \A i \in 1 .. Len(queue) : queue[i].kind = "submit" => turns[queue[i].turn] = "none"
    BY <1>1 DEF Submits
  <2>2. \A i \in 1 .. Len(e) : e[i].kind # "submit"
    BY DEF Speech
  <2> QED BY <1>1, <1>2, <1>3, <2>1, <2>2, SubmitsKeep
<1>8. Raised'
  BY <1>1, <1>2, <1>3, RaisedKeeps
<1>9. Settled'
  <2>1. \A t \in Turns, r \in Requests : turns'[t] \in Open /\ r \notin asked'[t] =>
          \/ turns[t] \in Open /\ r \notin asked[t]
          \/ \E i \in 1 .. Len(e) : IsAnswered(e[i], t, r)
    BY <1>2
  <2> QED BY <1>1, <1>3, <1>4, <2>1, SettledKeeps
<1>10. Told'
  <2>1. \A t \in Turns : turns'[t] \in Open /\ Past(t)' =>
          \/ turns[t] \in Open /\ Past(t) /\ ~(0 = 1 /\ EndsAt(queue, pending, t, 1))
          \/ turns[t] \in Open /\ Tells(e, t, asked[t])
          \/ Excused(t)'
    BY <1>2
  <2> QED BY <1>1, <1>3, <1>4, <2>1, ToldKeeps
<1>11. Resting'
  <2>1. \A t \in Turns : Active(t)' /\ turns'[t] \notin Open =>
          Harmless(t)' \/ (Codex' /\ turns'[t] \in {"failed", "gone"})
    <3> SUFFICES ASSUME NEW t \in Turns, Active(t)', turns'[t] \notin Open
                 PROVE  Harmless(t)' \/ (Codex' /\ turns'[t] \in {"failed", "gone"})
      OBVIOUS
    <3>1. Harmless(t) \/ (Codex /\ turns[t] \in {"failed", "gone"})
      BY <1>1, <1>2 DEF Resting
    <3> QED BY <1>2, <3>1 DEF Harmless, Codex, Grows
  <2>2. agent' = agent
    BY DEF Grows
  <2>3. \A t \in Turns : Active(t)' /\ t \in reported' => Harmless(t)'
    <3> SUFFICES ASSUME NEW t \in Turns, Active(t)', t \in reported, Active(t) PROVE Harmless(t)'
      OBVIOUS
    <3>1. Harmless(t)
      BY <1>1 DEF Resting
    <3> QED BY <2>2, <3>1 DEF Harmless, Codex
  <2> QED BY <1>1, <1>3, <2>1, <2>2, <2>3, RestingKeeps
<1> QED BY <1>5, <1>6, <1>7, <1>8, <1>9, <1>10, <1>11

\* The first job is done and the Agent has nothing to do with it.
LEMMA DoneKeeps ==
  ASSUME IInv, Types', queue # <<>>, Done(<<>>),
         UNCHANGED <<agent, run, cancelled, known, used, completion>>, reported' \subseteq reported,
         spent["failure"] <= spent'["failure"],
         \A t \in Turns : turns[t] = "none" <=> turns'[t] = "none",
         \A t \in Turns : turns'[t] \in Open =>
           /\ turns[t] \in Open
           /\ \/ Shrinks(queue, pending, pending', 1, t) /\ ~EndsAt(queue, pending, t, 1)
              \/ spent'["failure"] > 0,
         \A t \in Turns, r \in Requests : r \in pending'[t] \cup closed'[t] =>
           r \in pending[t] \cup closed[t] \/ IsRequested(queue[1], t, r),
         \A t \in Turns, r \in Requests : turns'[t] \in Open /\ r \notin asked'[t] =>
           r \notin asked[t] \/ SettledBy(queue', pending', t, r, Len(queue')) \/ spent'["failure"] > 0,
         \A t \in Turns : Active(t) /\ turns'[t] \notin Open =>
           Harmless(t) \/ (Codex /\ turns'[t] \in {"failed", "gone"})
  PROVE  (Fresh /\ Submits /\ Raised /\ Settled /\ Told /\ Resting)'
<1>1. /\ Types /\ Fresh /\ Submits /\ Raised /\ Settled /\ Told /\ Resting
      /\ queue \in Seq(Jobs)
  BY DEF IInv, Types, QueueTypes
<1> DEFINE e == <<>>
<1>2. e \in Seq(Jobs) /\ Len(e) = 0 /\ Speech(e)
  BY DEF Speech
<1> HIDE DEF e
<1>3. Follows(queue, queue', 1, e)
  <2>1. queue' = Tail(queue) \o e
    BY DEF Done, e
  <2> QED BY <1>1, <1>2, <2>1, DoneFollows
<1>4. Grows
  BY <1>1 DEF Grows
<1>5. \A t \in Turns : (Active(t)' <=> Active(t)) /\ (Past(t)' => Past(t)) /\ (Harmless(t)' <=> Harmless(t))
  BY DEF Active, Past, Harmless, Codex
<1>6. Fresh'
  BY <1>1, <1>2, <1>3, FreshKeeps DEF Fresh
<1>7. Submits'
  <2>1. \A i \in 1 .. Len(queue) : queue[i].kind = "submit" => queue[i].turn \in Turns /\ turns'[queue[i].turn] = "none"
    BY <1>1 DEF Submits, Types, QueueTypes, JobShape, Lifecycle
  <2> QED BY <1>1, <1>2, <1>3, <2>1, SubmitsKeep
<1>8. Raised'
  BY <1>1, <1>2, <1>3, <1>4, RaisedKeeps
<1>9. Settled'
  <2>1. CASE spent'["failure"] > 0
    <3>1. spent'["failure"] # 0
      BY <2>1 DEF Types, HostTypes, Disturbances
    <3> QED BY <3>1 DEF Settled
  <2>2. CASE ~(spent'["failure"] > 0)
    BY <2>2, <1>1, <1>2, <1>3, <1>4, SettledKeeps
  <2> QED BY <2>1, <2>2
<1>10. Told'
  <2>1. CASE spent'["failure"] > 0
    BY <2>1 DEF Told, Excused
  <2>2. CASE ~(spent'["failure"] > 0)
    <3>1. \A t \in Turns : turns'[t] \in Open /\ Past(t)' =>
            \/ turns[t] \in Open /\ Past(t) /\ ~(1 = 1 /\ EndsAt(queue, pending, t, 1))
            \/ Excused(t)'
      BY <2>2, <1>5
    <3> QED BY <2>2, <1>1, <1>2, <1>3, <1>4, <3>1, ToldKeeps
  <2> QED BY <2>1, <2>2
<1>11. Resting'
  <2>1. \A t \in Turns : Active(t)' /\ turns'[t] \notin Open =>
          Harmless(t)' \/ (Codex' /\ turns'[t] \in {"failed", "gone"})
    BY <1>5 DEF Codex
  <2>2. \A i \in 1 .. Len(e) : FALSE
    BY <1>2
  <2>3. \A t \in Turns : Active(t)' /\ t \in reported' => Harmless(t)'
    BY <1>1, <1>5 DEF Resting
  <2> QED BY <1>1, <1>2, <1>3, <1>5, <2>1, <2>2, <2>3, RestingKeeps
<1> QED BY <1>6, <1>7, <1>8, <1>9, <1>10, <1>11

\* The gate stays drained only while no Turn is open.
LEMMA GatedStays ==
  ASSUME Gated, turns' = turns, started' = started,
         gate'.at \in {"drained", "closed"} => gate.at \in {"drained", "closed"}
  PROVE  Gated'
BY DEF Gated

-----------------------------------------------------------------------------
(* What an Agent says *)

\* The types of the Host, when its chat does not change.
LEMMA ChatTypes ==
  ASSUME HostTypes, UNCHANGED <<chatVars, started>>,
         gate' \in [by : {"none", "package", "shutdown"},
                    at : {"open", "cancel", "drain", "drained", "closed"}, turn : Turns \cup {NoTurn}],
         spent' \in [Disturbances -> Nat]
  PROVE  HostTypes'
BY DEF HostTypes, chatVars

\* What the Agent says keeps the types of the queue.
LEMMA SpeechTypes ==
  ASSUME QueueTypes, NEW e, Speech(e), queue' = queue \o e
  PROVE  QueueTypes'
<1>1. Follows(queue, queue', 0, e)
  BY EmitFollows DEF QueueTypes, Speech
<1> QED BY <1>1, TypesFollow DEF QueueTypes, Speech

\* To say nothing.
LEMMA NothingIsSpeech == Speech(<<>>) /\ Len(<<>>) = 0
BY DEF Speech

\* One word about the end of a Turn.
LEMMA EndIsSpeech ==
  ASSUME NEW t \in Turns, NEW outcome \in Terminal, NEW data \in BOOLEAN
  PROVE  /\ Ended(t, outcome, data) \in Jobs /\ IsEnd(Ended(t, outcome, data), t)
         /\ Ended(t, outcome, data).about = outcome /\ Ended(t, outcome, data).data = data
         /\ Ended(t, outcome, data).turn = t /\ Ended(t, outcome, data).kind = "terminal"
         /\ Speech(<<Ended(t, outcome, data)>>)
<1>1. Ended(t, outcome, data) = [kind |-> "terminal", turn |-> t, about |-> outcome, data |-> data]
  BY DEF Ended, Job
<1>2. Ended(t, outcome, data) \in Jobs
  <2>1. [kind |-> "terminal", turn |-> t, about |-> outcome, data |-> data] \in Jobs
    BY DEF Jobs, Kinds
  <2> QED BY <1>1, <2>1
<1>3. JobShape(Ended(t, outcome, data))
  BY <1>1 DEF JobShape
<1>4. Speech(<<Ended(t, outcome, data)>>)
  BY <1>1, <1>2, <1>3 DEF Speech
<1> QED BY <1>1, <1>2, <1>4 DEF IsEnd

\* The library's sequence of a finite set has each element of it.
LEMMA Enumerates ==
  ASSUME NEW S, IsFiniteSet(S), NEW s, s = SetToSeq(S)
  PROVE  /\ s \in Seq(S) /\ Len(s) = Cardinality(S) /\ Len(s) \in Nat
         /\ \A i \in 1 .. Len(s) : s[i] \in S
         /\ \A x \in S : \E i \in 1 .. Len(s) : s[i] = x
<1> DEFINE n == Cardinality(S)
<1>1. n \in Nat /\ ExistsBijection(1 .. n, S)
  BY FS_CardinalityType
<1>2. PICK f \in Bijection(1 .. n, S) : TRUE
  BY <1>1 DEF ExistsBijection
<1>3. f \in [1 .. n -> S] /\ IsInjective(f)
  BY <1>2 DEF Bijection, Injection
<1>4. s \in [1 .. n -> S] /\ IsInjective(s)
  BY <1>3 DEF SetToSeq
<1>5. IsFiniteSet(1 .. n) /\ Cardinality(1 .. n) = n
  BY <1>1, FS_Interval
<1>6. s \in Injection(1 .. n, S)
  BY <1>4 DEF Injection
<1>7. s \in Surjection(1 .. n, S)
  BY <1>1, <1>5, <1>6, FS_Injection
<1>8. \A x \in S : \E i \in 1 .. n : s[i] = x
  BY <1>7 DEF Surjection
<1> HIDE DEF n
<1>9. s \in Seq(S) /\ Len(s) = n
  BY <1>1, <1>4
<1> QED BY <1>1, <1>4, <1>8, <1>9 DEF n

\* The answer to an interaction.
LEMMA AnswerIs ==
  ASSUME NEW t \in Turns, NEW r \in Requests
  PROVE  /\ Answered(t, r) \in Jobs /\ JobShape(Answered(t, r)) /\ IsAnswered(Answered(t, r), t, r)
         /\ Answered(t, r).turn = t /\ Answered(t, r).kind = "answered"
<1> DEFINE x == [kind |-> "answered", turn |-> t, about |-> r, data |-> FALSE]
<1>1. Answered(t, r) = x
  BY DEF Answered, Job
<1>2. x.kind = "answered" /\ x.turn = t /\ x.about = r
  OBVIOUS
<1>3. x \in Jobs
  BY DEF Jobs, Kinds
<1> HIDE DEF x
<1> QED BY <1>1, <1>2, <1>3 DEF JobShape, IsAnswered

\* What an Agent answers to the interactions of a Turn when it gives them up.
LEMMA CompletionsAre ==
  ASSUME Types, NEW t \in Turns
  PROVE  /\ Speech(Completions(t))
         /\ \A i \in 1 .. Len(Completions(t)) :
              Completions(t)[i].turn = t /\ Completions(t)[i].kind = "answered"
         /\ \A r \in asked[t] : \E i \in 1 .. Len(Completions(t)) : IsAnswered(Completions(t)[i], t, r)
<1> DEFINE S == {Answered(t, r) : r \in asked[t]}
           f == [r \in asked[t] |-> Answered(t, r)]
           c == Completions(t)
<1>1. asked[t] \subseteq Requests
  BY DEF Types, AgentTypes
<1>2. IsFiniteSet(asked[t])
  BY <1>1, FiniteAssumption, FS_Subset
<1>3. f \in Surjection(asked[t], S)
  BY DEF Surjection
<1>4. IsFiniteSet(S)
  <2> HIDE DEF f, S
  <2> QED BY <1>2, <1>3, FS_Surjection
<1>5. c = SetToSeq(S)
  BY DEF Completions
<1>6. \A x \in S : x \in Jobs /\ JobShape(x) /\ x.turn = t /\ x.kind = "answered"
  BY <1>1, AnswerIs
<1>7. \A r \in asked[t] : Answered(t, r) \in S /\ IsAnswered(Answered(t, r), t, r)
  BY <1>1, AnswerIs
<1> HIDE DEF S, c
<1>8. /\ c \in Seq(S) /\ Len(c) \in Nat /\ \A i \in 1 .. Len(c) : c[i] \in S
      /\ \A x \in S : \E i \in 1 .. Len(c) : c[i] = x
  BY <1>4, <1>5, Enumerates
<1>9. c \in Seq(Jobs)
  BY <1>6, <1>8
<1>10. Speech(c)
  BY <1>6, <1>8, <1>9 DEF Speech
<1>11. \A r \in asked[t] : \E i \in 1 .. Len(c) : IsAnswered(c[i], t, r)
  BY <1>7, <1>8
<1> QED BY <1>6, <1>8, <1>10, <1>11 DEF c

\* Two speeches, one after the other.
LEMMA SpeechesJoin ==
  ASSUME NEW a, NEW b, Speech(a), Speech(b)
  PROVE  /\ Speech(a \o b) /\ Len(a \o b) = Len(a) + Len(b) /\ Len(a) \in Nat /\ Len(b) \in Nat
         /\ \A i \in 1 .. Len(a) : i \in 1 .. Len(a \o b) /\ (a \o b)[i] = a[i]
         /\ \A i \in 1 .. Len(b) : Len(a) + i \in 1 .. Len(a \o b) /\ (a \o b)[Len(a) + i] = b[i]
         /\ \A i \in 1 .. Len(a \o b) :
              \/ i \in 1 .. Len(a) /\ (a \o b)[i] = a[i]
              \/ i - Len(a) \in 1 .. Len(b) /\ (a \o b)[i] = b[i - Len(a)]
<1>1. a \in Seq(Jobs) /\ b \in Seq(Jobs)
  BY DEF Speech
<1>2. /\ a \o b \in Seq(Jobs) /\ Len(a \o b) = Len(a) + Len(b) /\ Len(a) \in Nat /\ Len(b) \in Nat
  BY <1>1
<1>3. \A i \in 1 .. Len(a) : i \in 1 .. Len(a \o b) /\ (a \o b)[i] = a[i]
  BY <1>1
<1>4. \A i \in 1 .. Len(b) : Len(a) + i \in 1 .. Len(a \o b) /\ (a \o b)[Len(a) + i] = b[i]
  BY <1>1
<1>5. \A i \in 1 .. Len(a \o b) :
        \/ i \in 1 .. Len(a) /\ (a \o b)[i] = a[i]
        \/ i - Len(a) \in 1 .. Len(b) /\ (a \o b)[i] = b[i - Len(a)]
  BY <1>1
<1>6. Speech(a \o b)
  BY <1>2, <1>5 DEF Speech
<1> QED BY <1>2, <1>3, <1>4, <1>5, <1>6

\* A Turn is told when its end is said after what closes its interactions.
LEMMA JoinTells ==
  ASSUME NEW a, NEW b, Speech(a), Speech(b), NEW t, NEW open, NEW i \in 1 .. Len(b),
         IsEnd(b[i], t), b[i].data => b[i].about = "failed",
         \A r \in open : \E k \in 1 .. Len(a) : IsAnswered(a[k], t, r)
  PROVE  Tells(a \o b, t, open)
<1>1. /\ Len(a) + i \in 1 .. Len(a \o b) /\ (a \o b)[Len(a) + i] = b[i]
      /\ \A k \in 1 .. Len(a) : (a \o b)[k] = a[k]
      /\ Len(a) \in Nat /\ Len(b) \in Nat
  BY SpeechesJoin
<1>2. \A r \in open : \E k \in 1 .. Len(a) + i - 1 : IsAnswered((a \o b)[k], t, r)
  <2> SUFFICES ASSUME NEW r \in open PROVE \E k \in 1 .. Len(a) + i - 1 : IsAnswered((a \o b)[k], t, r)
    OBVIOUS
  <2>1. PICK k \in 1 .. Len(a) : IsAnswered(a[k], t, r)
    OBVIOUS
  <2>2. k \in 1 .. Len(a) + i - 1 /\ (a \o b)[k] = a[k]
    BY <1>1
  <2> QED BY <2>1, <2>2
<1> QED BY <1>1, <1>2 DEF Tells

\* What was told at the first place of a sequence.
LEMMA EndTells ==
  ASSUME NEW t \in Turns, NEW outcome \in Terminal, NEW data \in BOOLEAN, data => outcome = "failed"
  PROVE  Tells(<<Ended(t, outcome, data)>>, t, {})
<1> DEFINE b == <<Ended(t, outcome, data)>>
<1>1. 1 \in 1 .. Len(b) /\ b[1] = Ended(t, outcome, data)
  OBVIOUS
<1> HIDE DEF b
<1>2. IsEnd(b[1], t) /\ (b[1].data => b[1].about = "failed")
  <2>1. /\ IsEnd(Ended(t, outcome, data), t)
        /\ Ended(t, outcome, data).data = data /\ Ended(t, outcome, data).about = outcome
    BY EndIsSpeech
  <2>2. Ended(t, outcome, data).data => Ended(t, outcome, data).about = "failed"
    BY <2>1
  <2> QED BY <1>1, <2>1, <2>2
<1>3. Tells(b, t, {})
  BY <1>1, <1>2 DEF Tells
<1> QED BY <1>3 DEF b

\* The report of a Turn: nothing when it has been reported, its end otherwise.
LEMMA ReportIs ==
  ASSUME NEW t \in Turns, NEW outcome \in Terminal, NEW data \in BOOLEAN, NEW e, e = Report(t, outcome, data)
  PROVE  /\ Speech(e)
         /\ \A i \in 1 .. Len(e) : IsEnd(e[i], t) /\ e[i].about = outcome /\ e[i].turn = t
         /\ t \notin reported => 1 \in 1 .. Len(e)
<1>1. CASE t \in reported
  <2>1. e = <<>>
    BY <1>1 DEF Report
  <2> QED BY <2>1, <1>1, NothingIsSpeech
<1>2. CASE t \notin reported
  <2>1. e = <<Ended(t, outcome, data)>>
    BY <1>2 DEF Report
  <2>2. Len(e) = 1 /\ e[1] = Ended(t, outcome, data)
    BY <2>1
  <2>3. \A i \in 1 .. Len(e) : e[i] = Ended(t, outcome, data)
    BY <2>2
  <2> QED BY <2>1, <2>2, <2>3, EndIsSpeech
<1> QED BY <1>1, <1>2

\* A report of a Turn without open interactions tells its end, or it was told.
LEMMA ReportTells ==
  ASSUME NEW t \in Turns, NEW outcome \in Terminal, NEW data \in BOOLEAN, NEW e, e = Report(t, outcome, data),
         data => outcome = "failed", asked[t] = {}
  PROVE  t \in reported \/ Tells(e, t, asked[t])
BY EndTells DEF Report

-----------------------------------------------------------------------------
(* The steps of Codex *)

\* The send of t ends in its catch and finally blocks.
Fails(t, of) == run' = [run EXCEPT ![t] = Caught(t)] /\ byThread' = Finally(of)

\* A continuation of the send of t: it goes on, or it ends, and then the Turn has
\* been told, or is told now, or is excused.
LEMMA SendStepKeeps ==
  ASSUME IInv, Types', Sends', Asking', NEW t \in Turns, Active(t), turns[t] # "none",
         NEW outcome \in Terminal, NEW data \in BOOLEAN, data => outcome = "failed",
         NEW e, e = <<>> \/ e = Report(t, outcome, data), queue' = queue \o e,
         UNCHANGED <<chatVars, started, agent, cancelled, used, completion, asked, native>>,
         spent["failure"] <= spent'["failure"],
         gate'.at \in {"drained", "closed"} => gate.at \in {"drained", "closed"},
         \A u \in Turns : known[u] # NoTurn => known'[u] = known[u],
         \A u \in Turns \ {t} : /\ run'[u] = run[u] /\ (u \in reported' <=> u \in reported)
                                /\ mine'[u] = mine[u]
                                /\ \A v \in Turns : byThread'[v] = u => byThread[v] = u,
         Deaf(t)' => Deaf(t),
         e # <<>> => ~Active(t)', Active(t)' /\ t \in reported' => t \in reported,
         Past(t)' => Past(t) \/ (e = Report(t, outcome, data) /\ asked[t] = {}) \/ Excused(t)'
  PROVE  IInv'
<1>1. Speech(e) /\ \A i \in 1 .. Len(e) : IsEnd(e[i], t) /\ e[i].turn = t
  <2>1. CASE e = <<>>
    BY <2>1, NothingIsSpeech
  <2>2. CASE e = Report(t, outcome, data)
    BY <2>2, ReportIs
  <2> QED BY <2>1, <2>2
<1>2. Types /\ Fresh
  BY DEF IInv
<1>3. Grows
  BY DEF Grows, Active
<1>4. \A u \in Turns : /\ Active(u)' => Active(u)
                       /\ completion[u] # "open" => completion'[u] # "open"
                       /\ Active(u)' /\ u \in reported' => u \in reported \/ Harmless(u)'
  BY DEF Active
<1>5. \A u \in Turns : turns[u] = "none" =>
        run'[u] = "none" /\ completion'[u] = "open" /\ u \notin cancelled' \cup reported'
  BY <1>2 DEF Fresh
<1>6. \A u \in Turns : turns[u] \in Open /\ Past(u)' => Past(u) \/ Tells(e, u, asked[u]) \/ Excused(u)'
  <2> SUFFICES ASSUME NEW u \in Turns, turns[u] \in Open, Past(u)'
               PROVE  Past(u) \/ Tells(e, u, asked[u]) \/ Excused(u)'
    OBVIOUS
  <2>1. CASE u = t
    BY <2>1, ReportTells DEF Past
  <2>2. CASE u # t
    BY <2>2 DEF Past, Active, Codex
  <2> QED BY <2>1, <2>2
<1>7. \A u \in Turns, i \in 1 .. Len(e) : ~(IsEnd(e[i], u) /\ Active(u)')
  <2> SUFFICES ASSUME NEW u \in Turns, NEW i \in 1 .. Len(e), IsEnd(e[i], u), Active(u)' PROVE FALSE
    OBVIOUS
  <2>1. u = t /\ e # <<>>
    BY <1>1, NothingIsSpeech DEF IsEnd
  <2> QED BY <2>1
<1>8. Gated'
  BY GatedStays DEF IInv, chatVars
<1>9. /\ (HeldWhileOpen /\ Fresh /\ Submits /\ Raised)'
      /\ (Settled /\ Told /\ Resting)'
  <2>1. Speech(e) /\ queue' = queue \o e /\ UNCHANGED chatVars
    BY <1>1
  <2>2. \A i \in 1 .. Len(e) : turns[e[i].turn] # "none"
    BY <1>1
  <2>3. \A u \in Turns, r \in Requests : turns[u] \in Open /\ r \in asked[u] /\ r \notin asked'[u] =>
          \E i \in 1 .. Len(e) : IsAnswered(e[i], u, r)
    OBVIOUS
  <2>4. \A u \in Turns, i \in 1 .. Len(e) : IsEnd(e[i], u) /\ Active(u)' =>
          Harmless(u)' \/ (Codex' /\ e[i].about = "failed")
    BY <1>7
  <2> QED BY <2>1, <2>2, <2>3, <2>4, <1>3, <1>4, <1>5, <1>6, <1>8, EmitKeeps
<1>10. Awaited'
  <2>1. \A u \in Turns \ {t} : Deaf(u)' => Deaf(u)
    <3> SUFFICES ASSUME NEW u \in Turns \ {t}, Deaf(u)' PROVE Deaf(u)
      OBVIOUS
    <3>1. turns[u] \in Open
      BY DEF Deaf, chatVars
    <3> QED BY <3>1, DeafBefore
  <2> QED BY <2>1, AwaitedKeeps DEF IInv, Types
<1> QED BY <1>8, <1>9, <1>10 DEF IInv

\* The parts of the invariant that the steps of an Agent start from.
LEMMA PartsOf ==
  ASSUME IInv
  PROVE  /\ Types /\ HostTypes /\ QueueTypes /\ AgentTypes
         /\ HeldWhileOpen /\ Sends /\ Asking /\ Awaited /\ Fresh /\ Submits /\ Raised
         /\ Settled /\ Told /\ Resting /\ Gated
BY DEF IInv, Types

\* A Turn that runs, or that its Agent has cancelled or reported, was submitted.
LEMMA NotFresh ==
  ASSUME IInv, NEW t \in Turns, run[t] # "none" \/ t \in cancelled \cup reported
  PROVE  turns[t] # "none"
BY PartsOf DEF Fresh

\* The credential arrives, is refused, or the cancelled send ends without it.
LEMMA ResolveKeeps ==
  ASSUME IInv, NEW t \in Turns, Resolve(t)
  PROVE  IInv'
<1>1. Types /\ HostTypes /\ QueueTypes /\ AgentTypes /\ Sends /\ Asking
  BY PartsOf
<1>2. Codex /\ run[t] = "credential" /\ Active(t) /\ turns[t] # "none" /\ asked[t] = {}
  BY <1>1, NotFresh DEF Resolve, Active, Sends, Asking
<1>3. /\ UNCHANGED <<chatVars, started, gate, spent, agent, cancelled, used, completion, asked, known, native>>
      /\ \/ /\ t \notin cancelled /\ run' = [run EXCEPT ![t] = "thread"]
            /\ queue' = queue \o <<>> /\ UNCHANGED <<byThread, reported>>
         \/ /\ t \in cancelled /\ EndSend(t, thread)
            /\ queue' = queue \o <<>> /\ UNCHANGED reported
         \/ /\ Fails(t, thread) /\ reported' = reported \cup {t}
            /\ queue' = queue \o Report(t, "failed", TRUE)
  BY DEF Resolve, Emit, FailSend, Fails
<1>4. PICK e : /\ queue' = queue \o e
               /\ \/ /\ t \notin cancelled /\ run' = [run EXCEPT ![t] = "thread"]
                     /\ e = <<>> /\ UNCHANGED <<byThread, reported>>
                  \/ /\ t \in cancelled /\ EndSend(t, thread)
                     /\ e = <<>> /\ UNCHANGED reported
                  \/ /\ Fails(t, thread) /\ reported' = reported \cup {t}
                     /\ e = Report(t, "failed", TRUE)
  BY <1>3
<1>5. "failed" \in Terminal /\ TRUE \in BOOLEAN
  BY DEF Terminal
<1>6. Speech(e)
  BY <1>4, <1>5, ReportIs, NothingIsSpeech
<1>7. /\ run' \in [Turns -> {"none", "credential", "thread", "starting", "native", "interrupting",
                             "loop", "over", "failed"}]
      /\ run'[t] \in {"thread", "over", "failed"} /\ \A u \in Turns \ {t} : run'[u] = run[u]
      /\ reported' \subseteq Turns /\ \A u \in Turns \ {t} : u \in reported' <=> u \in reported
      /\ run'[t] = "thread" => UNCHANGED reported
      /\ byThread' \in [Turns -> Turns \cup {NoTurn}]
      /\ \A u \in Turns : byThread'[u] \in {byThread[u], NoTurn}
      /\ e # <<>> => run'[t] \in {"over", "failed"}
  <2>1. CASE t \notin cancelled /\ run' = [run EXCEPT ![t] = "thread"] /\ e = <<>> /\ UNCHANGED <<byThread, reported>>
    BY <1>1, <2>1 DEF AgentTypes
  <2>2. CASE EndSend(t, thread) /\ UNCHANGED reported
    BY <1>1, <2>2 DEF AgentTypes, EndSend, Finally
  <2>3. CASE Fails(t, thread) /\ reported' = reported \cup {t}
    BY <1>1, <2>3 DEF AgentTypes, Fails, Caught, Finally
  <2> QED BY <1>4, <2>1, <2>2, <2>3
<1>8. Types'
  <2>1. HostTypes'
    BY <1>1, <1>3, ChatTypes DEF HostTypes
  <2>2. QueueTypes'
    BY <1>1, <1>4, <1>6, SpeechTypes
  <2>3. mine' \in [Turns -> Turns \cup {NoTurn}] /\ client' \in {"none", "connected", "failed"}
    BY <1>1 DEF Resolve, AgentTypes, Connected
  <2>4. UNCHANGED <<agent, loaded, cancelled, waiting, asked, used, thread, known, completion,
                    native, interrupt>>
    BY DEF Resolve
  <2>5. AgentTypes'
    BY <1>1, <1>7, <2>3, <2>4 DEF AgentTypes
  <2> QED BY <2>1, <2>2, <2>5 DEF Types
<1>9. Sends'
  <2>1. \A u \in Turns : known'[u] = known[u] /\ interrupt' = interrupt /\ loaded' = loaded
    BY <1>3 DEF Resolve
  <2>2. \A u \in Turns : byThread[u] # NoTurn => byThread[u] # t
    BY <1>1, <1>2 DEF Sends
  <2>3. \A u \in Turns : byThread[u] # NoTurn => byThread[u] \in Turns
    BY <1>1 DEF AgentTypes
  <2>4. /\ native' = native /\ native[t] = "none"
        /\ \A u \in Turns \ {t} : mine'[u] = mine[u]
    BY <1>1, <1>2 DEF Resolve, Sends, AgentTypes
  <2>5. \A u \in Turns :
          /\ run'[u] \in {"none", "credential", "thread"} => native'[u] = "none"
          /\ run'[u] \in {"starting", "native", "interrupting"} \/ native'[u] # "none" => mine'[u] \in Turns
    BY <1>1, <1>7, <2>4 DEF Sends
  <2>6. \A u \in Turns : byThread'[u] # NoTurn => run'[byThread'[u]] \notin {"none", "credential", "thread"}
    BY <1>1, <1>2, <1>7, <2>2, <2>3 DEF Sends
  <2>7. \A u \in Turns : AtServer(u)' => client' # "none"
    <3>1. client' \in {client, Connected} /\ (run'[t] = "thread" => client' = Connected)
      <4>1. CASE client' = Connected
        BY <4>1
      <4>2. CASE client' # Connected
        <5>1. (EndSend(t, thread) \/ FailSend(t, thread)) /\ client' = client
          BY <4>2 DEF Resolve
        <5>2. run'[t] # "thread"
          BY <1>1, <5>1 DEF EndSend, FailSend, Caught, AgentTypes
        <5> QED BY <5>1, <5>2
      <4> QED BY <4>1, <4>2
    <3> QED BY <1>1, <1>7, <3>1 DEF Sends, AtServer, Requesting, Connected
  <2>8. \A u \in Turns : run'[u] \notin {"none", "over", "failed"} => run[u] \notin {"none", "over", "failed"}
    BY <1>2, <1>7
  <2> QED BY <1>1, <1>2, <1>3, <1>7, <2>1, <2>5, <2>6, <2>7, <2>8 DEF Sends, Codex, Comet, Active
<1>10. Asking'
  BY <1>1, <1>3 DEF Asking
<1>11. Past(t)' => Past(t) \/ (e = Report(t, "failed", TRUE) /\ asked[t] = {}) \/ Excused(t)'
  <2>1. CASE t \notin cancelled /\ run' = [run EXCEPT ![t] = "thread"] /\ UNCHANGED reported
    <3>1. run'[t] = "thread"
      BY <1>1, <2>1 DEF AgentTypes
    <3> QED BY <1>2, <1>3, <2>1, <3>1 DEF Past, Active
  <2>2. CASE t \in cancelled
    BY <1>2, <2>2 DEF Past
  <2> QED BY <1>2, <1>4, <2>1, <2>2
<1>12. e # <<>> => ~Active(t)'
  BY <1>7 DEF Active
<1>13. spent["failure"] <= spent'["failure"]
  BY <1>1, <1>3 DEF HostTypes, Disturbances
<1>14. \A u \in Turns \ {t} : mine'[u] = mine[u] /\ \A v \in Turns : byThread'[v] = u => byThread[v] = u
  BY <1>1, <1>7, NoTurnAssumption DEF Resolve, AgentTypes
<1>15. ~Deaf(t)' /\ (Active(t)' => UNCHANGED reported)
  BY <1>7 DEF Deaf, Active
<1> QED BY <1>2, <1>3, <1>4, <1>5, <1>7, <1>8, <1>9, <1>10, <1>11, <1>12, <1>13, <1>14, <1>15, SendStepKeeps

\* The thread is ready, or the send ends before it asks for a native Turn.
LEMMA ThreadReadyKeeps ==
  ASSUME IInv, NEW t \in Turns, ThreadReady(t)
  PROVE  IInv'
<1>1. Types /\ HostTypes /\ QueueTypes /\ AgentTypes /\ Sends /\ Asking
  BY PartsOf
<1>2. Codex /\ run[t] = "thread" /\ Active(t) /\ turns[t] # "none" /\ asked[t] = {}
  BY <1>1, NotFresh DEF ThreadReady, Active, Sends, Asking
<1>3. /\ UNCHANGED <<chatVars, started, gate, spent>>
      /\ UNCHANGED <<agent, loaded, cancelled, waiting, asked, used, known, completion, native,
                     interrupt, client>>
      /\ mine' \in [Turns -> Turns \cup {NoTurn}] /\ \A u \in Turns \ {t} : mine'[u] = mine[u]
      /\ thread' \in Turns \cup {NoTurn}
  BY <1>1 DEF ThreadReady, Emit, FailSend, AgentTypes
<1>4. PICK own \in Turns : own = IF mine[t] = NoTurn THEN t ELSE mine[t]
  BY <1>1 DEF AgentTypes
<1>5. \/ /\ t \in cancelled /\ EndSend(t, thread') /\ UNCHANGED reported
         /\ queue' = queue \o <<>>
      \/ /\ \E of \in Turns \cup {NoTurn} : Fails(t, of)
         /\ reported' = reported \cup {t}
         /\ queue' = queue \o Report(t, "failed", TRUE)
      \/ /\ t \notin cancelled /\ run' = [run EXCEPT ![t] = "starting"]
         /\ byThread' = [byThread EXCEPT ![own] = t] /\ UNCHANGED reported
         /\ mine' = [mine EXCEPT ![t] = own]
         /\ queue' = queue \o <<>>
  <2>1. CASE FailSend(t, thread) \/ FailSend(t, thread')
    <3>1. \E of \in Turns \cup {NoTurn} : FailSend(t, of)
      BY <1>1, <1>3, <2>1 DEF AgentTypes
    <3> QED BY <3>1 DEF FailSend, Fails, Emit
  <2>2. CASE ~(FailSend(t, thread) \/ FailSend(t, thread'))
    BY <1>4, <2>2 DEF ThreadReady, Emit
  <2> QED BY <2>1, <2>2
<1>6. PICK e : /\ queue' = queue \o e
               /\ \/ /\ t \in cancelled /\ EndSend(t, thread') /\ UNCHANGED reported /\ e = <<>>
                  \/ /\ \E of \in Turns \cup {NoTurn} : Fails(t, of)
                     /\ reported' = reported \cup {t} /\ e = Report(t, "failed", TRUE)
                  \/ /\ t \notin cancelled /\ run' = [run EXCEPT ![t] = "starting"]
                     /\ byThread' = [byThread EXCEPT ![own] = t] /\ UNCHANGED reported
                     /\ mine' = [mine EXCEPT ![t] = own] /\ e = <<>>
  BY <1>5
<1>7. "failed" \in Terminal /\ TRUE \in BOOLEAN
  BY DEF Terminal
<1>8. Speech(e)
  BY <1>6, <1>7, ReportIs, NothingIsSpeech
<1>9. /\ run' \in [Turns -> {"none", "credential", "thread", "starting", "native", "interrupting",
                             "loop", "over", "failed"}]
      /\ run'[t] \in {"starting", "over", "failed"} /\ \A u \in Turns \ {t} : run'[u] = run[u]
      /\ reported' \subseteq Turns /\ \A u \in Turns \ {t} : u \in reported' <=> u \in reported
      /\ byThread' \in [Turns -> Turns \cup {NoTurn}]
      /\ \A u \in Turns : byThread'[u] \in {byThread[u], t, NoTurn}
      /\ run'[t] = "starting" => mine'[t] \in Turns /\ UNCHANGED reported
      /\ e # <<>> => run'[t] \in {"over", "failed"}
  <2>1. CASE EndSend(t, thread') /\ UNCHANGED reported
    BY <1>1, <1>3, <2>1 DEF AgentTypes, EndSend, Finally
  <2>2. CASE (\E of \in Turns \cup {NoTurn} : Fails(t, of)) /\ reported' = reported \cup {t}
    BY <1>1, <2>2 DEF AgentTypes, Fails, Caught, Finally
  <2>3. CASE run' = [run EXCEPT ![t] = "starting"] /\ byThread' = [byThread EXCEPT ![own] = t]
             /\ UNCHANGED reported /\ e = <<>> /\ mine' = [mine EXCEPT ![t] = own]
    BY <1>1, <2>3 DEF AgentTypes
  <2> QED BY <1>6, <2>1, <2>2, <2>3
<1>10. \A u \in Turns : byThread[u] # NoTurn =>
         byThread[u] \in Turns /\ run[byThread[u]] \notin {"none", "credential", "thread"}
  BY <1>1 DEF Sends, AgentTypes
<1>11. Types'
  <2>1. HostTypes'
    BY <1>1, <1>3, ChatTypes DEF HostTypes
  <2>2. QueueTypes'
    BY <1>1, <1>6, <1>8, SpeechTypes
  <2>3. AgentTypes'
    BY <1>1, <1>3, <1>9 DEF AgentTypes
  <2> QED BY <2>1, <2>2, <2>3 DEF Types
<1>12. Sends'
  <2>1. \A u \in Turns : byThread'[u] # NoTurn => run'[byThread'[u]] \notin {"none", "credential", "thread"}
    BY <1>2, <1>9, <1>10
  <2>2. \A u \in Turns :
          /\ run'[u] \in {"none", "credential", "thread"} => native'[u] = "none"
          /\ run'[u] \in {"starting", "native", "interrupting"} \/ native'[u] # "none" => mine'[u] \in Turns
    BY <1>1, <1>2, <1>3, <1>9 DEF Sends, AgentTypes
  <2>3. \A u \in Turns : AtServer(u)' => client' # "none"
    BY <1>1, <1>2, <1>3, <1>9 DEF Sends, AtServer, Requesting
  <2> QED BY <1>1, <1>2, <1>3, <1>9, <2>1, <2>2, <2>3 DEF Sends, Codex, Comet, Active
<1>13. Asking'
  BY <1>1, <1>3 DEF Asking
<1>14. Past(t)' => Past(t) \/ (e = Report(t, "failed", TRUE) /\ asked[t] = {}) \/ Excused(t)'
  <2>1. CASE t \notin cancelled /\ run' = [run EXCEPT ![t] = "starting"] /\ UNCHANGED reported
    <3>1. run'[t] = "starting"
      BY <1>1, <2>1 DEF AgentTypes
    <3> QED BY <1>2, <1>3, <2>1, <3>1 DEF Past, Active
  <2>2. CASE t \in cancelled
    BY <1>2, <2>2 DEF Past
  <2> QED BY <1>2, <1>6, <2>1, <2>2
<1>15. (e # <<>> => ~Active(t)') /\ (Active(t)' => UNCHANGED reported)
  BY <1>9 DEF Active
<1>16. spent["failure"] <= spent'["failure"]
  BY <1>1, <1>3 DEF HostTypes, Disturbances
<1>17. ~Deaf(t)'
  BY <1>1, <1>2, <1>3, <1>9 DEF Deaf, Sends
<1>18. \A u \in Turns \ {t} : \A v \in Turns : byThread'[v] = u => byThread[v] = u
  BY <1>9, NoTurnAssumption
<1> QED BY <1>2, <1>3, <1>6, <1>7, <1>9, <1>11, <1>12, <1>13, <1>14, <1>15, <1>16, <1>17, <1>18, SendStepKeeps

\* What a native Turn has asked for is what its Turn has pending, so that one
\* with pending interactions that is cancelled, or whose send failed, is excused.
LEMMA AskedExcuses ==
  ASSUME AgentTypes, Asking, NEW t \in Turns, asked[t] # {}, t \in cancelled \/ run[t] = "failed"
  PROVE  Excused(t)
<1>1. known[t] # NoTurn /\ asked[t] \subseteq used[known[t]]
  BY DEF Asking
<1> QED BY <1>1 DEF Excused, HasAsked

\* The send learns which native Turn it has, and awaits its completion.
LEMMA StartedKeeps ==
  ASSUME IInv, NEW t \in Turns, Started(t)
  PROVE  IInv'
<1>1. Types /\ HostTypes /\ QueueTypes /\ AgentTypes /\ Sends /\ Asking
  BY PartsOf
<1>2. Codex /\ run[t] = "starting" /\ Active(t) /\ turns[t] # "none"
  BY <1>1, NotFresh DEF Started, Active
<1>3. /\ UNCHANGED <<chatVars, started, gate, spent>>
      /\ UNCHANGED <<agent, loaded, cancelled, waiting, asked, used, thread, mine, completion, native,
                     client>>
      /\ known' \in {known, IF known[t] = NoTurn THEN [known EXCEPT ![t] = t] ELSE known}
  BY DEF Started, Emit, FailSend
<1>4. \/ /\ Fails(t, thread) /\ reported' = reported \cup {t} /\ UNCHANGED interrupt
         /\ queue' = queue \o Report(t, "failed", TRUE)
      \/ /\ t \in cancelled \/ completion[t] # "open"
         /\ EndSend(t, thread) /\ UNCHANGED <<interrupt, reported>> /\ queue' = queue \o <<>>
         /\ t \in cancelled => interrupt[t] = "answered"
      \/ /\ t \notin cancelled => known'[t] = t
         /\ run' = [run EXCEPT ![t] = IF t \in cancelled THEN "interrupting" ELSE "native"]
         /\ interrupt' = IF t \in cancelled THEN [interrupt EXCEPT ![t] = "asked"] ELSE interrupt
         /\ UNCHANGED <<byThread, reported>> /\ queue' = queue \o <<>>
  BY Zenon DEF Started, Emit, FailSend, Fails
<1>5. PICK e :
        /\ queue' = queue \o e
        /\ \/ /\ Fails(t, thread) /\ reported' = reported \cup {t} /\ UNCHANGED interrupt
              /\ e = Report(t, "failed", TRUE)
           \/ /\ t \in cancelled \/ completion[t] # "open"
              /\ EndSend(t, thread) /\ UNCHANGED <<interrupt, reported>> /\ e = <<>>
              /\ t \in cancelled => interrupt[t] = "answered"
           \/ /\ t \notin cancelled => known'[t] = t
              /\ run' = [run EXCEPT ![t] = IF t \in cancelled THEN "interrupting" ELSE "native"]
              /\ interrupt' = IF t \in cancelled THEN [interrupt EXCEPT ![t] = "asked"] ELSE interrupt
              /\ UNCHANGED <<byThread, reported>> /\ e = <<>>
  BY <1>4
<1>6. "failed" \in Terminal /\ TRUE \in BOOLEAN
  BY DEF Terminal
<1>7. Speech(e)
  BY <1>5, <1>6, ReportIs, NothingIsSpeech
<1>8. /\ known' \in [Turns -> Turns \cup {NoTurn}]
      /\ \A u \in Turns : known[u] # NoTurn => known'[u] = known[u]
      /\ \A u \in Turns \ {t} : known'[u] = known[u]
      /\ known'[t] = t => known[t] \in {NoTurn, t}
  BY <1>1, <1>3, NoTurnAssumption DEF AgentTypes
<1>9. /\ run' \in [Turns -> {"none", "credential", "thread", "starting", "native", "interrupting",
                             "loop", "over", "failed"}]
      /\ run'[t] \in {"native", "interrupting", "over", "failed"} /\ \A u \in Turns \ {t} : run'[u] = run[u]
      /\ run'[t] = "interrupting" => t \in cancelled
      /\ run'[t] = "native" => known'[t] = t
      /\ run'[t] \in {"native", "interrupting"} => UNCHANGED <<byThread, reported>>
      /\ reported' \subseteq Turns /\ \A u \in Turns \ {t} : u \in reported' <=> u \in reported
      /\ byThread' \in [Turns -> Turns \cup {NoTurn}]
      /\ \A u \in Turns : byThread'[u] \in {byThread[u], NoTurn}
      /\ interrupt' \in [Turns -> {"none", "asked", "answered", "refused"}]
      /\ \A u \in Turns : interrupt'[u] # interrupt[u] => u = t /\ t \in cancelled /\ interrupt'[u] = "asked"
      /\ e # <<>> => run'[t] \in {"over", "failed"}
  <2>1. CASE /\ e = <<>> /\ run' = [run EXCEPT ![t] = IF t \in cancelled THEN "interrupting" ELSE "native"]
             /\ interrupt' = (IF t \in cancelled THEN [interrupt EXCEPT ![t] = "asked"] ELSE interrupt)
             /\ UNCHANGED <<byThread, reported>> /\ (t \notin cancelled => known'[t] = t)
    BY <1>1, <2>1 DEF AgentTypes
  <2>2. CASE Fails(t, thread) /\ reported' = reported \cup {t} /\ UNCHANGED interrupt
    BY <1>1, <2>2 DEF AgentTypes, Fails, Caught, Finally
  <2>3. CASE EndSend(t, thread) /\ UNCHANGED <<interrupt, reported>> /\ e = <<>>
    BY <1>1, <2>3 DEF AgentTypes, EndSend, Finally
  <2> QED BY <1>5, <2>1, <2>2, <2>3
<1>10. Types'
  <2>1. HostTypes'
    BY <1>1, <1>3, ChatTypes DEF HostTypes
  <2>2. QueueTypes'
    BY <1>1, <1>5, <1>7, SpeechTypes
  <2>3. AgentTypes'
    BY <1>1, <1>3, <1>8, <1>9 DEF AgentTypes
  <2> QED BY <2>1, <2>2, <2>3 DEF Types
<1>11. Sends'
  <2>1. \A u \in Turns : byThread[u] # NoTurn =>
          byThread[u] \in Turns /\ run[byThread[u]] \notin {"none", "credential", "thread"}
    BY <1>1 DEF Sends, AgentTypes
  <2>2. \A u \in Turns : byThread'[u] # NoTurn => run'[byThread'[u]] \notin {"none", "credential", "thread"}
    BY <1>2, <1>9, <2>1
  <2>3. \A u \in Turns : AtServer(u)' => client' # "none"
    BY <1>1, <1>2, <1>3, <1>9 DEF Sends, AtServer, Requesting
  <2>4. \A u \in Turns :
          /\ run'[u] \in {"none", "credential", "thread"} => native'[u] = "none"
          /\ run'[u] \in {"starting", "native", "interrupting"} \/ native'[u] # "none" => mine'[u] \in Turns
    BY <1>1, <1>2, <1>3, <1>9 DEF Sends
  <2>5. \A u \in Turns : interrupt'[u] = "answered" => completion'[u] # "open"
    BY <1>1, <1>3, <1>9 DEF Sends
  <2>6. \A u \in Turns : known'[u] # NoTurn => Codex' /\ run'[u] \notin {"none", "credential", "thread"}
    BY <1>1, <1>2, <1>3, <1>8, <1>9 DEF Sends, Codex
  <2> QED BY <1>1, <1>2, <1>3, <1>8, <1>9, <2>2, <2>3, <2>4, <2>5, <2>6 DEF Sends, Codex, Comet, Active
<1>12. Asking'
  BY <1>1, <1>3, <1>8 DEF Asking
<1>13. Past(t)' => Past(t) \/ (e = Report(t, "failed", TRUE) /\ asked[t] = {}) \/ Excused(t)'
  <2> SUFFICES ASSUME Past(t)', ~Past(t) PROVE (e = Report(t, "failed", TRUE) /\ asked[t] = {}) \/ Excused(t)'
    OBVIOUS
  <2>1. completion[t] = "open" /\ t \notin reported
    BY <1>2 DEF Past
  <2>2. CASE run'[t] \in {"native", "interrupting"} /\ UNCHANGED reported
    BY <1>3, <2>1, <2>2 DEF Past, Active
  <2>3. CASE Fails(t, thread) /\ e = Report(t, "failed", TRUE)
    <3>1. CASE asked[t] # {}
      <4>1. run'[t] = "failed" /\ asked'[t] # {} /\ AgentTypes'
        BY <1>1, <1>3, <1>10, <2>1, <2>3, <3>1 DEF Types, AgentTypes, Fails, Caught
      <4>2. known'[t] # NoTurn /\ asked'[t] \subseteq used'[known'[t]]
        BY <1>12, <4>1 DEF Asking
      <4> QED BY <4>1, <4>2 DEF Excused, HasAsked
    <3> QED BY <2>3, <3>1
  <2>4. CASE (t \in cancelled \/ completion[t] # "open") /\ (t \in cancelled => interrupt[t] = "answered")
    BY <1>1, <2>1, <2>4 DEF Sends
  <2> QED BY <1>1, <1>5, <1>9, <2>2, <2>3, <2>4 DEF AgentTypes
<1>14. (e # <<>> => ~Active(t)') /\ (Active(t)' => UNCHANGED reported)
  BY <1>9 DEF Active
<1>15. spent["failure"] <= spent'["failure"]
  BY <1>1, <1>3 DEF HostTypes, Disturbances
<1>16. Deaf(t)' => Deaf(t)
  BY <1>2, <1>3, <1>8, <1>9 DEF Deaf, chatVars
<1>17. \A u \in Turns \ {t} : mine'[u] = mine[u] /\ \A v \in Turns : byThread'[v] = u => byThread[v] = u
  BY <1>3, <1>9, NoTurnAssumption
<1>18. queue' = queue \o e /\ (e = <<>> \/ e = Report(t, "failed", TRUE))
  BY <1>5
<1> QED BY <1>2, <1>3, <1>6, <1>8, <1>9, <1>10, <1>11, <1>12, <1>13, <1>14, <1>15, <1>16, <1>17, <1>18, SendStepKeeps

\* Only what an Agent knows of native Turns changes, or the gate opens.
LEMMA QuietKeeps ==
  ASSUME IInv, Types', Sends', Asking', Awaited', UNCHANGED <<chatVars, queue>>,
         UNCHANGED <<agent, run, cancelled, reported, completion, asked, used>>,
         \A u \in Turns : known[u] # NoTurn => known'[u] = known[u],
         spent["failure"] <= spent'["failure"], Gated'
  PROVE  IInv'
<1>1. Types /\ QueueTypes /\ Fresh
  BY PartsOf
<1>2. PICK e : e = <<>>
  OBVIOUS
<1>3. Speech(e) /\ Len(e) = 0 /\ queue' = queue \o e
  BY <1>1, <1>2, NothingIsSpeech DEF QueueTypes
<1>4. Grows
  BY DEF Grows
<1>5. \A u \in Turns : (Active(u)' <=> Active(u)) /\ (Past(u)' <=> Past(u))
  BY DEF Active, Past, Codex
<1>6. \A u \in Turns : turns[u] = "none" =>
        run'[u] = "none" /\ completion'[u] = "open" /\ u \notin cancelled' \cup reported'
  BY <1>1 DEF Fresh
<1>7. \A i \in 1 .. Len(e) : FALSE
  BY <1>3
<1>8. /\ (HeldWhileOpen /\ Fresh /\ Submits /\ Raised)'
      /\ (Settled /\ Told /\ Resting)'
  BY <1>3, <1>4, <1>5, <1>6, <1>7, EmitKeeps
<1> QED BY <1>8 DEF IInv

\* One job that tells no end joins the queue.
LEMMA JoinKeeps ==
  ASSUME IInv, Types', NEW job \in Jobs, queue' = Append(queue, job), job.kind # "terminal",
         UNCHANGED <<chatVars, started, agent, run, cancelled, reported, completion, known>>,
         \A t \in Turns : used[t] \subseteq used'[t],
         spent["failure"] <= spent'["failure"],
         gate'.at \in {"drained", "closed"} => gate.at \in {"drained", "closed"},
         \A t \in Turns, r \in Requests : r \notin asked'[t] => r \notin asked[t] /\ ~IsRequested(job, t, r),
         job.kind = "submit" => turns[job.turn] = "none" /\ \A i \in 1 .. Len(queue) : queue[i].kind # "submit",
         \A t \in Turns : job.turn = t /\ turns[t] = "none" => job.kind = "submit",
         \A t \in Turns, r \in Requests : IsRequested(job, t, r) =>
           /\ known[t] # NoTurn /\ r \in used'[known[t]] /\ r \notin pending[t] \cup closed[t]
           /\ \A i \in 1 .. Len(queue) : ~IsRequested(queue[i], t, r)
  PROVE  /\ (HeldWhileOpen /\ Fresh /\ Submits /\ Raised)'
         /\ (Settled /\ Told /\ Resting /\ Gated)'
<1>1. /\ Types /\ HeldWhileOpen /\ Fresh /\ Submits /\ Raised /\ Settled /\ Told /\ Resting /\ Gated
      /\ queue \in Seq(Jobs)
  BY DEF IInv, Types, QueueTypes
<1>2. /\ turns' = turns /\ pending' = pending /\ closed' = closed
      /\ anchors' = anchors /\ bindings' = bindings
  BY DEF chatVars
<1> DEFINE e == <<job>>
<1>3. Len(e) = 1 /\ e[1] = job /\ Follows(queue, queue', 0, e)
  BY <1>1, AppendFollows
<1> HIDE DEF e
<1>4. \A i \in 1 .. Len(queue') : \/ i \in 1 .. Len(queue) /\ queue'[i] = queue[i]
                                  \/ i = Len(queue) + 1 /\ queue'[i] = job
  <2> SUFFICES ASSUME NEW i \in 1 .. Len(queue')
               PROVE  \/ i \in 1 .. Len(queue) /\ queue'[i] = queue[i]
                      \/ i = Len(queue) + 1 /\ queue'[i] = job
    OBVIOUS
  <2>1. Len(queue') = Len(queue) + 1 /\ Len(queue) \in Nat
    BY <1>1
  <2>2. CASE i \in 1 .. Len(queue)
    BY <1>1, <2>2
  <2>3. CASE i = Len(queue) + 1
    BY <1>1, <2>3
  <2> QED BY <2>1, <2>2, <2>3
<1>5. Grows
  BY <1>1 DEF Grows
<1>6. Gated' /\ HeldWhileOpen'
  BY <1>1, <1>2, GatedStays DEF HeldWhileOpen
<1>7. Fresh'
  BY <1>1, <1>2, <1>4 DEF Fresh
<1>8. Submits'
  BY <1>1, <1>2, <1>4 DEF Submits
<1>9. Raised'
  <2>1. ASSUME NEW t \in Turns, NEW r \in Requests, known[t] # NoTurn, r \in used[known[t]] PROVE r \in used'[known[t]]
    BY <2>1, <1>1 DEF Types, AgentTypes
  <2> SUFFICES ASSUME NEW t \in Turns, NEW r \in Requests
               PROVE  /\ r \in pending[t] \cup closed[t] => known[t] # NoTurn /\ r \in used'[known[t]]
                      /\ \A i \in 1 .. Len(queue') : IsRequested(queue'[i], t, r) =>
                           /\ known[t] # NoTurn /\ r \in used'[known[t]]
                           /\ r \notin pending[t] \cup closed[t]
                           /\ \A j \in 1 .. Len(queue') : IsRequested(queue'[j], t, r) => i = j
    BY <1>2 DEF Raised, IsRequested
  <2>2. r \in pending[t] \cup closed[t] => known[t] # NoTurn /\ r \in used'[known[t]]
    BY <1>1, <2>1 DEF Raised
  <2> SUFFICES ASSUME NEW i \in 1 .. Len(queue'), IsRequested(queue'[i], t, r)
               PROVE  /\ known[t] # NoTurn /\ r \in used'[known[t]]
                      /\ r \notin pending[t] \cup closed[t]
                      /\ \A j \in 1 .. Len(queue') : IsRequested(queue'[j], t, r) => i = j
    BY <2>2
  <2>3. CASE IsRequested(job, t, r)
    BY <1>4, <2>3
  <2>4. CASE ~IsRequested(job, t, r)
    <3>1. \A j \in 1 .. Len(queue') : IsRequested(queue'[j], t, r) =>
            j \in 1 .. Len(queue) /\ IsRequested(queue[j], t, r)
      BY <1>4, <2>4
    <3> QED BY <3>1, <1>1, <2>1 DEF Raised
  <2> QED BY <2>3, <2>4
<1>10. \A t \in Turns, r \in Requests : r \in pending'[t] => r \in pending[t] /\ ~(0 = 1 /\ IsAnswered(queue[1], t, r))
  BY <1>2
<1>11. Settled'
  <2> SUFFICES ASSUME spent'["failure"] = 0, NEW t \in Turns, NEW r \in Requests,
                      turns'[t] \in Open, r \notin asked'[t]
               PROVE  SettledBy(queue', pending', t, r, Len(queue'))
    BY DEF Settled, SettledBy, OpenedBy, ClosedBy, IsRequested, IsAnswered
  <2>1. spent["failure"] = 0
    BY <1>1 DEF Types, HostTypes, Disturbances
  <2>2. SettledBy(queue, pending, t, r, Len(queue))
    BY <1>1, <1>2, <2>1 DEF Settled
  <2>3. 1 \in 0 .. Len(e) /\ Len(queue') = Len(queue) - 0 + 1
    BY <1>1, <1>3
  <2>4. \A i \in 1 .. 1 : ~IsRequested(e[i], t, r)
    BY <1>3
  <2>5. SettledBy(queue', pending', t, r, Len(queue) - 0 + 1)
    BY <1>3, <1>10, <2>2, <2>3, <2>4, SaidSettles
  <2> QED BY <2>3, <2>5
<1>12. Told'
  <2> SUFFICES ASSUME NEW t \in Turns, turns'[t] \in Open, Past(t)', ~Excused(t)'
               PROVE  Ends(queue', pending', t)
    BY DEF Told, Ends, EndsAt, SettledBy, OpenedBy, ClosedBy, IsEnd, IsRequested, IsAnswered
  <2>1. ~Excused(t) /\ Past(t)
    BY <1>1, <1>5, ExcusedStays DEF Past, Active, Codex
  <2>2. PICK n \in 1 .. Len(queue) : EndsAt(queue, pending, t, n)
    BY <1>1, <1>2, <2>1 DEF Told, Ends
  <2>3. n > 0
    OBVIOUS
  <2> QED BY <1>3, <1>10, <2>2, <2>3, EndFollows
<1>13. Resting'
  BY <1>1, <1>2, <1>4 DEF Resting, Active, Harmless, Codex
<1> QED BY <1>6, <1>7, <1>8, <1>9, <1>11, <1>12, <1>13

\* The Turn that what t's native Turn says is taken for.
LEMMA AddressedRuns ==
  ASSUME IInv, NEW t \in Turns, native[t] # "none", NEW u, u = Addressed(t), u # NoTurn
  PROVE  /\ u \in Turns /\ run[u] \notin {"none", "credential", "thread"}
         /\ turns[u] # "none" /\ u = byThread[mine[t]] /\ mine[t] \in Turns
<1>1. mine[t] \in Turns /\ u = byThread[mine[t]]
  BY PartsOf DEF Sends, Addressed
<1>2. u \in Turns /\ run[u] \notin {"none", "credential", "thread"}
  BY <1>1, PartsOf DEF AgentTypes, Sends
<1>3. turns[u] # "none"
  BY <1>2, PartsOf DEF Fresh
<1> QED BY <1>1, <1>2, <1>3

\* A native Turn asks for an interaction.
LEMMA NativeRequestsKeeps ==
  ASSUME IInv, NEW t \in Turns, NEW r \in Requests, NativeRequests(t, r)
  PROVE  IInv'
<1>1. Types /\ HostTypes /\ QueueTypes /\ AgentTypes /\ Sends /\ Asking /\ Raised
  BY PartsOf
<1>2. PICK u : u = Addressed(t)
  OBVIOUS
<1>3. /\ Codex /\ native[t] = "running" /\ r \notin used[t] /\ u # NoTurn /\ known[u] = t
      /\ asked' = [asked EXCEPT ![u] = @ \cup {r}] /\ used' = [used EXCEPT ![t] = @ \cup {r}]
      /\ queue' = queue \o <<Requested(u, r)>> /\ UNCHANGED <<chatVars, started, gate, spent>>
      /\ UNCHANGED <<agent, loaded, run, cancelled, reported, waiting, thread, mine, byThread, known,
                     completion, native, interrupt, client>>
  BY <1>2 DEF NativeRequests, Emit
<1>4. u \in Turns /\ turns[u] # "none"
  BY <1>2, <1>3, AddressedRuns
<1> DEFINE x == [kind |-> "requested", turn |-> u, about |-> r, data |-> FALSE]
<1>5. Requested(u, r) = x
  BY DEF Requested, Job
<1>6. x.kind = "requested" /\ x.turn = u /\ x.about = r
  OBVIOUS
<1>7. x \in Jobs
  BY <1>4 DEF Jobs, Kinds
<1> HIDE DEF x
<1>8. queue' = Append(queue, x)
  BY <1>1, <1>3, <1>5, <1>7 DEF QueueTypes
<1>9. JobShape(x)
  BY <1>4, <1>6 DEF JobShape
<1>10. /\ asked' \in [Turns -> SUBSET Requests] /\ used' \in [Turns -> SUBSET Requests]
       /\ asked'[u] = asked[u] \cup {r} /\ used'[t] = used[t] \cup {r}
       /\ \A v \in Turns : (v # u => asked'[v] = asked[v]) /\ (v # t => used'[v] = used[v])
  BY <1>1, <1>3, <1>4 DEF AgentTypes
<1>11. Types'
  <2>1. HostTypes'
    BY <1>1, <1>3, ChatTypes DEF HostTypes
  <2>2. QueueTypes'
    <3>1. queue' \in Seq(Jobs)
      BY <1>1, <1>7, <1>8 DEF QueueTypes
    <3>2. \A i \in 1 .. Len(queue') : queue'[i] = x \/ (i \in 1 .. Len(queue) /\ queue'[i] = queue[i])
      BY <1>1, <1>7, <1>8 DEF QueueTypes
    <3>3. \A i \in 1 .. Len(queue') : JobShape(queue'[i])
      BY <1>1, <1>9, <3>2 DEF QueueTypes
    <3> QED BY <3>1, <3>3 DEF QueueTypes, JobShape
  <2>3. AgentTypes'
    BY <1>1, <1>3, <1>10 DEF AgentTypes
  <2> QED BY <2>1, <2>2, <2>3 DEF Types
<1>12. Sends'
  BY <1>1, <1>3 DEF Sends, Codex, Comet, Active, AtServer, Requesting
<1>13. Asking'
  <2>1. \A v \in Turns : used[v] \subseteq used'[v]
    BY <1>10
  <2>2. \A v \in Turns : known[v] # NoTurn => known[v] \in Turns
    BY <1>1 DEF AgentTypes
  <2> QED BY <1>1, <1>3, <1>4, <1>10, <2>1, <2>2, NoTurnAssumption DEF Asking
<1>14. \A v \in Turns, s \in Requests : IsRequested(x, v, s) => v = u /\ s = r
  BY <1>6 DEF IsRequested
<1>15. /\ r \notin pending[u] \cup closed[u]
       /\ \A i \in 1 .. Len(queue) : ~IsRequested(queue[i], u, r)
  BY <1>1, <1>3, <1>4 DEF Raised
<1>16. spent["failure"] <= spent'["failure"]
  BY <1>1, <1>3 DEF HostTypes, Disturbances
<1>17. \A v \in Turns, s \in Requests : s \notin asked'[v] => s \notin asked[v] /\ ~IsRequested(x, v, s)
  BY <1>10, <1>14
<1>18. known[u] # NoTurn /\ r \in used'[known[u]] /\ \A v \in Turns : used[v] \subseteq used'[v]
  BY <1>3, <1>10, NoTurnAssumption
<1>19. x.kind # "terminal" /\ x.kind # "submit" /\ \A v \in Turns : x.turn = v /\ turns[v] = "none" => FALSE
  BY <1>4, <1>6
<1>20. /\ (HeldWhileOpen /\ Fresh /\ Submits /\ Raised)'
       /\ (Settled /\ Told /\ Resting /\ Gated)'
  BY <1>3, <1>7, <1>8, <1>11, <1>14, <1>15, <1>16, <1>17, <1>18, <1>19, JoinKeeps
<1>21. Awaited'
  BY <1>3, <1>11, <1>16, StillAwaited DEF Deaf, chatVars
<1> QED BY <1>11, <1>12, <1>13, <1>20, <1>21 DEF IInv

-----------------------------------------------------------------------------
(* What an Agent says in several words *)

\* The sequence a is a part of c, at some offset.
Within(a, c) ==
  \E o \in Nat : \A i \in 1 .. Len(a) : o + i \in 1 .. Len(c) /\ c[o + i] = a[i]

\* What a part tells, the whole tells.
LEMMA WithinTells ==
  ASSUME NEW a \in Seq(Jobs), NEW c \in Seq(Jobs), Within(a, c), NEW t, NEW open, Tells(a, t, open)
  PROVE  Tells(c, t, open)
<1>1. PICK o \in Nat : \A i \in 1 .. Len(a) : o + i \in 1 .. Len(c) /\ c[o + i] = a[i]
  BY DEF Within
<1>2. PICK m \in 1 .. Len(a) :
        /\ IsEnd(a[m], t) /\ (a[m].data => a[m].about = "failed")
        /\ \A r \in open : \E k \in 1 .. m - 1 : IsAnswered(a[k], t, r)
  BY DEF Tells
<1>3. PICK n : n = o + m
  OBVIOUS
<1>4. n \in 1 .. Len(c) /\ IsEnd(c[n], t) /\ (c[n].data => c[n].about = "failed")
  BY <1>1, <1>2, <1>3
<1>5. \A r \in open : \E k \in 1 .. n - 1 : IsAnswered(c[k], t, r)
  <2> SUFFICES ASSUME NEW r \in open PROVE \E k \in 1 .. n - 1 : IsAnswered(c[k], t, r)
    OBVIOUS
  <2>1. PICK k \in 1 .. m - 1 : IsAnswered(a[k], t, r)
    BY <1>2
  <2>2. k \in 1 .. Len(a) /\ o + k \in 1 .. n - 1
    BY <1>3
  <2>3. c[o + k] = a[k]
    BY <1>1, <2>2
  <2> QED BY <2>1, <2>2, <2>3
<1> QED BY <1>4, <1>5 DEF Tells

\* The parts of a concatenation.
LEMMA JoinWithin ==
  ASSUME NEW a, NEW b, Speech(a), Speech(b)
  PROVE  Within(a, a \o b) /\ Within(b, a \o b)
<1>1. Within(a, a \o b)
  <2>1. \A i \in 1 .. Len(a) : 0 + i \in 1 .. Len(a \o b) /\ (a \o b)[0 + i] = a[i]
    BY SpeechesJoin
  <2> QED BY <2>1 DEF Within
<1>2. Within(b, a \o b)
  <2>1. Len(a) \in Nat /\ \A i \in 1 .. Len(b) : Len(a) + i \in 1 .. Len(a \o b) /\ (a \o b)[Len(a) + i] = b[i]
    BY SpeechesJoin
  <2> QED BY <2>1 DEF Within
<1> QED BY <1>1, <1>2

\* The one word that tells the end of a Turn.
LEMMA EndSaid ==
  ASSUME NEW t \in Turns, NEW outcome \in Terminal, NEW data \in BOOLEAN, data => outcome = "failed",
         NEW e, e = <<Ended(t, outcome, data)>>
  PROVE  /\ Speech(e) /\ Len(e) = 1
         /\ \A i \in 1 .. Len(e) :
              /\ IsEnd(e[i], t) /\ e[i].about = outcome /\ e[i].turn = t
              /\ e[i].data => e[i].about = "failed"
<1>1. Len(e) = 1 /\ e[1] = Ended(t, outcome, data)
  OBVIOUS
<1>2. \A i \in 1 .. Len(e) : e[i] = Ended(t, outcome, data)
  BY <1>1
<1>3. Ended(t, outcome, data).data => Ended(t, outcome, data).about = "failed"
  BY EndIsSpeech
<1> QED BY <1>1, <1>2, <1>3, EndIsSpeech

\* The report of a Turn with the outcome of its native Turn: only a failure has data.
LEMMA OutcomeSaid ==
  ASSUME NEW t \in Turns, NEW outcome \in Terminal, NEW e, e = Report(t, outcome, outcome = "failed")
  PROVE  /\ Speech(e)
         /\ \A i \in 1 .. Len(e) :
              /\ IsEnd(e[i], t) /\ e[i].about = outcome /\ e[i].turn = t
              /\ e[i].data => e[i].about = "failed"
         /\ t \notin reported => 1 \in 1 .. Len(e)
<1>1. CASE t \in reported
  <2>1. e = <<>>
    BY <1>1 DEF Report
  <2> QED BY <2>1, <1>1, NothingIsSpeech
<1>2. CASE t \notin reported
  <2>1. (outcome = "failed") = TRUE \/ (outcome = "failed") = FALSE
    OBVIOUS
  <2>2. (outcome = "failed" /\ e = <<Ended(t, outcome, TRUE)>>) \/ e = <<Ended(t, outcome, FALSE)>>
    BY <1>2, <2>1 DEF Report
  <2>3. PICK data \in BOOLEAN : (data => outcome = "failed") /\ e = <<Ended(t, outcome, data)>>
    BY <2>2, Zenon
  <2>4. /\ Speech(e) /\ Len(e) = 1
        /\ \A i \in 1 .. Len(e) :
             /\ IsEnd(e[i], t) /\ e[i].about = outcome /\ e[i].turn = t
             /\ e[i].data => e[i].about = "failed"
    BY <2>3, EndSaid
  <2> QED BY <2>4
<1> QED BY <1>1, <1>2

-----------------------------------------------------------------------------
(* The app-server *)

\* A native Turn ends, and its end is reported to the Turn it is known by.
LEMMA NativeEndsKeeps ==
  ASSUME IInv, NEW t \in Turns, NEW outcome \in Terminal, NativeEnds(t, outcome)
  PROVE  IInv'
<1>1. Types /\ HostTypes /\ QueueTypes /\ AgentTypes /\ Sends /\ Asking /\ Gated
  BY PartsOf
<1>2. PICK u : u = Addressed(t)
  OBVIOUS
<1>3. /\ Codex /\ native[t] # "none" /\ native' = [native EXCEPT ![t] = "ended"]
      /\ UNCHANGED <<chatVars, started, gate, spent>>
      /\ UNCHANGED <<agent, loaded, cancelled, waiting, used, thread, mine, known, interrupt, client>>
  BY DEF NativeEnds, Emit
<1>4. /\ native' \in [Turns -> {"none", "running", "aborted", "ended"}]
      /\ \A v \in Turns : native'[v] = "none" <=> native[v] = "none"
  BY <1>1, <1>3 DEF AgentTypes
<1>5. spent["failure"] <= spent'["failure"]
  BY <1>1, <1>3 DEF HostTypes, Disturbances
<1>6. Gated'
  BY <1>1, <1>3, GatedStays DEF chatVars
<1>9. \A v \in Turns : Deaf(v)' =>
        /\ turns[v] \in Open /\ (native[v] = "ended" \/ v = t)
        /\ mine'[v] = mine[v] /\ known'[v] = known[v] /\ known[v] \in {NoTurn, v}
        /\ v \notin reported' /\ byThread'[mine[v]] = v /\ mine[v] \in Turns
  BY <1>1, <1>3 DEF Deaf, chatVars, AgentTypes, Sends
<1>7. CASE u = NoTurn
  <2>1. UNCHANGED <<asked, reported, completion, run, byThread, queue>>
    BY <1>1, <1>2, <1>7 DEF NativeEnds, Emit, QueueTypes
  <2>2. Types'
    <3>1. HostTypes' /\ QueueTypes'
      BY <1>1, <1>3, <2>1, ChatTypes DEF HostTypes, QueueTypes
    <3>2. AgentTypes'
      BY <1>1, <1>3, <1>4, <2>1 DEF AgentTypes
    <3> QED BY <3>1, <3>2 DEF Types
  <2>3. Sends' /\ Asking'
    BY <1>1, <1>3, <1>4, <2>1 DEF Sends, Asking, Codex, Comet, Active, AtServer, Requesting
  <2>4. Awaited'
    <3>1. \A v \in Turns : Deaf(v)' => v # t
      BY <1>2, <1>7, <1>9, <2>1, NoTurnAssumption DEF Addressed
    <3> QED BY <1>5, <1>9, <2>1, <2>2, <3>1, StillAwaited
  <2> QED BY <1>3, <1>5, <1>6, <2>1, <2>2, <2>3, <2>4, QuietKeeps
<1>8. CASE u # NoTurn
  <2>1. u \in Turns /\ run[u] \notin {"none", "credential", "thread"} /\ turns[u] # "none"
    BY <1>2, <1>3, <1>8, AddressedRuns
  <2>2. /\ asked' = [asked EXCEPT ![u] = {}] /\ reported' = reported \cup {u}
        /\ completion' = [completion EXCEPT ![u] = "resolved"]
        /\ queue' = queue \o (Completions(u) \o Report(u, outcome, outcome = "failed"))
        /\ IF run[u] = "native" THEN EndSend(u, thread) ELSE UNCHANGED <<run, byThread>>
    BY <1>2, <1>8 DEF NativeEnds, Emit
  <2>3. PICK a : a = Completions(u)
    OBVIOUS
  <2>4. PICK b : b = Report(u, outcome, outcome = "failed")
    OBVIOUS
  <2>5. /\ Speech(b)
        /\ \A i \in 1 .. Len(b) :
             /\ IsEnd(b[i], u) /\ b[i].turn = u
             /\ b[i].data => b[i].about = "failed"
        /\ u \notin reported => 1 \in 1 .. Len(b)
    <3>1. u \in Turns
      BY <2>1
    <3>2. /\ Speech(b)
          /\ \A i \in 1 .. Len(b) :
               /\ IsEnd(b[i], u) /\ b[i].about = outcome /\ b[i].turn = u
               /\ b[i].data => b[i].about = "failed"
          /\ u \notin reported => 1 \in 1 .. Len(b)
      BY <2>4, <3>1, OutcomeSaid
    <3> QED BY <3>2
  <2>6. /\ Speech(a) /\ \A i \in 1 .. Len(a) : a[i].turn = u /\ a[i].kind = "answered"
        /\ \A r \in asked[u] : \E i \in 1 .. Len(a) : IsAnswered(a[i], u, r)
    BY <1>1, <2>1, <2>3, CompletionsAre
  <2>7. PICK e : e = a \o b
    OBVIOUS
  <2>8. queue' = queue \o e
    BY <2>2, <2>3, <2>4, <2>7
  <2>9. /\ Speech(e) /\ \A i \in 1 .. Len(e) : e[i].turn = u
        /\ \A r \in asked[u] : \E i \in 1 .. Len(e) : IsAnswered(e[i], u, r)
    <3>1. Speech(e) /\ \A i \in 1 .. Len(a) : i \in 1 .. Len(e) /\ e[i] = a[i]
      BY <2>5, <2>6, <2>7, SpeechesJoin
    <3>2. \A i \in 1 .. Len(e) : \/ i \in 1 .. Len(a) /\ e[i] = a[i]
                                 \/ i - Len(a) \in 1 .. Len(b) /\ e[i] = b[i - Len(a)]
      BY <2>5, <2>6, <2>7, SpeechesJoin
    <3> QED BY <2>5, <2>6, <3>1, <3>2
  <2>10. u \in reported \/ Tells(e, u, asked[u])
    <3> SUFFICES ASSUME u \notin reported PROVE Tells(e, u, asked[u])
      OBVIOUS
    <3>1. 1 \in 1 .. Len(b) /\ IsEnd(b[1], u) /\ (b[1].data => b[1].about = "failed")
      BY <2>5
    <3> QED BY <2>5, <2>6, <2>7, <3>1, JoinTells
  <2>11. /\ run' \in [Turns -> {"none", "credential", "thread", "starting", "native", "interrupting",
                                "loop", "over", "failed"}]
         /\ run'[u] \in {run[u], "over"} /\ \A v \in Turns \ {u} : run'[v] = run[v]
         /\ byThread' \in [Turns -> Turns \cup {NoTurn}]
         /\ \A v \in Turns : byThread'[v] \in {byThread[v], NoTurn}
         /\ asked' \in [Turns -> SUBSET Requests] /\ asked'[u] = {} /\ \A v \in Turns \ {u} : asked'[v] = asked[v]
         /\ completion' \in [Turns -> {"open", "resolved", "rejected"}] /\ completion'[u] = "resolved"
         /\ \A v \in Turns \ {u} : completion'[v] = completion[v]
         /\ reported' \subseteq Turns
    BY <1>1, <2>1, <2>2 DEF AgentTypes, EndSend, Finally
  <2>12. Types'
    <3>1. HostTypes'
      BY <1>1, <1>3, ChatTypes DEF HostTypes
    <3>2. QueueTypes'
      BY <1>1, <2>8, <2>9, SpeechTypes
    <3>3. AgentTypes'
      BY <1>1, <1>3, <1>4, <2>11 DEF AgentTypes
    <3> QED BY <3>1, <3>2, <3>3 DEF Types
  <2>13. Sends'
    <3>1. \A v \in Turns : byThread'[v] # NoTurn => run'[byThread'[v]] \notin {"none", "credential", "thread"}
      <4>1. \A v \in Turns : byThread[v] # NoTurn => byThread[v] \in Turns
        BY <1>1 DEF AgentTypes
      <4> QED BY <1>1, <2>1, <2>11, <4>1 DEF Sends
    <3>2. \A v \in Turns :
            /\ run'[v] \in {"none", "credential", "thread"} => native'[v] = "none"
            /\ run'[v] \in {"starting", "native", "interrupting"} \/ native'[v] # "none" => mine'[v] \in Turns
      BY <1>1, <1>3, <1>4, <2>1, <2>11 DEF Sends
    <3> QED BY <1>1, <1>3, <2>1, <2>11, <3>1, <3>2 DEF Sends, Codex, Comet, Active, AtServer, Requesting
  <2>14. Asking'
    BY <1>1, <1>3, <2>1, <2>11 DEF Asking
  <2>15. Grows
    BY <1>3, <1>5, <2>2, <2>11 DEF Grows, EndSend
  <2>16. \A v \in Turns : /\ Active(v)' => Active(v)
                          /\ completion[v] # "open" => completion'[v] # "open"
                          /\ Active(v)' /\ v \in reported' => v \in reported \/ Harmless(v)'
    BY <1>3, <2>1, <2>2, <2>11 DEF Active, Harmless, Codex
  <2>17. \A v \in Turns : turns[v] = "none" =>
           run'[v] = "none" /\ completion'[v] = "open" /\ v \notin cancelled' \cup reported'
    BY <1>3, <2>1, <2>2, <2>11, PartsOf DEF Fresh
  <2>18. \A v \in Turns : turns[v] \in Open /\ Past(v)' => Past(v) \/ Tells(e, v, asked[v]) \/ Excused(v)'
    <3> SUFFICES ASSUME NEW v \in Turns, Past(v)' PROVE Past(v) \/ Tells(e, v, asked[v])
      OBVIOUS
    <3>1. CASE v = u
      BY <2>10, <3>1 DEF Past
    <3>2. CASE v # u
      BY <1>3, <2>2, <2>11, <3>2 DEF Past, Active, Codex
    <3> QED BY <3>1, <3>2
  <2>19. \A v \in Turns, i \in 1 .. Len(e) : IsEnd(e[i], v) /\ Active(v)' =>
           Harmless(v)' \/ (Codex' /\ e[i].about = "failed")
    BY <1>3, <2>9, <2>11 DEF IsEnd, Harmless, Codex
  <2>20. \A v \in Turns, r \in Requests : turns[v] \in Open /\ r \in asked[v] /\ r \notin asked'[v] =>
           \E i \in 1 .. Len(e) : IsAnswered(e[i], v, r)
    BY <2>9, <2>11
  <2>21. \A i \in 1 .. Len(e) : turns[e[i].turn] # "none"
    BY <2>1, <2>9
  <2>22. /\ (HeldWhileOpen /\ Fresh /\ Submits /\ Raised)'
         /\ (Settled /\ Told /\ Resting)'
    BY <1>3, <1>6, <2>8, <2>9, <2>12, <2>15, <2>16, <2>17, <2>18, <2>19, <2>20, <2>21, EmitKeeps
  <2>23. Awaited'
    <3>1. \A v \in Turns : Deaf(v)' => v # u /\ byThread[mine[v]] = v
      BY <1>9, <2>2, <2>11, NoTurnAssumption
    <3>2. \A v \in Turns : Deaf(v)' => v # t
      BY <1>2, <1>9, <3>1, NoTurnAssumption DEF Addressed
    <3>3. \A v, w \in Turns : byThread'[w] = v => byThread[w] = v
      BY <2>11, NoTurnAssumption
    <3> QED BY <1>5, <1>9, <2>2, <2>11, <2>12, <3>1, <3>2, <3>3, StillAwaited
  <2> QED BY <1>6, <2>12, <2>13, <2>14, <2>22, <2>23 DEF IInv
<1> QED BY <1>7, <1>8

\* The two reports that are not the app-server's: a failure and a cancellation.
Failure(t) == Report(t, "failed", TRUE)
Cancellation(t) == Report(t, "cancelled", FALSE)

\* A failure is the end of a Turn that was not reported yet.
LEMMA FailureSaid ==
  ASSUME NEW t \in Turns, NEW e, e = Failure(t)
  PROVE  /\ Speech(e)
         /\ \A i \in 1 .. Len(e) : IsEnd(e[i], t) /\ e[i].turn = t /\ e[i].about = "failed"
         /\ t \notin reported => 1 \in 1 .. Len(e)
<1>1. PICK outcome \in Terminal : outcome = "failed"
  BY DEF Terminal
<1>2. CASE e = <<>>
  <2>1. ASSUME t \notin reported PROVE FALSE
    <3>1. PICK data \in BOOLEAN : e = <<Ended(t, outcome, data)>>
      BY <1>1, <2>1, Zenon DEF Failure, Report
    <3>2. Len(e) = 1
      BY <3>1
    <3> QED BY <1>2, <3>2
  <2> QED BY <1>2, <2>1, NothingIsSpeech
<1>3. CASE e # <<>>
  <2>1. PICK data \in BOOLEAN : (data => outcome = "failed") /\ e = <<Ended(t, outcome, data)>>
    BY <1>1, <1>3, Zenon DEF Failure, Report
  <2>2. Speech(e) /\ Len(e) = 1 /\ \A i \in 1 .. Len(e) : IsEnd(e[i], t) /\ e[i].about = outcome /\ e[i].turn = t
    BY <2>1, EndSaid
  <2> QED BY <1>1, <2>2
<1> QED BY <1>2, <1>3

\* So is a cancellation, which Codex reports without data.
LEMMA CancellationSaid ==
  ASSUME NEW t \in Turns, NEW e, e = Cancellation(t)
  PROVE  /\ Speech(e)
         /\ \A i \in 1 .. Len(e) :
              /\ IsEnd(e[i], t) /\ e[i].turn = t
              /\ e[i].data => e[i].about = "failed"
         /\ t \notin reported => 1 \in 1 .. Len(e)
<1>1. PICK outcome \in Terminal : outcome = "cancelled"
  BY DEF Terminal
<1>2. CASE e = <<>>
  <2>1. ASSUME t \notin reported PROVE FALSE
    <3>1. PICK data \in BOOLEAN : e = <<Ended(t, outcome, data)>>
      BY <1>1, <2>1, Zenon DEF Cancellation, Report
    <3>2. Len(e) = 1
      BY <3>1
    <3> QED BY <1>2, <3>2
  <2> QED BY <1>2, <2>1, NothingIsSpeech
<1>3. CASE e # <<>>
  <2>1. PICK data \in BOOLEAN : (data => outcome = "failed") /\ e = <<Ended(t, outcome, data)>>
    BY <1>1, <1>3, Zenon DEF Cancellation, Report
  <2>2. /\ Speech(e) /\ Len(e) = 1
        /\ \A i \in 1 .. Len(e) :
             /\ IsEnd(e[i], t) /\ e[i].turn = t
             /\ e[i].data => e[i].about = "failed"
    BY <2>1, EndSaid
  <2> QED BY <1>1, <2>2
<1> QED BY <1>2, <1>3

\* What the Host says when the Agent's call rejects.
LEMMA RejectionSaid ==
  ASSUME NEW t \in Turns, NEW e, e = <<Rejected(t)>>
  PROVE  /\ Speech(e) /\ Len(e) = 1
         /\ \A i \in 1 .. Len(e) : IsEnd(e[i], t) /\ e[i].turn = t /\ e[i].about = "failed"
<1>1. \E data \in BOOLEAN : e = <<Ended(t, "failed", data)>>
  BY Zenon DEF Rejected
<1>2. PICK outcome \in Terminal : outcome = "failed"
  BY DEF Terminal
<1> QED BY <1>1, <1>2, EndSaid

\* A Turn with pending interactions that is cancelled is excused, now and later.
LEMMA CancelledExcused ==
  ASSUME IInv, Types', Grows, NEW t \in Turns, t \in cancelled, asked[t] # {}
  PROVE  Excused(t)'
BY PartsOf, AskedExcuses, ExcusedStays

\* The app-server answers an interrupt.
LEMMA InterruptAnsweredKeeps ==
  ASSUME IInv, NEW t \in Turns, InterruptAnswered(t)
  PROVE  IInv'
<1>1. Types /\ HostTypes /\ QueueTypes /\ AgentTypes /\ Sends /\ Asking /\ Gated
  BY PartsOf
<1>2. /\ Codex /\ interrupt[t] = "asked" /\ interrupt' = [interrupt EXCEPT ![t] = "answered"]
      /\ native' = [native EXCEPT ![known[t]] = IF @ = "running" THEN "aborted" ELSE @]
      /\ reported' = reported \cup {t}
      /\ completion' = [completion EXCEPT ![t] = IF @ = "open" THEN "resolved" ELSE @]
      /\ waiting' = waiting \ {t} /\ gate' = GateAnswered(t, FALSE)
      /\ UNCHANGED <<chatVars, started, spent>>
      /\ UNCHANGED <<agent, loaded, cancelled, asked, used, thread, mine, known, client>>
      /\ IF run[t] \in {"native", "interrupting"} THEN EndSend(t, thread) ELSE UNCHANGED <<run, byThread>>
  BY DEF InterruptAnswered, Emit
<1>3. PICK e : e = Report(t, "cancelled", FALSE)
  OBVIOUS
<1>4. queue' = queue \o e
  BY <1>3 DEF InterruptAnswered, Emit
<1>5. "cancelled" \in Terminal /\ FALSE \in BOOLEAN
  BY DEF Terminal
<1>6. Speech(e) /\ \A i \in 1 .. Len(e) : IsEnd(e[i], t) /\ e[i].turn = t
  <2>1. e = Cancellation(t)
    BY <1>3, Zenon DEF Cancellation
  <2> QED BY <2>1, CancellationSaid
<1>7. t \in cancelled /\ turns[t] # "none"
  BY <1>1, <1>2, NotFresh DEF Sends
<1>8. spent["failure"] <= spent'["failure"]
  BY <1>1, <1>2 DEF HostTypes, Disturbances
<1>9. Grows
  BY <1>1, <1>2, <1>8 DEF Grows, EndSend, AgentTypes
<1>10. /\ gate' \in [by : {"none", "package", "shutdown"},
                     at : {"open", "cancel", "drain", "drained", "closed"}, turn : Turns \cup {NoTurn}]
       /\ gate'.at \in {"drained", "closed"} => gate.at \in {"drained", "closed"}
  BY <1>1, <1>2 DEF GateAnswered, Held, HostTypes
<1>11. Gated'
  BY <1>1, <1>2, <1>10, GatedStays DEF chatVars
<1>12. /\ run' \in [Turns -> {"none", "credential", "thread", "starting", "native", "interrupting",
                              "loop", "over", "failed"}]
       /\ run'[t] \in {run[t], "over"} /\ (run'[t] # run[t] => run[t] \in {"native", "interrupting"})
       /\ \A v \in Turns \ {t} : run'[v] = run[v]
       /\ byThread' \in [Turns -> Turns \cup {NoTurn}]
       /\ \A v \in Turns : byThread'[v] \in {byThread[v], NoTurn}
  BY <1>1, <1>2 DEF AgentTypes, EndSend, Finally
<1>13. /\ completion' \in [Turns -> {"open", "resolved", "rejected"}] /\ completion'[t] # "open"
       /\ \A v \in Turns \ {t} : completion'[v] = completion[v]
       /\ interrupt' \in [Turns -> {"none", "asked", "answered", "refused"}]
       /\ \A v \in Turns \ {t} : interrupt'[v] = interrupt[v]
  BY <1>1, <1>2 DEF AgentTypes
<1>14. /\ native' \in [Turns -> {"none", "running", "aborted", "ended"}]
       /\ \A v \in Turns : /\ native'[v] = "none" <=> native[v] = "none"
                           /\ native'[v] = "ended" <=> native[v] = "ended"
  BY <1>1, <1>2 DEF AgentTypes
<1>15. Types'
  <2>1. HostTypes'
    BY <1>1, <1>2, <1>10, ChatTypes DEF HostTypes
  <2>2. QueueTypes'
    BY <1>1, <1>4, <1>6, SpeechTypes
  <2>3. AgentTypes'
    BY <1>1, <1>2, <1>12, <1>13, <1>14 DEF AgentTypes
  <2> QED BY <2>1, <2>2, <2>3 DEF Types
<1>16. Sends'
  <2>1. \A v \in Turns : byThread'[v] # NoTurn => run'[byThread'[v]] \notin {"none", "credential", "thread"}
    <3>1. \A v \in Turns : byThread[v] # NoTurn => byThread[v] \in Turns
      BY <1>1 DEF AgentTypes
    <3> QED BY <1>1, <1>12, <3>1 DEF Sends
  <2>2. \A v \in Turns :
          /\ run'[v] \in {"none", "credential", "thread"} => native'[v] = "none"
          /\ run'[v] \in {"starting", "native", "interrupting"} \/ native'[v] # "none" => mine'[v] \in Turns
    BY <1>1, <1>2, <1>12, <1>14 DEF Sends
  <2> QED BY <1>1, <1>2, <1>7, <1>12, <1>13, <2>1, <2>2 DEF Sends, Codex, Comet, Active, AtServer, Requesting
<1>17. Asking'
  BY <1>1, <1>2 DEF Asking
<1>18. \A v \in Turns : /\ Active(v)' => Active(v)
                        /\ completion[v] # "open" => completion'[v] # "open"
                        /\ Active(v)' /\ v \in reported' => v \in reported \/ Harmless(v)'
  BY <1>2, <1>12, <1>13 DEF Active, Harmless, Codex
<1>19. \A v \in Turns : turns[v] = "none" =>
         run'[v] = "none" /\ completion'[v] = "open" /\ v \notin cancelled' \cup reported'
  BY <1>2, <1>7, <1>12, <1>13, PartsOf DEF Fresh
<1>20. \A v \in Turns : turns[v] \in Open /\ Past(v)' => Past(v) \/ Tells(e, v, asked[v]) \/ Excused(v)'
  <2> SUFFICES ASSUME NEW v \in Turns, Past(v)' PROVE Past(v) \/ Tells(e, v, asked[v]) \/ Excused(v)'
    OBVIOUS
  <2>1. CASE v = t /\ asked[t] # {}
    BY <1>7, <1>9, <1>15, <2>1, CancelledExcused
  <2>2. CASE v = t /\ asked[t] = {}
    <3>1. t \in reported \/ Tells(e, t, asked[t])
      BY <1>3, <1>5, <2>2, ReportTells
    <3> QED BY <2>2, <3>1 DEF Past
  <2>3. CASE v # t
    BY <1>2, <1>12, <1>13, <2>3 DEF Past, Active, Codex
  <2> QED BY <2>1, <2>2, <2>3
<1>21. \A v \in Turns, i \in 1 .. Len(e) : IsEnd(e[i], v) /\ Active(v)' =>
         Harmless(v)' \/ (Codex' /\ e[i].about = "failed")
  BY <1>2, <1>6, <1>13 DEF IsEnd, Harmless, Codex
<1>22. \A i \in 1 .. Len(e) : turns[e[i].turn] # "none"
  BY <1>6, <1>7
<1>23. /\ (HeldWhileOpen /\ Fresh /\ Submits /\ Raised)'
       /\ (Settled /\ Told /\ Resting)'
  BY <1>2, <1>4, <1>6, <1>9, <1>11, <1>15, <1>18, <1>19, <1>20, <1>21, <1>22, EmitKeeps
<1>24. Awaited'
  <2>1. \A v \in Turns : Deaf(v)' => v # t
    BY <1>2 DEF Deaf
  <2>2. \A v, w \in Turns : byThread'[w] = v => byThread[w] = v
    BY <1>12, NoTurnAssumption
  <2> QED BY <1>2, <1>8, <1>12, <1>14, <1>15, <2>1, <2>2, StillAwaited DEF Deaf, chatVars
<1> QED BY <1>11, <1>15, <1>16, <1>17, <1>23, <1>24 DEF IInv

\* What is said when an interruption is refused: the end of the Turn, by its send
\* and by the Host whose call of cancelTurn rejects.
LEMMA RefusalSaid ==
  ASSUME NEW t \in Turns, NEW a, NEW b, a = <<>> \/ a = Failure(t),
         b = <<>> \/ b = <<Rejected(t)>>
  PROVE  /\ Speech(a \o b) /\ Speech(a) /\ Within(a, a \o b)
         /\ \A i \in 1 .. Len(a \o b) :
              IsEnd((a \o b)[i], t) /\ (a \o b)[i].turn = t /\ (a \o b)[i].about = "failed"
<1>2. Speech(a) /\ \A i \in 1 .. Len(a) : IsEnd(a[i], t) /\ a[i].turn = t /\ a[i].about = "failed"
  <2>1. CASE a = <<>>
    BY <2>1, NothingIsSpeech
  <2>2. CASE a = Failure(t)
    BY <2>2, FailureSaid
  <2> QED BY <2>1, <2>2
<1>3. Speech(b) /\ \A i \in 1 .. Len(b) : IsEnd(b[i], t) /\ b[i].turn = t /\ b[i].about = "failed"
  BY NothingIsSpeech, RejectionSaid
<1>4. Within(a, a \o b)
  BY <1>2, <1>3, JoinWithin
<1> QED BY <1>2, <1>3, <1>4, SpeechesJoin

\* The app-server refuses an interrupt, which fails the Turn.
LEMMA InterruptRefusedKeeps ==
  ASSUME IInv, NEW t \in Turns, InterruptRefused(t)
  PROVE  IInv'
<1>1. Types /\ HostTypes /\ QueueTypes /\ AgentTypes /\ Sends /\ Asking /\ Gated
  BY PartsOf
<1>2. /\ Codex /\ interrupt[t] = "asked" /\ interrupt' = [interrupt EXCEPT ![t] = "refused"]
      /\ waiting' = waiting \ {t} /\ gate' = GateAnswered(t, TRUE)
      /\ spent' = [spent EXCEPT !["fault"] = @ + 1]
      /\ UNCHANGED <<chatVars, started>>
      /\ UNCHANGED <<agent, loaded, cancelled, asked, used, thread, mine, known, completion, native, client>>
  BY DEF InterruptRefused, Emit, Spend
<1>3. PICK a : a = IF run[t] = "interrupting" THEN Report(t, "failed", TRUE) ELSE <<>>
  OBVIOUS
<1>4. PICK b : b = IF t \in waiting THEN <<Rejected(t)>> ELSE <<>>
  OBVIOUS
<1>5. PICK e : e = a \o b
  OBVIOUS
<1>6. /\ queue' = queue \o e
      /\ \/ /\ run[t] = "interrupting" /\ Fails(t, thread) /\ reported' = reported \cup {t}
         \/ /\ run[t] # "interrupting" /\ UNCHANGED <<run, byThread, reported>>
  BY <1>3, <1>4, <1>5 DEF InterruptRefused, Emit, Fails
<1>7. /\ Speech(e) /\ Speech(a) /\ Within(a, e)
      /\ \A i \in 1 .. Len(e) : IsEnd(e[i], t) /\ e[i].turn = t /\ e[i].about = "failed"
  <2>1. (a = <<>> \/ a = Failure(t)) /\ (b = <<>> \/ b = <<Rejected(t)>>)
    BY <1>3, <1>4, Zenon DEF Failure
  <2> QED BY <1>5, <2>1, RefusalSaid, SMTT(40)
<1>8. t \in cancelled /\ turns[t] # "none"
  BY <1>1, <1>2, NotFresh DEF Sends
<1>9. spent' \in [Disturbances -> Nat] /\ spent["failure"] <= spent'["failure"]
  BY <1>1, <1>2 DEF HostTypes, Disturbances
<1>10. Grows
  BY <1>1, <1>2, <1>6, <1>9 DEF Grows, Fails, AgentTypes
<1>11. /\ gate' \in [by : {"none", "package", "shutdown"},
                     at : {"open", "cancel", "drain", "drained", "closed"}, turn : Turns \cup {NoTurn}]
       /\ gate'.at \in {"drained", "closed"} => gate.at \in {"drained", "closed"}
  BY <1>1, <1>2 DEF GateAnswered, Held, Idle, HostTypes
<1>12. Gated'
  BY <1>1, <1>2, <1>11, GatedStays DEF chatVars
<1>13. /\ run' \in [Turns -> {"none", "credential", "thread", "starting", "native", "interrupting",
                              "loop", "over", "failed"}]
       /\ run'[t] \in {run[t], "over", "failed"} /\ (run'[t] # run[t] <=> run[t] = "interrupting")
       /\ \A v \in Turns \ {t} : run'[v] = run[v]
       /\ byThread' \in [Turns -> Turns \cup {NoTurn}]
       /\ \A v \in Turns : byThread'[v] \in {byThread[v], NoTurn}
       /\ reported' \subseteq Turns /\ \A v \in Turns \ {t} : v \in reported' <=> v \in reported
       /\ t \in reported' => t \in reported \/ run[t] = "interrupting"
       /\ interrupt' \in [Turns -> {"none", "asked", "answered", "refused"}]
       /\ \A v \in Turns \ {t} : interrupt'[v] = interrupt[v]
  BY <1>1, <1>2, <1>6 DEF AgentTypes, Fails, Caught, Finally
<1>14. Types'
  <2>1. HostTypes'
    BY <1>1, <1>2, <1>9, <1>11, ChatTypes
  <2>2. QueueTypes'
    BY <1>1, <1>6, <1>7, SpeechTypes
  <2>3. AgentTypes'
    BY <1>1, <1>2, <1>13 DEF AgentTypes
  <2> QED BY <2>1, <2>2, <2>3 DEF Types
<1>15. Sends'
  <2>1. \A v \in Turns : byThread'[v] # NoTurn => run'[byThread'[v]] \notin {"none", "credential", "thread"}
    <3>1. \A v \in Turns : byThread[v] # NoTurn => byThread[v] \in Turns
      BY <1>1 DEF AgentTypes
    <3> QED BY <1>1, <1>13, <3>1 DEF Sends
  <2>2. \A v \in Turns :
          /\ run'[v] \in {"none", "credential", "thread"} => native'[v] = "none"
          /\ run'[v] \in {"starting", "native", "interrupting"} \/ native'[v] # "none" => mine'[v] \in Turns
    BY <1>1, <1>2, <1>13 DEF Sends
  <2> QED BY <1>1, <1>2, <1>8, <1>13, <2>1, <2>2 DEF Sends, Codex, Comet, Active, AtServer, Requesting
<1>16. Asking'
  BY <1>1, <1>2 DEF Asking
<1>17. \A v \in Turns : /\ Active(v)' => Active(v)
                        /\ completion[v] # "open" => completion'[v] # "open"
                        /\ Active(v)' /\ v \in reported' => v \in reported \/ Harmless(v)'
  BY <1>2, <1>13 DEF Active
<1>18. \A v \in Turns : turns[v] = "none" =>
         run'[v] = "none" /\ completion'[v] = "open" /\ v \notin cancelled' \cup reported'
  BY <1>2, <1>8, <1>13, PartsOf DEF Fresh
<1>19. \A v \in Turns : turns[v] \in Open /\ Past(v)' => Past(v) \/ Tells(e, v, asked[v]) \/ Excused(v)'
  <2> SUFFICES ASSUME NEW v \in Turns, Past(v)' PROVE Past(v) \/ Tells(e, v, asked[v]) \/ Excused(v)'
    OBVIOUS
  <2>1. CASE v = t /\ asked[t] # {}
    BY <1>8, <1>10, <1>14, <2>1, CancelledExcused
  <2>2. CASE v = t /\ asked[t] = {} /\ run[t] = "interrupting"
    <3>1. "failed" \in Terminal /\ TRUE \in BOOLEAN
      BY DEF Terminal
    <3>2. t \in reported \/ Tells(a, t, asked[t])
      BY <1>3, <2>2, <3>1, ReportTells
    <3>3. a \in Seq(Jobs) /\ e \in Seq(Jobs)
      BY <1>7 DEF Speech
    <3>4. t \in reported \/ Tells(e, t, asked[t])
      BY <1>7, <3>2, <3>3, WithinTells
    <3> QED BY <2>2, <3>4 DEF Past
  <2>3. CASE v = t /\ run[t] # "interrupting"
    BY <1>2, <1>6, <2>3 DEF Past, Active, Codex
  <2>4. CASE v # t
    BY <1>2, <1>13, <2>4 DEF Past, Active, Codex
  <2> QED BY <2>1, <2>2, <2>3, <2>4
<1>20. \A v \in Turns, i \in 1 .. Len(e) : IsEnd(e[i], v) /\ Active(v)' =>
         Harmless(v)' \/ (Codex' /\ e[i].about = "failed")
  BY <1>2, <1>7 DEF Codex
<1>21. \A i \in 1 .. Len(e) : turns[e[i].turn] # "none"
  BY <1>7, <1>8
<1>22. /\ (HeldWhileOpen /\ Fresh /\ Submits /\ Raised)'
       /\ (Settled /\ Told /\ Resting)'
  BY <1>2, <1>6, <1>7, <1>10, <1>12, <1>14, <1>17, <1>18, <1>19, <1>20, <1>21, EmitKeeps
<1>23. Awaited'
  <2>1. \A v, w \in Turns : byThread'[w] = v => byThread[w] = v
    BY <1>13, NoTurnAssumption
  <2>2. \A v \in Turns : v \in reported => v \in reported'
    BY <1>6, <1>13
  <2>3. \A v \in Turns : Deaf(v)' => run'[v] = run[v]
    BY <1>13 DEF Deaf
  <2> QED BY <1>2, <1>9, <1>14, <2>1, <2>2, <2>3, StillAwaited DEF Deaf, chatVars
<1> QED BY <1>12, <1>14, <1>15, <1>16, <1>22, <1>23 DEF IInv

-----------------------------------------------------------------------------
(* Comet *)

\* The loop of Comet ends, and reports the end once.
LEMMA CometEndsKeeps ==
  ASSUME IInv, NEW t \in Turns, NEW outcome \in Terminal, CometEnds(t, outcome)
  PROVE  IInv'
<1>1. Types /\ HostTypes /\ QueueTypes /\ AgentTypes /\ Sends /\ Asking /\ Gated
  BY PartsOf
<1>2. /\ Comet /\ run[t] = "loop" /\ run' = [run EXCEPT ![t] = "over"] /\ reported' = reported \cup {t}
      /\ waiting' = waiting \ {t} /\ gate' = GateAnswered(t, FALSE)
      /\ UNCHANGED <<chatVars, started, spent, agent, loaded, cancelled>>
      /\ UNCHANGED <<asked, used, thread, mine, byThread, known, completion, native, interrupt, client>>
      /\ t \in cancelled \/ outcome # "cancelled"
  BY DEF CometEnds, Emit, codexVars
<1>3. PICK data \in BOOLEAN : /\ data <=> outcome # "completed"
                              /\ queue' = queue \o <<Ended(t, outcome, data)>>
  BY Zenon DEF CometEnds, Emit
<1>4. PICK e : e = <<Ended(t, outcome, data)>>
  OBVIOUS
<1>5. queue' = queue \o e
  BY <1>3, <1>4
<1>6. turns[t] # "none" /\ asked[t] = {}
  <2>1. known[t] = NoTurn
    BY <1>1, <1>2 DEF Sends, Codex, Comet
  <2> QED BY <1>1, <1>2, <2>1, NotFresh DEF Asking
<1>7. /\ Len(e) = 1 /\ e[1] = Ended(t, outcome, data)
      /\ Speech(e) /\ IsEnd(e[1], t) /\ e[1].turn = t
  BY <1>4, EndIsSpeech
<1>8. t \in cancelled \/ Tells(e, t, asked[t])
  <2> SUFFICES ASSUME t \notin cancelled PROVE Tells(e, t, {})
    BY <1>6
  <2>1. data => outcome = "failed"
    BY <1>2, <1>3 DEF Terminal
  <2> QED BY <1>4, <2>1, EndTells
<1>9. spent["failure"] <= spent'["failure"]
  BY <1>1, <1>2 DEF HostTypes, Disturbances
<1>10. Grows
  BY <1>1, <1>2, <1>9 DEF Grows, AgentTypes
<1>11. /\ gate' \in [by : {"none", "package", "shutdown"},
                     at : {"open", "cancel", "drain", "drained", "closed"}, turn : Turns \cup {NoTurn}]
       /\ gate'.at \in {"drained", "closed"} => gate.at \in {"drained", "closed"}
  BY <1>1, <1>2 DEF GateAnswered, Held, HostTypes
<1>12. Gated'
  BY <1>1, <1>2, <1>11, GatedStays DEF chatVars
<1>13. /\ run' \in [Turns -> {"none", "credential", "thread", "starting", "native", "interrupting",
                              "loop", "over", "failed"}]
       /\ run'[t] = "over" /\ \A v \in Turns \ {t} : run'[v] = run[v]
  BY <1>1, <1>2 DEF AgentTypes
<1>14. Types'
  <2>1. HostTypes'
    BY <1>1, <1>2, <1>11, ChatTypes DEF HostTypes
  <2>2. QueueTypes'
    BY <1>1, <1>5, <1>7, SpeechTypes
  <2>3. AgentTypes'
    BY <1>1, <1>2, <1>13 DEF AgentTypes
  <2> QED BY <2>1, <2>2, <2>3 DEF Types
<1>15. Sends'
  <2>1. \A v \in Turns : byThread'[v] # NoTurn => run'[byThread'[v]] \notin {"none", "credential", "thread"}
    <3>1. \A v \in Turns : byThread[v] # NoTurn => byThread[v] \in Turns
      BY <1>1 DEF AgentTypes
    <3> QED BY <1>1, <1>2, <1>13, <3>1 DEF Sends
  <2> QED BY <1>1, <1>2, <1>13, <2>1 DEF Sends, Codex, Comet, Active, AtServer, Requesting
<1>16. Asking'
  BY <1>1, <1>2 DEF Asking
<1>17. \A v \in Turns : /\ Active(v)' => Active(v) /\ v # t
                        /\ Active(v)' /\ v \in reported' => v \in reported
  BY <1>2, <1>13 DEF Active
<1>18. \A v \in Turns : turns[v] = "none" =>
         run'[v] = "none" /\ completion'[v] = "open" /\ v \notin cancelled' \cup reported'
  BY <1>2, <1>6, <1>13, PartsOf DEF Fresh
<1>19. \A v \in Turns : turns[v] \in Open /\ Past(v)' => Past(v) \/ Tells(e, v, asked[v]) \/ Excused(v)'
  <2> SUFFICES ASSUME NEW v \in Turns, Past(v)' PROVE Past(v) \/ Tells(e, v, asked[v]) \/ Excused(v)'
    OBVIOUS
  <2>1. CASE v = t /\ t \in cancelled
    BY <1>2, <2>1 DEF Excused, Comet
  <2>2. CASE v = t /\ t \notin cancelled
    BY <1>8, <2>2
  <2>3. CASE v # t
    BY <1>2, <1>13, <2>3 DEF Past, Active, Codex
  <2> QED BY <2>1, <2>2, <2>3
<1>20. \A v \in Turns, i \in 1 .. Len(e) : ~(IsEnd(e[i], v) /\ Active(v)')
  BY <1>7, <1>17 DEF IsEnd
<1>21. \A i \in 1 .. Len(e) : turns[e[i].turn] # "none"
  BY <1>6, <1>7
<1>22. /\ (HeldWhileOpen /\ Fresh /\ Submits /\ Raised)'
       /\ (Settled /\ Told /\ Resting)'
  BY <1>2, <1>5, <1>7, <1>10, <1>12, <1>14, <1>17, <1>18, <1>19, <1>20, <1>21, EmitKeeps
<1>23. Awaited'
  <2>1. \A v \in Turns : Deaf(v)' => v # t
    BY <1>13 DEF Deaf
  <2> QED BY <1>2, <1>9, <1>13, <1>14, <2>1, StillAwaited DEF Deaf, chatVars
<1> QED BY <1>12, <1>14, <1>15, <1>16, <1>22, <1>23 DEF IInv

-----------------------------------------------------------------------------
(* What the Host asks of the Agent *)

\* The first job is a mutation that the Agent is called for, and what it says
\* meanwhile is behind all other jobs.
LEMMA CallKeeps ==
  ASSUME IInv, Types', Grows, NEW d, NEW e, Follows(queue, queue', d, e), Speech(e),
         pending' = pending, closed' = closed,
         d = 1 => queue[1].kind \notin {"requested", "answered", "terminal"},
         \A i \in 1 .. Len(e) : turns'[e[i].turn] # "none",
         \A t \in Turns : turns'[t] = "none" =>
           /\ turns[t] = "none" /\ run'[t] = "none" /\ completion'[t] = "open"
           /\ t \notin cancelled' \cup reported',
         \A t \in Turns : turns[t] = "none" /\ turns'[t] # "none" =>
           d = 1 /\ queue[1].kind = "submit" /\ queue[1].turn = t,
         \A t \in Turns : turns'[t] \notin Open => turns'[t] = turns[t],
         \A t \in Turns, r \in Requests : turns'[t] \in Open /\ r \notin asked'[t] =>
           \/ turns[t] \in Open /\ r \notin asked[t]
           \/ \E i \in 1 .. Len(e) : IsAnswered(e[i], t, r)
           \/ SettledBy(queue, pending, t, r, Len(queue)),
         \A t \in Turns : turns'[t] \in Open /\ Past(t)' =>
           \/ turns[t] \in Open /\ (Past(t) \/ Tells(e, t, asked[t]) \/ Excused(t)')
           \/ Ends(queue', pending', t),
         \A t \in Turns : Active(t)' => Active(t) \/ (turns[t] = "none" /\ turns'[t] \in Open),
         \A t \in Turns : completion[t] # "open" => completion'[t] # "open",
         \A t \in Turns : Active(t)' /\ t \in reported' => t \in reported \/ Harmless(t)',
         \A t \in Turns, i \in 1 .. Len(e) : IsEnd(e[i], t) /\ Active(t)' =>
           Harmless(t)' \/ (Codex' /\ e[i].about = "failed")
  PROVE  (Fresh /\ Submits /\ Raised /\ Settled /\ Told /\ Resting)'
<1>1. /\ Types /\ Fresh /\ Submits /\ Raised /\ Settled /\ Told /\ Resting /\ QueueTypes
  BY PartsOf
<1>2. d \in {0, 1} /\ Len(queue) \in Nat /\ (d = 1 => 1 \in 1 .. Len(queue))
  BY DEF Follows
<1>3. \A t \in Turns : Shrinks(queue, pending, pending', d, t)
  BY DEF Shrinks, IsAnswered
<1>4. Fresh'
  BY <1>1, FreshKeeps
<1>5. Submits'
  <2>1. \A i \in 1 .. Len(e) : e[i].kind # "submit"
    BY DEF Speech
  <2>2. \A i \in 1 .. Len(queue) : i > d /\ queue[i].kind = "submit" => turns'[queue[i].turn] = "none"
    <3> SUFFICES ASSUME NEW i \in 1 .. Len(queue), i > d, queue[i].kind = "submit",
                        turns'[queue[i].turn] # "none"
                 PROVE  FALSE
      OBVIOUS
    <3>1. queue[i].turn \in Turns /\ turns[queue[i].turn] = "none"
      BY <1>1 DEF QueueTypes, JobShape, Submits, Lifecycle
    <3>2. d = 1 /\ queue[1].kind = "submit"
      BY <3>1
    <3>3. i = 1
      BY <1>1, <1>2, <3>2 DEF Submits
    <3> QED BY <3>2, <3>3
  <2> QED BY <1>1, <2>1, <2>2, SubmitsKeep
<1>6. Raised'
  <2>1. \A t \in Turns, r \in Requests : r \in pending'[t] \cup closed'[t] => r \in pending[t] \cup closed[t]
    OBVIOUS
  <2> QED BY <1>1, <2>1, RaisedKeeps
<1>7. Settled'
  BY <1>1, <1>3, SettledKeeps
<1>8. Told'
  <2>1. \A t \in Turns : ~(d = 1 /\ EndsAt(queue, pending, t, 1))
    BY DEF EndsAt, IsEnd
  <2> QED BY <1>1, <1>3, <2>1, ToldKeeps
<1>9. Resting'
  <2>1. agent' = agent
    BY DEF Grows
  <2>2. \A t \in Turns : Active(t)' /\ turns'[t] \notin Open =>
          Harmless(t)' \/ (Codex' /\ turns'[t] \in {"failed", "gone"})
    <3> SUFFICES ASSUME NEW t \in Turns, Active(t)', turns'[t] \notin Open
                 PROVE  Harmless(t)' \/ (Codex' /\ turns'[t] \in {"failed", "gone"})
      OBVIOUS
    <3>1. Active(t) /\ turns[t] = turns'[t]
      OBVIOUS
    <3>2. Harmless(t) \/ (Codex /\ turns[t] \in {"failed", "gone"})
      BY <1>1, <3>1 DEF Resting
    <3> QED BY <2>1, <3>1, <3>2 DEF Harmless, Codex
  <2>3. \A t \in Turns, i \in 1 .. Len(queue) : i > d /\ IsEnd(queue[i], t) /\ Active(t)' =>
          Active(t) /\ (completion[t] # "open" => completion'[t] # "open")
    BY <1>1 DEF Fresh, IsEnd
  <2>4. \A t \in Turns : Active(t)' /\ t \in reported' => Harmless(t)'
    <3> SUFFICES ASSUME NEW t \in Turns, Active(t)', t \in reported PROVE Harmless(t)'
      OBVIOUS
    <3>1. turns[t] # "none"
      BY <1>1 DEF Fresh
    <3>2. Active(t) /\ Harmless(t)
      BY <1>1, <3>1 DEF Resting
    <3> QED BY <2>1, <3>2 DEF Harmless, Codex
  <2> QED BY <1>1, <2>1, <2>2, <2>3, <2>4, RestingKeeps
<1> QED BY <1>4, <1>5, <1>6, <1>7, <1>8, <1>9

\* A Turn that makes progress says so.
LEMMA ProgressSaid ==
  ASSUME NEW t \in Turns, NEW state \in {"running", "cancelling"}, NEW e, e = <<Progress(t, state)>>
  PROVE  /\ Speech(e) /\ Len(e) = 1
         /\ \A i \in 1 .. Len(e) : e[i].turn = t /\ e[i].kind = "progress"
<1> DEFINE x == [kind |-> "progress", turn |-> t, about |-> state, data |-> FALSE]
<1>1. e = <<x>>
  BY DEF Progress, Job
<1>2. x.kind = "progress" /\ x.turn = t /\ x.about = state
  OBVIOUS
<1>3. x \in Jobs
  BY DEF Jobs, Kinds
<1> HIDE DEF x
<1>4. JobShape(x)
  BY <1>2 DEF JobShape
<1>5. Len(e) = 1 /\ e[1] = x
  BY <1>1
<1> QED BY <1>1, <1>2, <1>3, <1>4, <1>5 DEF Speech

\* What an Agent has said when it is asked to cancel a Turn.
LEMMA CancelSaid ==
  ASSUME Types, NEW t \in Turns, NEW s, s = CancelSays(t)
  PROVE  /\ Speech(s)
         /\ \A i \in 1 .. Len(s) :
              /\ s[i].turn = t
              /\ s[i].kind = "terminal" => Codex /\ CancelAnswer(t) = "done"
         /\ Codex /\ loaded = "loaded" /\ Active(t) =>
              \A r \in asked[t] : \E i \in 1 .. Len(s) : IsAnswered(s[i], t, r)
         /\ CancelAnswer(t) = "done" /\ Active(t) => t \in reported \/ Tells(s, t, asked[t])
<1>1. agent = "codex" \/ agent = "comet"
  BY DEF Types, AgentTypes
<1>2. CASE s = <<>> /\ (Comet \/ loaded # "loaded")
  <2>1. CancelAnswer(t) # "done"
    BY <1>2 DEF CancelAnswer, Comet
  <2> QED BY <1>2, <2>1, NothingIsSpeech DEF Codex, Comet
<1>3. CASE s = <<Progress(t, "cancelling")>> /\ Comet
  <2>1. CancelAnswer(t) # "done" /\ ~Codex
    BY <1>3 DEF CancelAnswer, Codex, Comet
  <2> QED BY <1>3, <2>1, ProgressSaid
<1>4. CASE Codex /\ loaded = "loaded"
  <2>1. PICK a : a = IF Active(t) THEN Completions(t) ELSE <<>>
    OBVIOUS
  <2>2. PICK b : b = IF CancelAnswer(t) = "done" THEN Cancellation(t) ELSE <<>>
    OBVIOUS
  <2>3. s = a \o b
    BY <1>4, <2>1, <2>2, Zenon DEF CancelSays, Codex, Comet, Cancellation
  <2>4. /\ Speech(a) /\ \A i \in 1 .. Len(a) : a[i].turn = t /\ a[i].kind = "answered"
        /\ Active(t) => \A r \in asked[t] : \E i \in 1 .. Len(a) : IsAnswered(a[i], t, r)
    BY <2>1, CompletionsAre, NothingIsSpeech
  <2>5. /\ Speech(b) /\ \A i \in 1 .. Len(b) : IsEnd(b[i], t) /\ b[i].turn = t
        /\ CancelAnswer(t) # "done" => Len(b) = 0
    BY <2>2, CancellationSaid, NothingIsSpeech
  <2>6. Speech(s) /\ \A i \in 1 .. Len(a) : i \in 1 .. Len(s) /\ s[i] = a[i]
    BY <2>3, <2>4, <2>5, SpeechesJoin
  <2>7. \A i \in 1 .. Len(s) : \/ i \in 1 .. Len(a) /\ s[i] = a[i]
                               \/ i - Len(a) \in 1 .. Len(b) /\ s[i] = b[i - Len(a)]
    BY <2>3, <2>4, <2>5, SpeechesJoin
  <2>8. \A i \in 1 .. Len(s) : s[i].turn = t /\ (s[i].kind = "terminal" => CancelAnswer(t) = "done")
    BY <2>4, <2>5, <2>7
  <2>9. ASSUME CancelAnswer(t) = "done", Active(t), t \notin reported PROVE Tells(s, t, asked[t])
    <3>1. 1 \in 1 .. Len(b) /\ IsEnd(b[1], t) /\ (b[1].data => b[1].about = "failed")
      BY <2>2, <2>9, CancellationSaid
    <3>6. \A r \in asked[t] : \E k \in 1 .. Len(a) : IsAnswered(a[k], t, r)
      BY <2>4, <2>9
    <3> QED BY <2>3, <2>4, <2>5, <3>1, <3>6, JoinTells
  <2> QED BY <1>4, <2>4, <2>6, <2>8, <2>9
<1>5. \/ s = <<>> /\ (Comet \/ loaded # "loaded")
      \/ s = <<Progress(t, "cancelling")>> /\ Comet
      \/ Codex /\ loaded = "loaded"
  BY <1>1, Zenon DEF CancelSays, Codex, Comet
<1> QED BY <1>2, <1>3, <1>4, <1>5

\* All that is said is about t, and an end of it is said by a Codex that has
\* cancelled it, or by the Host because the Agent refused to.
CancelWords(e, t) ==
  \A i \in 1 .. Len(e) :
    /\ e[i].turn = t
    /\ e[i].kind = "terminal" => \/ Codex /\ CancelAnswer(t) = "done"
                                 \/ e[i].about = "failed" /\ CancelAnswer(t) = "refused"

\* What a cancellation changes at the Agent, and what it has said of it.
LEMMA CancelEffects ==
  ASSUME IInv, NEW t \in Turns, turns[t] \in Open, CancelTakesEffect(t),
         UNCHANGED <<agent, loaded, used, thread, mine, known, native, client>>,
         spent["failure"] <= spent'["failure"], waiting' \subseteq Turns,
         NEW s, s = CancelSays(t), NEW e, Speech(e), Within(s, e), CancelWords(e, t)
  PROVE  /\ AgentTypes' /\ Sends' /\ Asking' /\ Grows
         /\ \A v \in Turns : (Active(v)' => Active(v)) /\ (completion[v] # "open" => completion'[v] # "open")
         /\ \A v \in Turns : Active(v)' /\ v \in reported' => v \in reported \/ Harmless(v)'
         /\ \A v \in Turns : /\ run'[v] \in {"starting", "native"} => run'[v] = run[v]
                             /\ byThread'[v] \in {byThread[v], NoTurn}
                             /\ v \in reported => v \in reported'
         /\ \A v \in Turns \ {t} :
              /\ run'[v] = run[v] /\ completion'[v] = completion[v] /\ asked'[v] = asked[v]
              /\ (v \in cancelled' => v \in cancelled) /\ (v \in reported' => v \in reported)
         /\ \A r \in Requests : r \in asked[t] /\ r \notin asked'[t] => \E i \in 1 .. Len(e) : IsAnswered(e[i], t, r)
         /\ Types' => (Past(t)' => Past(t) \/ Tells(e, t, asked[t]) \/ Excused(t)')
         /\ \A i \in 1 .. Len(e) : IsEnd(e[i], t) /\ Active(t)' =>
              Harmless(t)' \/ (Codex' /\ e[i].about = "failed")
<1>1. Types /\ AgentTypes /\ Sends /\ Asking
  BY PartsOf
<1>2. PICK answer : answer = CancelAnswer(t)
  OBVIOUS
<1>3. /\ cancelled' = IF loaded = "loaded" /\ Active(t) THEN cancelled \cup {t} ELSE cancelled
      /\ asked' = IF loaded = "loaded" /\ Active(t) THEN [asked EXCEPT ![t] = {}] ELSE asked
      /\ interrupt' = IF Codex /\ answer = "awaited" /\ interrupt[t] = "none"
                      THEN [interrupt EXCEPT ![t] = "asked"] ELSE interrupt
      /\ reported' = IF Codex /\ answer = "done" THEN reported \cup {t} ELSE reported
      /\ completion' = IF Codex /\ answer = "done" /\ loaded = "loaded" /\ Active(t) /\ completion[t] = "open"
                       THEN [completion EXCEPT ![t] = "resolved"] ELSE completion
      /\ IF Codex /\ answer = "done" /\ run[t] = "native" THEN EndSend(t, thread)
         ELSE UNCHANGED <<run, byThread>>
  BY <1>2 DEF CancelTakesEffect
<1>4. (Codex /\ ~Comet) \/ (Comet /\ ~Codex)
  BY <1>1 DEF AgentTypes, Codex, Comet
<1>5. /\ answer = "done" => Codex /\ loaded = "loaded"
      /\ Codex /\ answer = "awaited" => Active(t) /\ known[t] # NoTurn /\ loaded = "loaded"
      /\ Codex /\ loaded = "loaded" /\ Active(t) /\ answer # "done" => known[t] # NoTurn
      /\ answer = "refused" => loaded # "loaded" \/ (Comet /\ ~Active(t)) \/ Codex
  BY <1>2, <1>4 DEF CancelAnswer
<1>6. /\ cancelled' \subseteq Turns /\ cancelled \subseteq cancelled'
      /\ reported' \subseteq Turns
      /\ asked' \in [Turns -> SUBSET Requests] /\ (asked'[t] = asked[t] \/ asked'[t] = {})
      /\ interrupt' \in [Turns -> {"none", "asked", "answered", "refused"}]
      /\ \A v \in Turns \ {t} : interrupt'[v] = interrupt[v] /\ asked'[v] = asked[v]
      /\ completion' \in [Turns -> {"open", "resolved", "rejected"}]
      /\ \A v \in Turns \ {t} : completion'[v] = completion[v]
      /\ completion[t] # "open" => completion'[t] # "open"
  BY <1>1, <1>3 DEF AgentTypes
<1>7. /\ run' \in [Turns -> {"none", "credential", "thread", "starting", "native", "interrupting",
                             "loop", "over", "failed"}]
      /\ run'[t] \in {run[t], "over"} /\ (run'[t] # run[t] => run[t] = "native")
      /\ \A v \in Turns \ {t} : run'[v] = run[v]
      /\ byThread' \in [Turns -> Turns \cup {NoTurn}]
      /\ \A v \in Turns : byThread'[v] \in {byThread[v], NoTurn}
  BY <1>1, <1>3 DEF AgentTypes, EndSend, Finally
<1>8. AgentTypes'
  BY <1>1, <1>6, <1>7 DEF AgentTypes
<1>9. \A v \in Turns : Active(v)' => Active(v)
  BY <1>7 DEF Active
<1>10. Grows
  BY <1>6, <1>7 DEF Grows
<1>11. Sends'
  <2>1. \A v \in Turns : byThread'[v] # NoTurn => run'[byThread'[v]] \notin {"none", "credential", "thread"}
    <3>1. \A v \in Turns : byThread[v] # NoTurn => byThread[v] \in Turns
      BY <1>1 DEF AgentTypes
    <3> QED BY <1>1, <1>7, <3>1 DEF Sends
  <2>2. \A v \in Turns :
          /\ run'[v] \in {"none", "credential", "thread"} => native'[v] = "none"
          /\ run'[v] \in {"starting", "native", "interrupting"} \/ native'[v] # "none" => mine'[v] \in Turns
    BY <1>1, <1>7 DEF Sends
  <2>3. \A v \in Turns : interrupt'[v] # "none" => Codex /\ v \in cancelled'
    <3> SUFFICES ASSUME NEW v \in Turns, interrupt'[v] # "none" PROVE Codex /\ v \in cancelled'
      OBVIOUS
    <3>1. CASE interrupt'[v] = interrupt[v]
      BY <1>1, <1>6, <3>1 DEF Sends
    <3>2. CASE interrupt'[v] # interrupt[v]
      <4>1. v = t /\ Codex /\ answer = "awaited"
        BY <1>3, <1>6, <3>2
      <4> QED BY <1>3, <1>5, <4>1
    <3> QED BY <3>1, <3>2
  <2>4. \A v \in Turns : run'[v] = "interrupting" => v \in cancelled'
    BY <1>1, <1>6, <1>7 DEF Sends
  <2>5. \A v \in Turns :
          /\ run'[v] \in {"credential", "thread", "starting", "native", "interrupting"} => Codex
          /\ run'[v] = "loop" => Comet
          /\ known[v] # NoTurn => Codex /\ run'[v] \notin {"none", "credential", "thread"}
          /\ Comet /\ Active(v) => loaded = "loaded"
          /\ run'[v] = "native" => known[v] = v
    BY <1>1, <1>7 DEF Sends
  <2>6. \A v \in Turns : AtServer(v)' => client # "none"
    BY <1>1, <1>7 DEF Sends, AtServer, Requesting
  <2>7. \A v \in Turns : interrupt'[v] = "answered" => completion'[v] # "open"
    BY <1>1, <1>3, <1>6 DEF Sends, AgentTypes
  <2> QED BY <1>9, <2>1, <2>2, <2>3, <2>4, <2>5, <2>6, <2>7 DEF Sends, Codex, Comet
<1>12. Asking'
  BY <1>1, <1>6 DEF Asking
<1>13. /\ \A i \in 1 .. Len(s) : s[i].turn = t
       /\ Codex /\ loaded = "loaded" /\ Active(t) =>
            \A r \in asked[t] : \E i \in 1 .. Len(s) : IsAnswered(s[i], t, r)
       /\ answer = "done" /\ Active(t) => t \in reported \/ Tells(s, t, asked[t])
       /\ s \in Seq(Jobs) /\ e \in Seq(Jobs)
  BY <1>1, <1>2, CancelSaid DEF Speech
<1>14. \A i \in 1 .. Len(s) : \E j \in 1 .. Len(e) : e[j] = s[i]
  BY DEF Within
<1>15. Comet => asked[t] = {}
  BY <1>1, <1>4 DEF Sends, Asking
<1>16. \A r \in Requests : r \in asked[t] /\ r \notin asked'[t] => \E i \in 1 .. Len(e) : IsAnswered(e[i], t, r)
  <2> SUFFICES ASSUME NEW r \in Requests, r \in asked[t], r \notin asked'[t]
               PROVE  \E i \in 1 .. Len(e) : IsAnswered(e[i], t, r)
    OBVIOUS
  <2>1. Codex /\ loaded = "loaded" /\ Active(t)
    BY <1>3, <1>4, <1>15
  <2>2. PICK i \in 1 .. Len(s) : IsAnswered(s[i], t, r)
    BY <1>13, <2>1
  <2> QED BY <1>14, <2>2
<1>17. ASSUME Types', Past(t)' PROVE Past(t) \/ Tells(e, t, asked[t]) \/ Excused(t)'
  <2>1. CASE ~Active(t)
    BY <2>1 DEF Past
  <2>2. CASE Active(t) /\ Comet
    <3>1. loaded = "loaded"
      BY <1>1, <2>2 DEF Sends
    <3>2. t \in cancelled' /\ Comet'
      BY <1>3, <2>2, <3>1 DEF Comet
    <3> QED BY <3>2 DEF Excused
  <2>3. CASE Active(t) /\ Codex /\ answer = "done"
    <3>1. Tells(s, t, asked[t]) => Tells(e, t, asked[t])
      BY <1>13, WithinTells
    <3> QED BY <1>13, <2>3, <3>1 DEF Past
  <2>4. CASE Active(t) /\ Codex /\ answer # "done"
    <3>1. UNCHANGED <<reported, completion, run>> /\ Codex'
      BY <1>3, <2>4 DEF Codex
    <3>2. t \in cancelled' => t \in cancelled \/ run[t] \notin {"credential", "thread"}
      BY <1>1, <1>3, <1>5, <2>4 DEF Sends
    <3> QED BY <1>17, <2>4, <3>1, <3>2 DEF Past, Active
  <2> QED BY <1>4, <2>1, <2>2, <2>3, <2>4
<1>18. \A i \in 1 .. Len(e) : IsEnd(e[i], t) /\ Active(t)' =>
         Harmless(t)' \/ (Codex' /\ e[i].about = "failed")
  <2> SUFFICES ASSUME NEW i \in 1 .. Len(e), e[i].kind = "terminal", Active(t)'
               PROVE  Harmless(t)' \/ (Codex' /\ e[i].about = "failed")
    BY DEF IsEnd
  <2>1. Active(t)
    BY <1>9
  <2>2. CASE Codex /\ answer = "done"
    <3>1. completion'[t] # "open"
      BY <1>1, <1>3, <1>5, <2>1, <2>2 DEF AgentTypes
    <3> QED BY <2>2, <3>1 DEF Harmless, Codex
  <2>3. CASE e[i].about = "failed" /\ answer = "refused"
    <3>1. Codex
      BY <1>1, <1>4, <1>5, <2>1, <2>3 DEF Sends
    <3> QED BY <2>3, <3>1 DEF Codex
  <2> QED BY <1>2, <2>2, <2>3 DEF CancelWords
<1>19. \A v \in Turns \ {t} : (v \in cancelled' => v \in cancelled) /\ (v \in reported' => v \in reported)
  BY <1>3
<1>20. \A v \in Turns : Active(v)' /\ v \in reported' => v \in reported \/ Harmless(v)'
  <2> SUFFICES ASSUME NEW v \in Turns, Active(v)', v \in reported', v \notin reported PROVE Harmless(v)'
    OBVIOUS
  <2>1. v = t /\ Codex /\ answer = "done" /\ loaded = "loaded" /\ Active(t)
    BY <1>3, <1>5, <1>9
  <2>2. completion'[t] # "open"
    BY <1>1, <1>3, <2>1 DEF AgentTypes
  <2> QED BY <2>1, <2>2 DEF Harmless, Codex
<1>21. \A v \in Turns : /\ run'[v] \in {"starting", "native"} => run'[v] = run[v]
                        /\ byThread'[v] \in {byThread[v], NoTurn}
                        /\ v \in reported => v \in reported'
  BY <1>3, <1>7
<1> QED BY <1>6, <1>7, <1>8, <1>9, <1>10, <1>11, <1>12, <1>16, <1>17, <1>18, <1>19, <1>20, <1>21

\* The job at the head of the queue.
LEMMA HeadIs ==
  ASSUME QueueTypes, queue # <<>>
  PROVE  /\ Head(queue) = queue[1] /\ 1 \in 1 .. Len(queue) /\ queue[1] \in Jobs /\ JobShape(queue[1])
BY DEF QueueTypes

\* What the Host admits of a mutation or an action of a Turn.
LEMMA AdmitsOpen ==
  ASSUME NEW job, Admits(job),
         job.kind \in {"cancel", "progress", "respond", "requested", "answered", "terminal"}
  PROVE  turns[job.turn] \in Open
BY DEF Admits

\* The end of the Turn that the Host says after the Agent refused to cancel it.
LEMMA RefusedSaid ==
  ASSUME IInv, NEW t \in Turns, NEW s, s = CancelSays(t),
         NEW x, x = <<>> \/ (x = <<Rejected(t)>> /\ CancelAnswer(t) = "refused"), NEW e, e = s \o x
  PROVE  Speech(e) /\ Within(s, e) /\ CancelWords(e, t)
<1>1. /\ Speech(s)
      /\ \A i \in 1 .. Len(s) : s[i].turn = t /\ (s[i].kind = "terminal" => Codex /\ CancelAnswer(t) = "done")
  BY PartsOf, CancelSaid
<1>2. /\ Speech(x)
      /\ \A i \in 1 .. Len(x) : x[i].turn = t /\ x[i].about = "failed" /\ CancelAnswer(t) = "refused"
  <2>1. CASE x = <<Rejected(t)>> /\ CancelAnswer(t) = "refused"
    BY <2>1, RejectionSaid
  <2>2. CASE x = <<>>
    BY <2>2, NothingIsSpeech
  <2> QED BY <2>1, <2>2
<1>3. /\ Speech(e)
      /\ \A i \in 1 .. Len(e) : \/ i \in 1 .. Len(s) /\ e[i] = s[i]
                                \/ i - Len(s) \in 1 .. Len(x) /\ e[i] = x[i - Len(s)]
  BY <1>1, <1>2, SpeechesJoin
<1>4. Within(s, e)
  BY <1>1, <1>2, JoinWithin
<1> QED BY <1>1, <1>2, <1>3, <1>4 DEF CancelWords

\* The Host asks the Agent to cancel a Turn.
LEMMA CancelKeeps ==
  ASSUME IInv, Cancel
  PROVE  IInv'
<1>1. Types /\ HostTypes /\ QueueTypes /\ AgentTypes /\ HeldWhileOpen /\ Gated
  BY PartsOf
<1>2. PICK t : t = Head(queue).turn
  OBVIOUS
<1>3. /\ queue # <<>> /\ Head(queue).kind = "cancel" /\ Admits(Head(queue))
      /\ UNCHANGED <<gate, spent, chat, pending, closed, anchors, bindings>>
      /\ turns' = [turns EXCEPT ![t] = "cancelling"] /\ activeTurn' = t /\ started' = FALSE
      /\ CancelTakesEffect(t) /\ UNCHANGED <<agent, loaded, used, thread, mine, known, native, client>>
  BY <1>2 DEF Cancel, CancelTurn, Commit, Running, Execute, Done
<1>4. /\ Head(queue) = queue[1] /\ 1 \in 1 .. Len(queue) /\ queue[1].kind = "cancel"
      /\ queue[1].turn = t /\ t \in Turns /\ turns[t] \in Open
  <2>1. Head(queue) = queue[1] /\ 1 \in 1 .. Len(queue) /\ JobShape(queue[1])
    BY <1>1, <1>3, HeadIs
  <2>2. turns[Head(queue).turn] \in Open
    BY <1>3, AdmitsOpen
  <2> QED BY <1>2, <1>3, <2>1, <2>2 DEF JobShape, Lifecycle
<1>5. PICK s : s = CancelSays(t)
  OBVIOUS
<1>6. PICK x : x = IF CancelAnswer(t) = "refused" THEN <<Rejected(t)>> ELSE <<>>
  OBVIOUS
<1>7. PICK e : e = s \o x
  OBVIOUS
<1>8. queue' = Tail(queue) \o e
  BY <1>2, <1>5, <1>6, <1>7, Zenon DEF Cancel, CancelTurn, Done
<1>9. Speech(e) /\ Within(s, e) /\ CancelWords(e, t)
  <2>1. x = <<>> \/ (x = <<Rejected(t)>> /\ CancelAnswer(t) = "refused")
    BY <1>6
  <2> QED BY <1>4, <1>5, <1>7, <2>1, RefusedSaid
<1>10. Follows(queue, queue', 1, e)
  BY <1>1, <1>3, <1>8, <1>9, DoneFollows DEF QueueTypes, Speech
<1>11. spent["failure"] <= spent'["failure"] /\ waiting' \subseteq Turns
  BY <1>1, <1>2, <1>3, <1>4 DEF HostTypes, AgentTypes, Disturbances, Cancel
<1>12. /\ AgentTypes' /\ Sends' /\ Asking' /\ Grows
       /\ \A v \in Turns : (Active(v)' => Active(v)) /\ (completion[v] # "open" => completion'[v] # "open")
       /\ \A v \in Turns : Active(v)' /\ v \in reported' => v \in reported \/ Harmless(v)'
       /\ \A v \in Turns : /\ run'[v] \in {"starting", "native"} => run'[v] = run[v]
                           /\ byThread'[v] \in {byThread[v], NoTurn}
                           /\ v \in reported => v \in reported'
       /\ \A v \in Turns \ {t} :
            /\ run'[v] = run[v] /\ completion'[v] = completion[v] /\ asked'[v] = asked[v]
            /\ (v \in cancelled' => v \in cancelled) /\ (v \in reported' => v \in reported)
       /\ \A r \in Requests : r \in asked[t] /\ r \notin asked'[t] => \E i \in 1 .. Len(e) : IsAnswered(e[i], t, r)
       /\ Types' => (Past(t)' => Past(t) \/ Tells(e, t, asked[t]) \/ Excused(t)')
       /\ \A i \in 1 .. Len(e) : IsEnd(e[i], t) /\ Active(t)' =>
            Harmless(t)' \/ (Codex' /\ e[i].about = "failed")
  BY <1>3, <1>4, <1>5, <1>9, <1>11, CancelEffects
<1>13. /\ turns' \in [Turns -> {"none", "gone"} \cup Open \cup Terminal] /\ turns'[t] \in Open
       /\ \A v \in Turns \ {t} : turns'[v] = turns[v]
  BY <1>1, <1>3, <1>4 DEF HostTypes, Open, Executing
<1>14. \A v \in Turns : turns'[v] \in Open <=> turns[v] \in Open
  BY <1>4, <1>13
<1>15. "none" \notin Open /\ "gone" \notin Open
  BY DEF Open, Executing
<1>16. Types'
  <2>1. HostTypes'
    BY <1>1, <1>3, <1>4, <1>13 DEF HostTypes
  <2>2. QueueTypes'
    BY <1>1, <1>9, <1>10, TypesFollow DEF QueueTypes, Speech
  <2> QED BY <1>12, <2>1, <2>2 DEF Types
<1>17. HeldWhileOpen'
  BY <1>1, <1>3, <1>4, <1>13, <1>14, <1>15 DEF HeldWhileOpen
<1>18. Gated'
  BY <1>1, <1>3, <1>14 DEF Gated
<1>19. \A i \in 1 .. Len(e) : turns'[e[i].turn] # "none"
  BY <1>9, <1>13, <1>15 DEF CancelWords
<1>20. \A v \in Turns : turns'[v] = "none" =>
         /\ turns[v] = "none" /\ run'[v] = "none" /\ completion'[v] = "open"
         /\ v \notin cancelled' \cup reported'
  BY <1>12, <1>13, <1>15, PartsOf DEF Fresh
<1>21. \A v \in Turns : turns[v] = "none" => turns'[v] = "none"
  BY <1>4, <1>13, <1>15
<1>22. \A v \in Turns : turns'[v] \notin Open => turns'[v] = turns[v]
  BY <1>13
<1>23. \A v \in Turns, r \in Requests : turns'[v] \in Open /\ r \notin asked'[v] =>
         \/ turns[v] \in Open /\ r \notin asked[v]
         \/ \E i \in 1 .. Len(e) : IsAnswered(e[i], v, r)
  BY <1>12, <1>14
<1>24. \A v \in Turns : turns'[v] \in Open /\ Past(v)' =>
         turns[v] \in Open /\ (Past(v) \/ Tells(e, v, asked[v]) \/ Excused(v)')
  <2> SUFFICES ASSUME NEW v \in Turns, Past(v)' PROVE Past(v) \/ Tells(e, v, asked[v]) \/ Excused(v)'
    BY <1>14
  <2>1. CASE v = t
    BY <1>12, <1>16, <2>1
  <2>2. CASE v # t
    BY <1>3, <1>12, <2>2 DEF Past, Active, Codex
  <2> QED BY <2>1, <2>2
<1>25. \A v \in Turns, i \in 1 .. Len(e) : IsEnd(e[i], v) /\ Active(v)' =>
         Harmless(v)' \/ (Codex' /\ e[i].about = "failed")
  <2> SUFFICES ASSUME NEW v \in Turns, NEW i \in 1 .. Len(e), IsEnd(e[i], v), Active(v)'
               PROVE  Harmless(v)' \/ (Codex' /\ e[i].about = "failed")
    OBVIOUS
  <2>1. v = t
    BY <1>9 DEF IsEnd, CancelWords
  <2> QED BY <1>12, <2>1
<1>26. pending' = pending /\ closed' = closed /\ queue[1].kind \notin {"requested", "answered", "terminal"}
  BY <1>3, <1>4
<1>27. (Fresh /\ Submits /\ Raised /\ Settled /\ Told /\ Resting)'
  <2>1. /\ Grows /\ Speech(e)
        /\ \A v \in Turns : Active(v)' => Active(v)
        /\ \A v \in Turns : completion[v] # "open" => completion'[v] # "open"
        /\ \A v \in Turns : Active(v)' /\ v \in reported' => v \in reported \/ Harmless(v)'
    BY <1>9, <1>12
  <2> QED BY <2>1, <1>10, <1>16, <1>19, <1>20, <1>21, <1>22, <1>23, <1>24, <1>25, <1>26, CallKeeps
<1>28. Awaited'
  <2>1. \A v, w \in Turns : byThread'[w] = v => byThread[w] = v
    BY <1>12, NoTurnAssumption
  <2>2. \A v \in Turns : Deaf(v)' => turns[v] \in Open /\ native[v] = "ended" /\ run'[v] = run[v]
    BY <1>3, <1>12, <1>14 DEF Deaf
  <2>3. \A v \in Turns : v \in reported => v \in reported'
    BY <1>12
  <2> QED BY <1>3, <1>11, <1>16, <2>1, <2>2, <2>3, StillAwaited
<1> QED BY <1>12, <1>16, <1>17, <1>18, <1>27, <1>28 DEF IInv

\* The Host begins to close, and cancels the open Turn.
LEMMA CloseHostKeeps ==
  ASSUME IInv, CloseHost
  PROVE  IInv'
<1>1. Types /\ HostTypes /\ QueueTypes /\ AgentTypes /\ Sends /\ Asking /\ Gated
  BY PartsOf
<1>2. CASE BeginClose(NoTurn, "done", <<>>) /\ UNCHANGED agentVars
  <2>1. /\ UNCHANGED <<chatVars, started>> /\ queue' = queue \o <<>>
        /\ spent' = [spent EXCEPT !["gate"] = @ + 1]
        /\ gate' = Held("shutdown", "drain")
    BY <1>2 DEF BeginClose, Spend
  <2>2. UNCHANGED <<agent, loaded, run, cancelled, reported, asked, used, thread, mine, byThread, known,
                    completion, native, interrupt, waiting, client>>
    BY <1>2 DEF agentVars, codexVars
  <2>3. queue' = queue
    BY <1>1, <2>1 DEF QueueTypes
  <2>4. spent' \in [Disturbances -> Nat] /\ spent["failure"] <= spent'["failure"]
    BY <1>1, <2>1 DEF HostTypes, Disturbances
  <2>5. Gated'
    BY <2>1 DEF Gated, Held
  <2>6. Types'
    <3>1. HostTypes'
      BY <1>1, <2>1, <2>4, ChatTypes DEF Held
    <3>2. QueueTypes'
      BY <1>1, <2>3 DEF QueueTypes
    <3>3. AgentTypes'
      BY <1>1, <2>2 DEF AgentTypes
    <3> QED BY <3>1, <3>2, <3>3 DEF Types
  <2>7. Sends' /\ Asking'
    BY <1>1, <2>2 DEF Sends, Asking, Codex, Comet, Active, AtServer, Requesting
  <2>8. Awaited'
    <3>1. \A v \in Turns : Deaf(v)' => Deaf(v)
      BY <2>1, <2>2 DEF Deaf, chatVars
    <3> QED BY <1>1, <2>4, <2>6, <3>1, PartsOf, AwaitedKeeps DEF Types
  <2> QED BY <2>1, <2>2, <2>3, <2>4, <2>5, <2>6, <2>7, <2>8, QuietKeeps
<1>3. ASSUME NEW t \in Turns, turns[t] \in Open,
             BeginClose(t, CancelAnswer(t), CancelSays(t)), CancelTakesEffect(t),
             UNCHANGED <<agent, loaded, waiting, used, thread, mine, known, native, client>>
      PROVE  IInv'
  <2>1. PICK e : e = CancelSays(t)
    OBVIOUS
  <2>2. /\ queue' = queue \o e /\ UNCHANGED <<chatVars, started>>
        /\ spent' = [spent EXCEPT !["gate"] = @ + 1]
        /\ \/ gate' = Idle \/ gate' = Held("shutdown", "drain")
           \/ gate' = [by |-> "shutdown", at |-> "cancel", turn |-> t]
    BY <1>3, <2>1 DEF BeginClose, Spend
  <2>3. Speech(e) /\ Within(e, e) /\ CancelWords(e, t)
    <3>1. Speech(e) /\ CancelWords(e, t)
      BY <1>1, <2>1, CancelSaid DEF CancelWords
    <3>2. \A i \in 1 .. Len(e) : 0 + i \in 1 .. Len(e) /\ e[0 + i] = e[i]
      OBVIOUS
    <3> QED BY <3>1, <3>2 DEF Within
  <2>4. spent' \in [Disturbances -> Nat] /\ spent["failure"] <= spent'["failure"] /\ waiting' \subseteq Turns
    BY <1>1, <1>3, <2>2 DEF HostTypes, AgentTypes, Disturbances
  <2>5. /\ AgentTypes' /\ Sends' /\ Asking' /\ Grows
        /\ \A v \in Turns : (Active(v)' => Active(v)) /\ (completion[v] # "open" => completion'[v] # "open")
        /\ \A v \in Turns : Active(v)' /\ v \in reported' => v \in reported \/ Harmless(v)'
        /\ \A v \in Turns : /\ run'[v] \in {"starting", "native"} => run'[v] = run[v]
                            /\ byThread'[v] \in {byThread[v], NoTurn}
                            /\ v \in reported => v \in reported'
        /\ \A v \in Turns \ {t} :
             /\ run'[v] = run[v] /\ completion'[v] = completion[v] /\ asked'[v] = asked[v]
             /\ (v \in cancelled' => v \in cancelled) /\ (v \in reported' => v \in reported)
        /\ \A r \in Requests : r \in asked[t] /\ r \notin asked'[t] => \E i \in 1 .. Len(e) : IsAnswered(e[i], t, r)
        /\ Types' => (Past(t)' => Past(t) \/ Tells(e, t, asked[t]) \/ Excused(t)')
        /\ \A i \in 1 .. Len(e) : IsEnd(e[i], t) /\ Active(t)' =>
             Harmless(t)' \/ (Codex' /\ e[i].about = "failed")
    BY <1>3, <2>1, <2>3, <2>4, CancelEffects
  <2>6. Gated' /\ gate' \in [by : {"none", "package", "shutdown"},
                             at : {"open", "cancel", "drain", "drained", "closed"}, turn : Turns \cup {NoTurn}]
    <3>1. CASE gate' = Idle
      BY <3>1 DEF Idle, Gated
    <3>2. CASE gate' = Held("shutdown", "drain")
      BY <3>2 DEF Held, Gated
    <3>3. CASE gate' = [by |-> "shutdown", at |-> "cancel", turn |-> t]
      BY <3>3 DEF Gated
    <3> QED BY <2>2, <3>1, <3>2, <3>3
  <2>7. Types'
    <3>1. HostTypes'
      BY <1>1, <2>2, <2>4, <2>6, ChatTypes
    <3>2. QueueTypes'
      BY <1>1, <2>2, <2>3, SpeechTypes
    <3> QED BY <2>5, <3>1, <3>2 DEF Types
  <2>8. turns[t] # "none"
    BY <1>3 DEF Open, Executing
  <2>9. \A i \in 1 .. Len(e) : turns[e[i].turn] # "none"
    BY <2>3, <2>8 DEF CancelWords
  <2>10. \A v \in Turns : turns[v] = "none" =>
           run'[v] = "none" /\ completion'[v] = "open" /\ v \notin cancelled' \cup reported'
    BY <2>5, <2>8, PartsOf DEF Fresh
  <2>11. \A v \in Turns, r \in Requests : turns[v] \in Open /\ r \in asked[v] /\ r \notin asked'[v] =>
           \E i \in 1 .. Len(e) : IsAnswered(e[i], v, r)
    BY <2>5
  <2>12. \A v \in Turns : turns[v] \in Open /\ Past(v)' => Past(v) \/ Tells(e, v, asked[v]) \/ Excused(v)'
    <3> SUFFICES ASSUME NEW v \in Turns, Past(v)' PROVE Past(v) \/ Tells(e, v, asked[v]) \/ Excused(v)'
      OBVIOUS
    <3>1. CASE v = t
      BY <2>5, <2>7, <3>1
    <3>2. CASE v # t
      BY <1>3, <2>5, <3>2 DEF Past, Active, Codex
    <3> QED BY <3>1, <3>2
  <2>13. \A v \in Turns, i \in 1 .. Len(e) : IsEnd(e[i], v) /\ Active(v)' =>
           Harmless(v)' \/ (Codex' /\ e[i].about = "failed")
    <3> SUFFICES ASSUME NEW v \in Turns, NEW i \in 1 .. Len(e), IsEnd(e[i], v), Active(v)'
                 PROVE  Harmless(v)' \/ (Codex' /\ e[i].about = "failed")
      OBVIOUS
    <3>1. v = t
      BY <2>3 DEF IsEnd, CancelWords
    <3> QED BY <2>5, <3>1
  <2>14. /\ (HeldWhileOpen /\ Fresh /\ Submits /\ Raised)'
         /\ (Settled /\ Told /\ Resting)'
    <3>1. /\ Grows /\ Speech(e)
          /\ \A v \in Turns : /\ Active(v)' => Active(v)
                              /\ completion[v] # "open" => completion'[v] # "open"
                              /\ Active(v)' /\ v \in reported' => v \in reported \/ Harmless(v)'
      BY <2>3, <2>5
    <3>2. queue' = queue \o e /\ UNCHANGED chatVars
      BY <2>2
    <3> QED BY <3>1, <3>2, <2>6, <2>7, <2>9, <2>10, <2>11, <2>12, <2>13, EmitKeeps
  <2>15. Awaited'
    <3>1. \A v, w \in Turns : byThread'[w] = v => byThread[w] = v
      BY <2>5, NoTurnAssumption
    <3>2. \A v \in Turns : Deaf(v)' => turns[v] \in Open /\ native[v] = "ended" /\ run'[v] = run[v]
      BY <1>3, <2>2, <2>5 DEF Deaf, chatVars
    <3>3. \A v \in Turns : v \in reported => v \in reported'
      BY <2>5
    <3> QED BY <1>3, <2>4, <2>7, <3>1, <3>2, <3>3, StillAwaited
  <2> QED BY <2>5, <2>6, <2>7, <2>14, <2>15 DEF IInv
<1> QED BY <1>2, <1>3, Zenon DEF CloseHost

\* The Host sends a Turn, which the Agent takes or refuses.
LEMMA SendKeeps ==
  ASSUME IInv, Send, UNCHANGED <<agent, loaded, cancelled, reported, waiting, codexVars>>
  PROVE  IInv'
<1>1. /\ Types /\ HostTypes /\ QueueTypes /\ AgentTypes /\ HeldWhileOpen /\ Sends /\ Asking
      /\ Fresh /\ Raised /\ Gated
  BY PartsOf
<1>2. PICK t : t = Head(queue).turn
  OBVIOUS
<1>3. PICK e : /\ SubmitTurn(e)
               /\ \/ e = <<Rejected(t)>> /\ run' = run /\ Refuses(t)
                  \/ /\ e = <<Progress(t, "running")>> /\ ~Refuses(t)
                     /\ run' = [run EXCEPT ![t] = IF Codex THEN "credential" ELSE "loop"]
  BY <1>2, Zenon DEF Send
<1>4. /\ queue # <<>> /\ Head(queue).kind = "submit" /\ started
      /\ UNCHANGED <<gate, spent, chat, activeTurn, pending, closed>>
      /\ turns' = [turns EXCEPT ![t] = "accepted"]
      /\ anchors' = anchors \cup {t} /\ bindings' = bindings \cup {t}
      /\ queue' = Tail(queue) \o e /\ started' = FALSE
      /\ UNCHANGED <<agent, loaded, cancelled, reported, waiting, asked, used, thread, mine, byThread,
                     known, completion, native, interrupt, client>>
  BY <1>2, <1>3 DEF SubmitTurn, Commit, Running, Mutations, Done, codexVars
<1>5. /\ 1 \in 1 .. Len(queue) /\ queue[1].kind = "submit" /\ queue[1].turn = t /\ t \in Turns
  BY <1>1, <1>2, <1>4, HeadIs DEF JobShape, Lifecycle
<1>6. /\ turns[t] = "none" /\ run[t] = "none" /\ completion[t] = "open" /\ t \notin cancelled \cup reported
      /\ known[t] = NoTurn /\ asked[t] = {} /\ pending[t] = {}
      /\ \A i \in 1 .. Len(queue) : queue[i].turn = t => queue[i].kind = "submit"
  <2>1. turns[t] = "none"
    BY <1>5, PartsOf DEF Submits
  <2>2. /\ run[t] = "none" /\ completion[t] = "open" /\ t \notin cancelled \cup reported
        /\ \A i \in 1 .. Len(queue) : queue[i].turn = t => queue[i].kind = "submit"
    BY <1>1, <1>5, <2>1 DEF Fresh
  <2>3. known[t] = NoTurn
    BY <1>1, <1>5, <2>2 DEF Sends
  <2>4. asked[t] = {} /\ pending[t] = {}
    BY <1>1, <1>5, <2>3 DEF Asking, Raised, HostTypes
  <2> QED BY <2>1, <2>2, <2>3, <2>4
<1>7. /\ Speech(e) /\ \A i \in 1 .. Len(e) : e[i].turn = t
      /\ \/ run' = run /\ e = <<Rejected(t)>> /\ \A i \in 1 .. Len(e) : e[i].about = "failed"
         \/ /\ ~Refuses(t) /\ run' = [run EXCEPT ![t] = IF Codex THEN "credential" ELSE "loop"]
            /\ \A i \in 1 .. Len(e) : e[i].kind = "progress"
  <2>1. CASE e = <<Rejected(t)>> /\ run' = run
    BY <1>5, <2>1, RejectionSaid
  <2>2. CASE e = <<Progress(t, "running")>> /\ ~Refuses(t)
             /\ run' = [run EXCEPT ![t] = IF Codex THEN "credential" ELSE "loop"]
    BY <1>5, <2>2, ProgressSaid
  <2> QED BY <1>3, <2>1, <2>2
<1>8. Follows(queue, queue', 1, e)
  BY <1>1, <1>4, <1>7, DoneFollows DEF QueueTypes, Speech
<1>9. /\ turns' \in [Turns -> {"none", "gone"} \cup Open \cup Terminal] /\ turns'[t] \in Open
      /\ \A v \in Turns \ {t} : turns'[v] = turns[v]
      /\ turns'[t] # "none"
  BY <1>1, <1>4, <1>5 DEF HostTypes, Open, Executing
<1>10. /\ run' \in [Turns -> {"none", "credential", "thread", "starting", "native", "interrupting",
                              "loop", "over", "failed"}]
       /\ run'[t] \in {"none", "credential", "loop"}
       /\ run'[t] = "credential" => Codex
       /\ run'[t] = "loop" => ~Codex /\ ~Refuses(t)
       /\ \A v \in Turns \ {t} : run'[v] = run[v]
  BY <1>1, <1>5, <1>6, <1>7 DEF AgentTypes
<1>11. Types'
  <2>1. HostTypes'
    BY <1>1, <1>4, <1>5, <1>9 DEF HostTypes
  <2>2. QueueTypes'
    BY <1>1, <1>7, <1>8, TypesFollow DEF QueueTypes, Speech
  <2>3. AgentTypes'
    BY <1>1, <1>4, <1>10 DEF AgentTypes
  <2> QED BY <2>1, <2>2, <2>3 DEF Types
<1>12. (Codex /\ ~Comet) \/ (Comet /\ ~Codex)
  BY <1>1 DEF AgentTypes, Codex, Comet
<1>13. Sends'
  <2>1. \A v \in Turns : byThread'[v] # NoTurn => run'[byThread'[v]] \notin {"none", "credential", "thread"}
    <3>1. \A v \in Turns : byThread[v] # NoTurn => byThread[v] \in Turns /\ byThread[v] # t
      BY <1>1, <1>6 DEF AgentTypes, Sends
    <3> QED BY <1>1, <1>4, <1>10, <3>1 DEF Sends
  <2>2. \A v \in Turns :
          /\ run'[v] \in {"none", "credential", "thread"} => native'[v] = "none"
          /\ run'[v] \in {"starting", "native", "interrupting"} \/ native'[v] # "none" => mine'[v] \in Turns
    BY <1>1, <1>4, <1>5, <1>6, <1>10 DEF Sends
  <2>3. \A v \in Turns :
          /\ run'[v] \in {"credential", "thread", "starting", "native", "interrupting"} => Codex
          /\ run'[v] = "loop" => Comet
          /\ known[v] # NoTurn => Codex /\ run'[v] \notin {"none", "credential", "thread"}
          /\ interrupt[v] # "none" => Codex /\ v \in cancelled
          /\ run'[v] = "interrupting" => v \in cancelled
          /\ run'[v] = "native" => known[v] = v
    BY <1>1, <1>6, <1>10, <1>12 DEF Sends
  <2>4. \A v \in Turns : Comet /\ run'[v] \notin {"none", "over", "failed"} => loaded = "loaded"
    BY <1>1, <1>10, <1>12 DEF Sends, Active, Refuses
  <2>5. \A v \in Turns : AtServer(v)' => client # "none"
    BY <1>1, <1>10 DEF Sends, AtServer, Requesting
  <2>6. \A v \in Turns : interrupt[v] = "answered" => completion[v] # "open"
    BY <1>1 DEF Sends
  <2> QED BY <1>4, <2>1, <2>2, <2>3, <2>4, <2>5, <2>6 DEF Sends, Codex, Comet, Active
<1>14. Asking'
  BY <1>1, <1>4 DEF Asking
<1>15. HeldWhileOpen'
  BY <1>1, <1>4, <1>5, <1>9 DEF HeldWhileOpen
<1>16. Gated'
  BY <1>1, <1>4 DEF Gated, HostTypes
<1>17. Grows
  <2>1. spent["failure"] <= spent'["failure"]
    BY <1>1, <1>4 DEF HostTypes, Disturbances
  <2> QED BY <1>4, <1>6, <1>10, <2>1 DEF Grows
<1>18. \A r \in Requests : SettledBy(queue, pending, t, r, Len(queue))
  BY <1>6 DEF SettledBy, OpenedBy, IsRequested
<1>19. \A i \in 1 .. Len(e) : turns'[e[i].turn] # "none"
  BY <1>7, <1>9
<1>20. \A v \in Turns : turns'[v] = "none" =>
         /\ turns[v] = "none" /\ run'[v] = "none" /\ completion'[v] = "open"
         /\ v \notin cancelled' \cup reported'
  BY <1>1, <1>4, <1>9, <1>10 DEF Fresh
<1>21. \A v \in Turns : turns[v] = "none" /\ turns'[v] # "none" => queue[1].kind = "submit" /\ queue[1].turn = v
  BY <1>5, <1>9
<1>22. \A v \in Turns : turns'[v] \notin Open => turns'[v] = turns[v]
  BY <1>9
<1>23. \A v \in Turns, r \in Requests : turns'[v] \in Open /\ r \notin asked'[v] =>
         (turns[v] \in Open /\ r \notin asked[v]) \/ SettledBy(queue, pending, v, r, Len(queue))
  BY <1>4, <1>9, <1>18
<1>24. \A v \in Turns : turns'[v] \in Open /\ Past(v)' =>
         (turns[v] \in Open /\ Past(v)) \/ Ends(queue', pending', v)
  <2> SUFFICES ASSUME NEW v \in Turns, turns'[v] \in Open, Past(v)'
               PROVE  (turns[v] \in Open /\ Past(v)) \/ Ends(queue', pending', v)
    OBVIOUS
  <2>1. CASE v # t
    BY <1>4, <1>9, <1>10, <2>1 DEF Past, Active, Codex
  <2>2. CASE v = t /\ run' = run /\ e = <<Rejected(t)>>
    <3>1. PICK outcome \in Terminal : outcome = "failed"
      BY DEF Terminal
    <3>2. \E data \in BOOLEAN : e = <<Ended(t, outcome, data)>>
      BY <2>2, <3>1, Zenon DEF Rejected
    <3>3. Tells(e, t, {})
      BY <1>5, <3>1, <3>2, EndTells
    <3>4. \A r \in Requests : r \in pending'[t] => r \in pending[t] /\ ~(1 = 1 /\ IsAnswered(queue[1], t, r))
      BY <1>4, <1>6
    <3> QED BY <1>5, <1>7, <1>8, <1>18, <2>2, <3>3, <3>4, ToldEnds
  <2>3. CASE v = t /\ run' = [run EXCEPT ![t] = IF Codex THEN "credential" ELSE "loop"]
    <3>1. run'[t] \in {"credential", "loop"}
      BY <1>1, <1>5, <2>3 DEF AgentTypes
    <3> QED BY <1>4, <1>6, <2>3, <3>1 DEF Past, Active
  <2> QED BY <1>7, <2>1, <2>2, <2>3
<1>25. \A v \in Turns : Active(v)' => Active(v) \/ (turns[v] = "none" /\ turns'[v] \in Open)
  BY <1>6, <1>9, <1>10 DEF Active
<1>26. \A v \in Turns, i \in 1 .. Len(e) : ~(IsEnd(e[i], v) /\ Active(v)')
  <2> SUFFICES ASSUME NEW v \in Turns, NEW i \in 1 .. Len(e), IsEnd(e[i], v), Active(v)' PROVE FALSE
    OBVIOUS
  <2>1. v = t /\ e[i].kind = "terminal"
    BY <1>7 DEF IsEnd
  <2> QED BY <1>6, <1>7, <2>1 DEF Active
<1>27. pending' = pending /\ closed' = closed /\ queue[1].kind \notin {"requested", "answered", "terminal"}
       /\ (\A v \in Turns : completion[v] # "open" => completion'[v] # "open")
       /\ (\A v \in Turns : Active(v)' /\ v \in reported' => v \in reported \/ Harmless(v)')
  BY <1>4, <1>5
<1>28. (Fresh /\ Submits /\ Raised /\ Settled /\ Told /\ Resting)'
  BY <1>7, <1>8, <1>11, <1>17, <1>19, <1>20, <1>21, <1>22, <1>23, <1>24, <1>25, <1>26, <1>27, CallKeeps
<1>29. Awaited'
  <2>1. \A v \in Turns : Deaf(v)' => v # t
    BY <1>10 DEF Deaf
  <2>2. \A v \in Turns : Deaf(v)' => turns[v] \in Open /\ native[v] = "ended" /\ run'[v] = run[v]
    BY <1>4, <1>9, <1>10, <2>1 DEF Deaf
  <2> QED BY <1>4, <1>11, <1>17, <2>2, StillAwaited DEF Grows
<1> QED BY <1>11, <1>13, <1>14, <1>15, <1>16, <1>28, <1>29 DEF IInv

-----------------------------------------------------------------------------
(* The jobs of the queue that no Turn of the Agent begins or ends with *)

\* What a job leaves alone at the Agent.
AtAgentStays ==
  UNCHANGED <<agent, run, cancelled, waiting, used, thread, mine, byThread, known, completion, native,
              interrupt, client>>

\* A job is done: what of the invariant depends on the Host is left to show.
LEMMA JobKeeps ==
  ASSUME IInv, queue # <<>>, Done(<<>>), AtAgentStays, HostTypes', HeldWhileOpen', gate' = gate,
         reported' \subseteq reported, loaded' \in {"loaded", "released", "gone"},
         \A t \in Turns : Comet /\ Active(t) => loaded' = "loaded",
         asked' \in [Turns -> SUBSET Requests], \A t \in Turns : asked'[t] \subseteq asked[t],
         spent["failure"] <= spent'["failure"],
         \A t \in Turns : turns'[t] \in Open /\ t \in reported => t \in reported' \/ spent'["failure"] > 0,
         \A t \in Turns : turns[t] = "none" <=> turns'[t] = "none",
         \A t \in Turns : turns'[t] \in Open =>
           /\ turns[t] \in Open
           /\ \/ Shrinks(queue, pending, pending', 1, t) /\ ~EndsAt(queue, pending, t, 1)
              \/ spent'["failure"] > 0,
         \A t \in Turns, r \in Requests : r \in pending'[t] \cup closed'[t] =>
           r \in pending[t] \cup closed[t] \/ IsRequested(queue[1], t, r),
         \A t \in Turns, r \in Requests : turns'[t] \in Open /\ r \notin asked'[t] =>
           r \notin asked[t] \/ SettledBy(queue', pending', t, r, Len(queue')) \/ spent'["failure"] > 0,
         \A t \in Turns : Active(t) /\ turns'[t] \notin Open =>
           Harmless(t) \/ (Codex /\ turns'[t] \in {"failed", "gone"})
  PROVE  IInv'
<1>1. Types /\ QueueTypes /\ AgentTypes /\ Sends /\ Asking /\ Gated
  BY PartsOf
<1>2. QueueTypes'
  <2>1. PICK e : e = <<>>
    OBVIOUS
  <2>2. e \in Seq(Jobs) /\ \A i \in 1 .. Len(e) : JobShape(e[i])
    BY <2>1
  <2>3. Follows(queue, queue', 1, e)
    BY <1>1, <2>1, <2>2, DoneFollows DEF QueueTypes, Done
  <2> QED BY <1>1, <2>2, <2>3, TypesFollow DEF QueueTypes
<1>3. AgentTypes'
  <2>1. reported' \subseteq Turns
    BY <1>1 DEF AgentTypes
  <2> QED BY <1>1, <2>1 DEF AgentTypes, AtAgentStays
<1>4. Types'
  BY <1>2, <1>3 DEF Types
<1>5. Sends'
  BY <1>1 DEF Sends, AtAgentStays, Codex, Comet, Active, AtServer, Requesting
<1>6. Asking'
  <2> SUFFICES ASSUME NEW t \in Turns, asked'[t] # {}
               PROVE  known[t] # NoTurn /\ asked'[t] \subseteq used[known[t]]
    BY DEF Asking, AtAgentStays
  <2>1. asked[t] # {} /\ asked'[t] \subseteq asked[t]
    OBVIOUS
  <2> QED BY <1>1, <2>1 DEF Asking
<1>7. Gated'
  BY <1>1 DEF Gated, Done
<1>8. (Fresh /\ Submits /\ Raised /\ Settled /\ Told /\ Resting)'
  BY <1>4, DoneKeeps DEF AtAgentStays
<1>9. Awaited'
  <2>1. CASE spent'["failure"] > 0
    BY <2>1 DEF Awaited
  <2>2. CASE ~(spent'["failure"] > 0)
    <3>1. UNCHANGED <<run, mine, byThread, known, native>>
      BY DEF AtAgentStays
    <3>2. \A t \in Turns : Deaf(t)' => /\ turns[t] \in Open /\ native[t] = "ended"
                                       /\ t \in reported => t \in reported'
      BY <2>2, <3>1 DEF Deaf
    <3> QED BY <1>4, <3>1, <3>2, StillAwaited
  <2> QED BY <2>1, <2>2
<1> QED BY <1>4, <1>5, <1>6, <1>7, <1>8, <1>9 DEF IInv

\* An end at the head of the queue that is going to be accepted finds no
\* interaction open.
LEMMA HeadEnds ==
  ASSUME Types, NEW t \in Turns, EndsAt(queue, pending, t, 1)
  PROVE  pending[t] = {} /\ (queue[1].data => queue[1].about = "failed") /\ IsEnd(queue[1], t)
<1>1. pending[t] \subseteq Requests
  BY DEF Types, HostTypes
<1>2. \A r \in Requests : r \notin pending[t]
  <2> SUFFICES ASSUME NEW r \in Requests, r \in pending[t] PROVE FALSE
    OBVIOUS
  <2>1. SettledBy(queue, pending, t, r, 1 - 1)
    BY DEF EndsAt
  <2>2. OpenedBy(queue, pending, t, r, 1 - 1)
    BY DEF OpenedBy
  <2>3. ClosedBy(queue, t, r, 1 - 1)
    BY <2>1, <2>2 DEF SettledBy
  <2>4. \E k \in 1 .. 0 : TRUE
    BY <2>3 DEF ClosedBy
  <2> QED BY <2>4
<1> QED BY <1>1, <1>2 DEF EndsAt

\* A job that changes nothing at the Host: its commit failed, or nothing was owed to it.
LEMMA VoidJobKeeps ==
  ASSUME IInv, queue # <<>>, Done(<<>>), AtAgentStays, UNCHANGED <<chatVars, gate, reported>>,
         loaded' \in {"loaded", "released", "gone"},
         \A t \in Turns : Comet /\ Active(t) => loaded' = "loaded",
         asked' \in [Turns -> SUBSET Requests], \A t \in Turns : asked'[t] \subseteq asked[t],
         spent' \in [Disturbances -> Nat], spent["failure"] <= spent'["failure"],
         \/ spent'["failure"] > 0
         \/ /\ asked' = asked
            /\ \A t \in Turns : turns[t] \in Open =>
                 /\ ~EndsAt(queue, pending, t, 1)
                 /\ \A r \in Requests : r \in pending[t] => ~IsAnswered(queue[1], t, r)
  PROVE  IInv'
<1>1. Types /\ HostTypes /\ HeldWhileOpen /\ Resting
  BY PartsOf
<1>2. HostTypes'
  BY <1>1 DEF HostTypes, chatVars, Done
<1>3. HeldWhileOpen'
  BY <1>1 DEF HeldWhileOpen, chatVars
<1>4. UNCHANGED <<turns, pending, closed>>
  BY DEF chatVars
<1>5. \A t \in Turns : turns'[t] \in Open =>
        /\ turns[t] \in Open
        /\ \/ Shrinks(queue, pending, pending', 1, t) /\ ~EndsAt(queue, pending, t, 1)
           \/ spent'["failure"] > 0
  BY <1>4 DEF Shrinks
<1>6. \A t \in Turns, r \in Requests : turns'[t] \in Open /\ r \notin asked'[t] =>
        r \notin asked[t] \/ spent'["failure"] > 0
  OBVIOUS
<1>7. \A t \in Turns : Active(t) /\ turns'[t] \notin Open =>
        Harmless(t) \/ (Codex /\ turns'[t] \in {"failed", "gone"})
  BY <1>1, <1>4 DEF Resting
<1> QED BY <1>2, <1>3, <1>4, <1>5, <1>6, <1>7, JobKeeps

\* A job that is not admitted is dropped.
LEMMA RefuseKeeps ==
  ASSUME IInv, Refuse, UNCHANGED agentVars
  PROVE  IInv'
<1>1. Types /\ HostTypes /\ QueueTypes /\ AgentTypes /\ Sends
  BY PartsOf
<1>2. /\ queue # <<>> /\ ~Admits(queue[1]) /\ Done(<<>>) /\ UNCHANGED <<chatVars, gate, spent>>
      /\ AtAgentStays /\ UNCHANGED <<loaded, reported, asked>>
  BY <1>1, HeadIs DEF Refuse, agentVars, codexVars, AtAgentStays
<1>3. spent["failure"] <= spent'["failure"]
  BY <1>1, <1>2 DEF HostTypes, Disturbances
<1>4. \A t \in Turns : turns[t] \in Open => ~EndsAt(queue, pending, t, 1)
  <2> SUFFICES ASSUME NEW t \in Turns, turns[t] \in Open, EndsAt(queue, pending, t, 1) PROVE FALSE
    OBVIOUS
  <2>1. pending[t] = {} /\ (queue[1].data => queue[1].about = "failed") /\ IsEnd(queue[1], t)
    BY <1>1, HeadEnds
  <2> QED BY <1>2, <2>1 DEF Admits, IsEnd
<1>5. \A t \in Turns, r \in Requests : turns[t] \in Open /\ r \in pending[t] => ~IsAnswered(queue[1], t, r)
  BY <1>2 DEF Admits, IsAnswered
<1>6. /\ loaded \in {"loaded", "released", "gone"} /\ asked \in [Turns -> SUBSET Requests]
      /\ spent \in [Disturbances -> Nat] /\ \A t \in Turns : Comet /\ Active(t) => loaded = "loaded"
  BY <1>1 DEF AgentTypes, HostTypes, Sends
<1> QED BY <1>2, <1>3, <1>4, <1>5, <1>6, VoidJobKeeps

\* After a commit of the Host failed nothing is owed.
LEMMA FailureSpends ==
  ASSUME HostTypes, CommitFails
  PROVE  /\ queue # <<>> /\ Done(<<>>) /\ UNCHANGED <<chatVars, gate>>
         /\ spent' \in [Disturbances -> Nat] /\ spent'["failure"] > 0
         /\ spent["failure"] <= spent'["failure"]
BY DEF CommitFails, Spend, HostTypes, Disturbances

\* The commit of a job fails.
LEMMA JobCommitFailsKeeps ==
  ASSUME IInv, JobCommitFails, UNCHANGED agentVars
  PROVE  IInv'
<1>1. Types /\ HostTypes /\ AgentTypes /\ Sends
  BY PartsOf
<1>2. /\ queue # <<>> /\ Done(<<>>) /\ UNCHANGED <<chatVars, gate>>
      /\ spent' \in [Disturbances -> Nat] /\ spent'["failure"] > 0
      /\ spent["failure"] <= spent'["failure"]
  BY <1>1, FailureSpends DEF JobCommitFails
<1>3. AtAgentStays /\ UNCHANGED <<loaded, reported, asked>>
  BY DEF agentVars, codexVars, AtAgentStays
<1>4. /\ loaded \in {"loaded", "released", "gone"} /\ asked \in [Turns -> SUBSET Requests]
      /\ \A t \in Turns : Comet /\ Active(t) => loaded = "loaded"
  BY <1>1 DEF AgentTypes, Sends
<1> QED BY <1>2, <1>3, <1>4, VoidJobKeeps

\* A submission is accepted, and its Turn is to be sent.
LEMMA BeginKeeps ==
  ASSUME IInv, Begin, UNCHANGED agentVars
  PROVE  IInv'
<1>1. Types /\ HostTypes /\ QueueTypes /\ AgentTypes /\ Sends /\ Asking /\ Gated
  BY PartsOf
<1>2. /\ queue # <<>> /\ queue[1].kind \in Mutations /\ ~started /\ UNCHANGED <<chatVars, gate, spent>>
      /\ \/ gate = Idle /\ started' = TRUE /\ queue' = queue
         \/ queue' = Tail(queue) /\ started' = started
  BY <1>1, HeadIs DEF Begin
<1>3. spent["failure"] <= spent'["failure"]
  BY <1>1, <1>2 DEF HostTypes, Disturbances
<1>4. UNCHANGED <<agent, loaded, run, cancelled, reported, asked, used, thread, mine, byThread, known,
                  completion, native, interrupt, waiting, client>>
  BY DEF agentVars, codexVars
<1>5. CASE gate = Idle /\ started' = TRUE /\ queue' = queue
  <2>1. Gated'
    BY <1>2, <1>5 DEF Gated, Idle
  <2>2. HostTypes' /\ QueueTypes' /\ AgentTypes'
    <3>1. HostTypes'
      BY <1>1, <1>2, <1>5 DEF HostTypes, chatVars
    <3>2. QueueTypes'
      BY <1>1, <1>5 DEF QueueTypes
    <3>3. AgentTypes'
      BY <1>1, <1>4 DEF AgentTypes
    <3> QED BY <3>1, <3>2, <3>3
  <2>3. Types'
    BY <2>2 DEF Types
  <2>4. Sends' /\ Asking'
    BY <1>1, <1>4 DEF Sends, Asking, Codex, Comet, Active, AtServer, Requesting
  <2>5. Awaited'
    <3>1. \A t \in Turns : Deaf(t)' => Deaf(t)
      BY <1>2, <1>4 DEF Deaf, chatVars
    <3> QED BY <1>1, <1>3, <2>2, <3>1, PartsOf, AwaitedKeeps
  <2> QED BY <1>2, <1>3, <1>4, <1>5, <2>1, <2>3, <2>4, <2>5, QuietKeeps
<1>6. CASE queue' = Tail(queue) /\ started' = started
  <2>1. Done(<<>>)
    <3>1. Tail(queue) \in Seq(Jobs)
      BY <1>1, <1>2 DEF QueueTypes
    <3>2. queue' = Tail(queue) \o <<>>
      BY <1>6, <3>1
    <3>3. started' = FALSE
      BY <1>1, <1>2, <1>6 DEF HostTypes
    <3> QED BY <3>2, <3>3 DEF Done
  <2>2. \A t \in Turns : ~EndsAt(queue, pending, t, 1) /\ \A r \in Requests : ~IsAnswered(queue[1], t, r)
    BY <1>2 DEF Mutations, EndsAt, IsEnd, IsAnswered
  <2>3. AtAgentStays
    BY <1>4 DEF AtAgentStays
  <2>4. /\ loaded' \in {"loaded", "released", "gone"} /\ asked' \in [Turns -> SUBSET Requests]
        /\ spent' \in [Disturbances -> Nat] /\ \A t \in Turns : Comet /\ Active(t) => loaded' = "loaded"
    BY <1>1, <1>2, <1>4 DEF AgentTypes, HostTypes, Sends
  <2> QED BY <1>2, <1>3, <1>4, <2>1, <2>2, <2>3, <2>4, VoidJobKeeps
<1> QED BY <1>2, <1>5, <1>6

\* What is left in the queue after a job.
LEMMA RestOf ==
  ASSUME QueueTypes, queue # <<>>, Done(<<>>)
  PROVE  \A j \in 1 .. Len(queue') : j + 1 \in 1 .. Len(queue) /\ j + 1 # 1 /\ queue'[j] = queue[j + 1]
<1>1. PICK e : e = <<>>
  OBVIOUS
<1>2. e \in Seq(Jobs) /\ Len(e) = 0
  BY <1>1
<1>3. Follows(queue, queue', 1, e)
  BY <1>1, <1>2, DoneFollows DEF QueueTypes, Done
<1>4. Len(queue) \in Nat /\ Len(queue') = Len(queue) - 1 /\ \A i \in 1 .. Len(queue) - 1 : queue'[i] = queue[i + 1]
  BY <1>2, <1>3 DEF Follows
<1> QED BY <1>4

\* A Turn that the Host sees executing stays open and keeps what it holds.
LEMMA ExecuteIs ==
  ASSUME IInv, NEW t \in Turns, turns[t] \in Open, NEW state \in Executing, Execute(t, state),
         UNCHANGED <<anchors, bindings>>
  PROVE  /\ turns' \in [Turns -> {"none", "gone"} \cup Open \cup Terminal]
         /\ activeTurn' \in Turns \cup {NoTurn}
         /\ \A u \in Turns : /\ turns[u] = "none" <=> turns'[u] = "none"
                             /\ turns'[u] \in Open <=> turns[u] \in Open
         /\ HeldWhileOpen'
         /\ \A u \in Turns : Active(u) /\ turns'[u] \notin Open =>
              Harmless(u) \/ (Codex /\ turns'[u] \in {"failed", "gone"})
<1>1. HostTypes /\ HeldWhileOpen /\ Resting
  BY PartsOf
<1>2. turns' = [turns EXCEPT ![t] = state] /\ activeTurn' = t /\ state \in Open /\ state # "none"
  BY DEF Execute, Open, Executing
<1>3. turns[t] # "none"
  BY DEF Open, Executing
<1>4. /\ turns' \in [Turns -> {"none", "gone"} \cup Open \cup Terminal]
      /\ turns'[t] = state /\ \A u \in Turns \ {t} : turns'[u] = turns[u]
  BY <1>1, <1>2 DEF HostTypes
<1>5. \A u \in Turns : /\ turns[u] = "none" <=> turns'[u] = "none"
                       /\ turns'[u] \in Open <=> turns[u] \in Open
  <2> SUFFICES ASSUME NEW u \in Turns
               PROVE  /\ turns[u] = "none" <=> turns'[u] = "none"
                      /\ turns'[u] \in Open <=> turns[u] \in Open
    OBVIOUS
  <2> QED BY <1>2, <1>3, <1>4
<1>6. HeldWhileOpen'
  <2> SUFFICES ASSUME NEW u \in Turns
               PROVE  /\ turns'[u] \in Open => u \in anchors
                      /\ u \in anchors => turns'[u] \in Open \cup {"gone"}
                      /\ u \in bindings => turns'[u] \in Open
    BY DEF HeldWhileOpen
  <2>1. CASE u = t
    BY <1>1, <1>2, <1>4, <2>1 DEF HeldWhileOpen
  <2>2. CASE u # t
    BY <1>1, <1>4, <2>2 DEF HeldWhileOpen
  <2> QED BY <2>1, <2>2
<1>7. \A u \in Turns : Active(u) /\ turns'[u] \notin Open =>
        Harmless(u) \/ (Codex /\ turns'[u] \in {"failed", "gone"})
  BY <1>1, <1>2, <1>4 DEF Resting
<1> QED BY <1>2, <1>4, <1>5, <1>6, <1>7

\* An action that is applied, or an interaction that is answered.
LEMMA ExecuteKeeps ==
  ASSUME IInv, queue # <<>>, Done(<<>>), AtAgentStays, UNCHANGED <<gate, spent, loaded, reported>>,
         NEW t \in Turns, turns[t] \in Open, NEW state \in Executing, Execute(t, state),
         UNCHANGED <<chat, anchors, bindings>>, queue[1].kind # "terminal",
         asked' \in [Turns -> SUBSET Requests], \A u \in Turns : asked'[u] \subseteq asked[u],
         pending' \in [Turns -> SUBSET Requests], closed' \in [Turns -> SUBSET Requests],
         \A u \in Turns : Shrinks(queue, pending, pending', 1, u),
         \A u \in Turns, r \in Requests : r \in pending'[u] \cup closed'[u] =>
           r \in pending[u] \cup closed[u] \/ IsRequested(queue[1], u, r),
         \A u \in Turns, r \in Requests : r \notin asked'[u] =>
           r \notin asked[u] \/ SettledBy(queue', pending', u, r, Len(queue'))
  PROVE  IInv'
<1>1. HostTypes /\ AgentTypes /\ Sends
  BY PartsOf
<1>2. /\ turns' \in [Turns -> {"none", "gone"} \cup Open \cup Terminal]
      /\ activeTurn' \in Turns \cup {NoTurn}
      /\ \A u \in Turns : /\ turns[u] = "none" <=> turns'[u] = "none"
                          /\ turns'[u] \in Open <=> turns[u] \in Open
      /\ HeldWhileOpen'
      /\ \A u \in Turns : Active(u) /\ turns'[u] \notin Open =>
           Harmless(u) \/ (Codex /\ turns'[u] \in {"failed", "gone"})
  BY ExecuteIs
<1>3. HostTypes'
  BY <1>1, <1>2 DEF HostTypes, Done
<1>4. spent["failure"] <= spent'["failure"]
  BY <1>1 DEF HostTypes, Disturbances
<1>5. \A u \in Turns : ~EndsAt(queue, pending, u, 1)
  BY DEF EndsAt, IsEnd
<1>6. \A u \in Turns : turns'[u] \in Open =>
        /\ turns[u] \in Open
        /\ \/ Shrinks(queue, pending, pending', 1, u) /\ ~EndsAt(queue, pending, u, 1)
           \/ spent'["failure"] > 0
  BY <1>2, <1>5
<1>7. loaded' \in {"loaded", "released", "gone"} /\ \A u \in Turns : Comet /\ Active(u) => loaded' = "loaded"
  BY <1>1 DEF AgentTypes, Sends
<1>8. \A u \in Turns, r \in Requests : turns'[u] \in Open /\ r \notin asked'[u] =>
        r \notin asked[u] \/ SettledBy(queue', pending', u, r, Len(queue')) \/ spent'["failure"] > 0
  OBVIOUS
<1> QED BY <1>2, <1>3, <1>4, <1>6, <1>7, <1>8, JobKeeps

\* A Turn is reported to run or to be cancelling.
LEMMA TurnProgressKeeps ==
  ASSUME IInv, TurnProgress, UNCHANGED agentVars
  PROVE  IInv'
<1>1. HostTypes /\ QueueTypes /\ AgentTypes
  BY PartsOf
<1>2. /\ queue # <<>> /\ queue[1].kind = "progress" /\ Admits(queue[1])
      /\ Execute(queue[1].turn, queue[1].about) /\ Done(<<>>)
      /\ UNCHANGED <<gate, spent, chat, pending, closed, anchors, bindings>>
  BY <1>1, HeadIs DEF TurnProgress, Commit, Running
<1>3. queue[1].turn \in Turns /\ queue[1].about \in Executing
  BY <1>1, <1>2, HeadIs DEF JobShape, Lifecycle, Executing
<1>4. turns[queue[1].turn] \in Open
  BY <1>2, AdmitsOpen
<1>5. AtAgentStays /\ UNCHANGED <<loaded, reported, asked>>
  BY DEF agentVars, codexVars, AtAgentStays
<1>6. \A u \in Turns : Shrinks(queue, pending, pending', 1, u)
  BY <1>2 DEF Shrinks, IsAnswered
<1>7. /\ asked' \in [Turns -> SUBSET Requests] /\ pending' \in [Turns -> SUBSET Requests]
      /\ closed' \in [Turns -> SUBSET Requests]
  BY <1>1, <1>2, <1>5 DEF AgentTypes, HostTypes
<1> QED BY <1>2, <1>3, <1>4, <1>5, <1>6, <1>7, ExecuteKeeps

\* An interaction becomes pending.
LEMMA InteractionRequestedKeeps ==
  ASSUME IInv, InteractionRequested, UNCHANGED agentVars
  PROVE  IInv'
<1>1. HostTypes /\ QueueTypes /\ AgentTypes
  BY PartsOf
<1>2. /\ queue # <<>> /\ queue[1].kind = "requested" /\ Admits(queue[1])
      /\ Execute(queue[1].turn, "waiting") /\ Done(<<>>)
      /\ pending' = [pending EXCEPT ![queue[1].turn] = @ \cup {queue[1].about}]
      /\ UNCHANGED <<gate, spent, chat, closed, anchors, bindings>>
  BY <1>1, HeadIs DEF InteractionRequested, Commit, Running
<1>3. queue[1].turn \in Turns /\ queue[1].about \in Requests /\ "waiting" \in Executing
  BY <1>1, <1>2, HeadIs DEF JobShape, Lifecycle, Executing
<1>4. turns[queue[1].turn] \in Open
  BY <1>2, AdmitsOpen
<1>5. AtAgentStays /\ UNCHANGED <<loaded, reported, asked>>
  BY DEF agentVars, codexVars, AtAgentStays
<1>6. /\ asked' \in [Turns -> SUBSET Requests] /\ pending' \in [Turns -> SUBSET Requests]
      /\ closed' \in [Turns -> SUBSET Requests]
  BY <1>1, <1>2, <1>3, <1>5 DEF AgentTypes, HostTypes
<1>7. \A u \in Turns, r \in Requests : r \in pending'[u] => r \in pending[u] \/ IsRequested(queue[1], u, r)
  BY <1>1, <1>2, <1>3 DEF IsRequested, HostTypes
<1>8. \A u \in Turns, r \in Requests : ~IsAnswered(queue[1], u, r)
  BY <1>2 DEF IsAnswered
<1>9. \A u \in Turns : Shrinks(queue, pending, pending', 1, u)
  BY <1>7, <1>8 DEF Shrinks
<1> QED BY <1>2, <1>3, <1>4, <1>5, <1>6, <1>7, <1>9, ExecuteKeeps

\* An interaction that is settled is no longer pending, and nothing else changes.
LEMMA SettleIs ==
  ASSUME HostTypes, NEW t \in Turns, NEW r \in Requests, r \in pending[t], Settle(t, r)
  PROVE  /\ pending' \in [Turns -> SUBSET Requests] /\ closed' \in [Turns -> SUBSET Requests]
         /\ \A u \in Turns : pending'[u] \subseteq pending[u] /\ pending'[u] \cup closed'[u] \subseteq pending[u] \cup closed[u]
         /\ r \notin pending'[t]
BY DEF HostTypes, Settle

\* An interaction is closed.
LEMMA InteractionCompletedKeeps ==
  ASSUME IInv, InteractionCompleted, UNCHANGED agentVars
  PROVE  IInv'
<1>1. HostTypes /\ QueueTypes /\ AgentTypes
  BY PartsOf
<1>2. /\ queue # <<>> /\ queue[1].kind = "answered" /\ Admits(queue[1])
      /\ Execute(queue[1].turn, "running") /\ Done(<<>>) /\ Settle(queue[1].turn, queue[1].about)
      /\ UNCHANGED <<gate, spent, chat, anchors, bindings>>
  BY <1>1, HeadIs DEF InteractionCompleted, Commit, Running
<1>3. queue[1].turn \in Turns /\ queue[1].about \in Requests /\ "running" \in Executing
  BY <1>1, <1>2, HeadIs DEF JobShape, Lifecycle, Executing
<1>4. turns[queue[1].turn] \in Open /\ queue[1].about \in pending[queue[1].turn]
  <2>1. queue[1].about \in pending[queue[1].turn]
    BY <1>2 DEF Admits
  <2> QED BY <1>2, <2>1, AdmitsOpen
<1>5. AtAgentStays /\ UNCHANGED <<loaded, reported, asked>>
  BY DEF agentVars, codexVars, AtAgentStays
<1>6. /\ pending' \in [Turns -> SUBSET Requests] /\ closed' \in [Turns -> SUBSET Requests]
      /\ \A u \in Turns : pending'[u] \subseteq pending[u] /\ pending'[u] \cup closed'[u] \subseteq pending[u] \cup closed[u]
      /\ queue[1].about \notin pending'[queue[1].turn]
  BY <1>1, <1>2, <1>3, <1>4, SettleIs
<1>7. \A u \in Turns : Shrinks(queue, pending, pending', 1, u)
  BY <1>6 DEF Shrinks, IsAnswered
<1>8. asked' \in [Turns -> SUBSET Requests]
  BY <1>1, <1>5 DEF AgentTypes
<1>9. \A u \in Turns, r \in Requests : r \in pending'[u] \cup closed'[u] => r \in pending[u] \cup closed[u]
  BY <1>6
<1> QED BY <1>2, <1>3, <1>4, <1>5, <1>6, <1>7, <1>8, <1>9, ExecuteKeeps

\* A Turn ends: it must have no interaction open, which EndsAt ensures.
LEMMA TurnTerminalKeeps ==
  ASSUME IInv, TurnTerminal, UNCHANGED agentVars
  PROVE  IInv'
<1>1. HostTypes /\ QueueTypes /\ AgentTypes /\ HeldWhileOpen /\ Sends /\ Resting
  BY PartsOf
<1>0. PICK t : t = queue[1].turn
  OBVIOUS
<1>2. /\ queue # <<>> /\ queue[1].kind = "terminal" /\ Admits(queue[1]) /\ Done(<<>>)
      /\ turns' = [turns EXCEPT ![t] = queue[1].about]
      /\ activeTurn' = (IF activeTurn = t THEN NoTurn ELSE activeTurn)
      /\ bindings' = bindings \ {t} /\ anchors' = anchors \ {t}
      /\ UNCHANGED <<gate, spent, chat, pending, closed>>
  BY <1>0, <1>1, HeadIs DEF TurnTerminal, Commit, Running
<1>3. t \in Turns /\ queue[1].about \in Terminal /\ 1 \in 1 .. Len(queue)
  BY <1>0, <1>1, <1>2, HeadIs DEF JobShape, Lifecycle
<1>4. turns[t] \in Open
  BY <1>0, <1>2, AdmitsOpen
<1>5. AtAgentStays /\ UNCHANGED <<loaded, reported, asked>>
  BY DEF agentVars, codexVars, AtAgentStays
<1>6. /\ turns' \in [Turns -> {"none", "gone"} \cup Open \cup Terminal]
      /\ turns'[t] = queue[1].about /\ \A u \in Turns \ {t} : turns'[u] = turns[u]
      /\ turns'[t] \notin Open /\ turns'[t] # "none" /\ turns[t] # "none"
  BY <1>1, <1>2, <1>3, <1>4 DEF HostTypes, Terminal, Open, Executing
<1>7. HostTypes'
  BY <1>1, <1>2, <1>6 DEF HostTypes, Done
<1>8. HeldWhileOpen'
  BY <1>1, <1>2, <1>6 DEF HeldWhileOpen
<1>9. spent["failure"] <= spent'["failure"]
  BY <1>1, <1>2 DEF HostTypes, Disturbances
<1>10. \A u \in Turns : turns'[u] \in Open =>
        /\ turns[u] \in Open
        /\ Shrinks(queue, pending, pending', 1, u) /\ ~EndsAt(queue, pending, u, 1)
  <2> SUFFICES ASSUME NEW u \in Turns, turns'[u] \in Open
               PROVE  /\ turns[u] \in Open
                      /\ Shrinks(queue, pending, pending', 1, u) /\ ~EndsAt(queue, pending, u, 1)
    OBVIOUS
  <2>1. u # t /\ turns[u] \in Open
    BY <1>6
  <2>2. ~EndsAt(queue, pending, u, 1)
    BY <1>0, <2>1 DEF EndsAt, IsEnd
  <2>3. Shrinks(queue, pending, pending', 1, u)
    BY <1>2 DEF Shrinks, IsAnswered
  <2> QED BY <2>1, <2>2, <2>3
<1>11. \A u \in Turns : Active(u) /\ turns'[u] \notin Open =>
         Harmless(u) \/ (Codex /\ turns'[u] \in {"failed", "gone"})
  <2> SUFFICES ASSUME NEW u \in Turns, Active(u), turns'[u] \notin Open
               PROVE  Harmless(u) \/ (Codex /\ turns'[u] \in {"failed", "gone"})
    OBVIOUS
  <2>1. CASE u = t
    BY <1>0, <1>1, <1>2, <1>3, <1>6, <2>1 DEF Resting
  <2>2. CASE u # t
    BY <1>1, <1>6, <2>2 DEF Resting
  <2> QED BY <2>1, <2>2
<1>12. /\ loaded' \in {"loaded", "released", "gone"} /\ asked' \in [Turns -> SUBSET Requests]
       /\ \A u \in Turns : Comet /\ Active(u) => loaded' = "loaded"
  BY <1>1, <1>5 DEF AgentTypes, Sends
<1>13. \A u \in Turns : turns[u] = "none" <=> turns'[u] = "none"
  BY <1>6
<1> QED BY <1>2, <1>5, <1>7, <1>8, <1>9, <1>10, <1>11, <1>12, <1>13, JobKeeps

\* The Host asks the Agent, which answers, before it commits.
LEMMA RespondKeeps ==
  ASSUME IInv, Respond,
         UNCHANGED <<agent, loaded, run, cancelled, reported, waiting, used, thread, mine, byThread,
                     known, completion, native, interrupt, client>>
  PROVE  IInv'
<1>1. HostTypes /\ QueueTypes /\ AgentTypes /\ Sends /\ Raised
  BY PartsOf
<1>2. PICK t, r : t = queue[1].turn /\ r = queue[1].about
  OBVIOUS
<1>3. /\ queue # <<>> /\ queue[1].kind = "respond" /\ Admits(queue[1]) /\ 1 \in 1 .. Len(queue)
      /\ t \in Turns /\ r \in Requests
      /\ IF r \in asked[t]
           THEN /\ asked' = [asked EXCEPT ![t] = @ \ {r}]
                /\ RespondInteraction \/ CommitFails
           ELSE Done(<<>>) /\ UNCHANGED <<chatVars, gate, spent, asked>>
  <2>1. queue # <<>> /\ Head(queue).kind = "respond" /\ Admits(Head(queue))
    BY DEF Respond, Running
  <2>2. Head(queue) = queue[1] /\ 1 \in 1 .. Len(queue) /\ JobShape(queue[1])
    BY <1>1, <2>1, HeadIs
  <2> QED BY <1>2, <2>1, <2>2 DEF Respond, JobShape, Lifecycle
<1>4. turns[t] \in Open /\ r \in pending[t]
  BY <1>2, <1>3 DEF Admits
<1>5. AtAgentStays
  BY DEF AtAgentStays
<1>6. \A u \in Turns : Comet /\ Active(u) => loaded = "loaded"
  BY <1>1 DEF Sends
<1>7. loaded \in {"loaded", "released", "gone"}
  BY <1>1 DEF AgentTypes
<1>8. CASE r \notin asked[t]
  <2>1. Done(<<>>) /\ UNCHANGED <<chatVars, gate, spent, asked>>
    BY <1>3, <1>8
  <2>2. \A u \in Turns : ~EndsAt(queue, pending, u, 1) /\ \A x \in Requests : ~IsAnswered(queue[1], u, x)
    BY <1>3 DEF EndsAt, IsEnd, IsAnswered
  <2>3. /\ asked' \in [Turns -> SUBSET Requests] /\ spent' \in [Disturbances -> Nat]
        /\ spent["failure"] <= spent'["failure"]
    BY <1>1, <2>1 DEF AgentTypes, HostTypes, Disturbances
  <2> QED BY <1>3, <1>5, <1>6, <1>7, <2>1, <2>2, <2>3, VoidJobKeeps
<1>9. CASE r \in asked[t]
  <2>1. asked' = [asked EXCEPT ![t] = @ \ {r}] /\ (RespondInteraction \/ CommitFails)
    BY <1>3, <1>9
  <2>2. /\ asked' \in [Turns -> SUBSET Requests] /\ \A u \in Turns : asked'[u] \subseteq asked[u]
        /\ \A u \in Turns, x \in Requests : x \in asked[u] /\ x \notin asked'[u] => u = t /\ x = r
    BY <1>1, <1>3, <2>1 DEF AgentTypes
  <2>3. CASE CommitFails
    <3>1. /\ Done(<<>>) /\ UNCHANGED <<chatVars, gate>> /\ spent' \in [Disturbances -> Nat]
          /\ spent'["failure"] > 0 /\ spent["failure"] <= spent'["failure"]
      BY <1>1, <2>3, FailureSpends
    <3> QED BY <1>3, <1>5, <1>6, <1>7, <2>2, <3>1, VoidJobKeeps
  <2>4. CASE RespondInteraction
    <3>1. /\ Execute(t, "running") /\ Settle(t, r) /\ Done(<<>>) /\ "running" \in Executing
          /\ UNCHANGED <<gate, spent, chat, anchors, bindings>>
      BY <1>1, <1>2, <1>3, <2>4, HeadIs DEF RespondInteraction, Commit, Executing
    <3>2. /\ pending' \in [Turns -> SUBSET Requests] /\ closed' \in [Turns -> SUBSET Requests]
          /\ \A u \in Turns : pending'[u] \subseteq pending[u] /\ pending'[u] \cup closed'[u] \subseteq pending[u] \cup closed[u]
          /\ r \notin pending'[t]
      BY <1>1, <1>3, <1>4, <3>1, SettleIs
    <3>3. \A u \in Turns : Shrinks(queue, pending, pending', 1, u)
      BY <1>3, <3>2 DEF Shrinks, IsAnswered
    <3>4. SettledBy(queue', pending', t, r, Len(queue'))
      <4>1. \A j \in 1 .. Len(queue) : ~IsRequested(queue[j], t, r)
        BY <1>1, <1>3, <1>4 DEF Raised
      <4>2. \A j \in 1 .. Len(queue') : ~IsRequested(queue'[j], t, r)
        BY <1>1, <1>3, <3>1, <4>1, RestOf
      <4> QED BY <3>2, <4>2 DEF SettledBy, OpenedBy
    <3>5. \A u \in Turns, x \in Requests : x \notin asked'[u] =>
            x \notin asked[u] \/ SettledBy(queue', pending', u, x, Len(queue'))
      BY <2>2, <3>4
    <3>6. \A u \in Turns, x \in Requests : x \in pending'[u] \cup closed'[u] => x \in pending[u] \cup closed[u]
      BY <3>2
    <3> QED BY <1>3, <1>4, <1>5, <2>2, <3>1, <3>2, <3>3, <3>5, <3>6, ExecuteKeeps
  <2> QED BY <2>1, <2>3, <2>4
<1> QED BY <1>8, <1>9

-----------------------------------------------------------------------------
(* Release, materialisation and deletion of the Chat *)

\* A lifecycle mutation at the head of the queue settles and ends nothing.
LEMMA LifecycleHead ==
  ASSUME QueueTypes, queue # <<>>, Head(queue).kind \in Lifecycle
  PROVE  \A u \in Turns : ~EndsAt(queue, pending, u, 1) /\ \A r \in Requests : ~IsAnswered(queue[1], u, r)
BY HeadIs DEF Lifecycle, EndsAt, IsEnd, IsAnswered

\* A Chat that Comet's Turn runs in is neither released nor deleted there, and
\* is loaded already.
LEMMA BusyRefuses ==
  ASSUME IInv, NEW to \in {"released", "loaded", "gone"}, ~AgentRefuses(to), Comet
  PROVE  \A t \in Turns : ~Active(t)
<1>1. Sends
  BY PartsOf
<1>2. CASE to = "released"
  BY <1>2 DEF AgentRefuses
<1>3. CASE to = "loaded"
  BY <1>1, <1>3 DEF AgentRefuses, Sends
<1>4. CASE to = "gone"
  BY <1>4 DEF AgentRefuses
<1> QED BY <1>2, <1>3, <1>4

\* The Agent refused, or the commit failed after the Agent had done its part.
LEMMA LifecycleFailsKeeps ==
  ASSUME IInv, queue # <<>>, Head(queue).kind \in Lifecycle, AtAgentStays,
         \/ /\ Done(<<>>) /\ UNCHANGED <<chatVars, gate, spent, loaded>>
         \/ /\ CommitFails /\ loaded' \in {"loaded", "released", "gone"}
            /\ Comet => loaded' = loaded,
         asked' = asked, reported' = reported
  PROVE  IInv'
<1>1. HostTypes /\ QueueTypes /\ AgentTypes /\ Sends
  BY PartsOf
<1>2. \A u \in Turns : ~EndsAt(queue, pending, u, 1) /\ \A r \in Requests : ~IsAnswered(queue[1], u, r)
  BY <1>1, LifecycleHead
<1>3. Done(<<>>) /\ UNCHANGED <<chatVars, gate>> /\ spent' \in [Disturbances -> Nat]
      /\ spent["failure"] <= spent'["failure"]
  <2>1. CASE CommitFails
    BY <1>1, <2>1, FailureSpends
  <2>2. CASE Done(<<>>) /\ UNCHANGED <<chatVars, gate, spent>>
    BY <1>1, <2>2 DEF HostTypes, Disturbances
  <2> QED BY <2>1, <2>2
<1>4. loaded' \in {"loaded", "released", "gone"} /\ \A t \in Turns : Comet /\ Active(t) => loaded' = "loaded"
  BY <1>1 DEF AgentTypes, Sends
<1>5. asked' \in [Turns -> SUBSET Requests]
  BY <1>1 DEF AgentTypes
<1> QED BY <1>2, <1>3, <1>4, <1>5, VoidJobKeeps

\* A commit that leaves the Turns as they are.
LEMMA LifecycleCommitKeeps ==
  ASSUME IInv, queue # <<>>, Head(queue).kind \in Lifecycle, AtAgentStays, Done(<<>>),
         UNCHANGED <<turns, activeTurn, pending, closed, anchors, gate, spent, asked, reported>>,
         chat' \in {"available", "released", "deleted"}, bindings' \subseteq bindings,
         loaded' \in {"loaded", "released", "gone"}, Comet => \A t \in Turns : ~Active(t)
  PROVE  IInv'
<1>1. HostTypes /\ QueueTypes /\ AgentTypes /\ HeldWhileOpen /\ Resting
  BY PartsOf
<1>2. \A u \in Turns : ~EndsAt(queue, pending, u, 1) /\ \A r \in Requests : ~IsAnswered(queue[1], u, r)
  BY <1>1, LifecycleHead
<1>3. HostTypes'
  BY <1>1 DEF HostTypes, Done
<1>4. HeldWhileOpen'
  BY <1>1 DEF HeldWhileOpen
<1>5. \A t \in Turns : turns'[t] \in Open =>
        turns[t] \in Open /\ Shrinks(queue, pending, pending', 1, t) /\ ~EndsAt(queue, pending, t, 1)
  BY <1>2 DEF Shrinks
<1>6. \A t \in Turns : Active(t) /\ turns'[t] \notin Open =>
        Harmless(t) \/ (Codex /\ turns'[t] \in {"failed", "gone"})
  BY <1>1 DEF Resting
<1>7. asked' \in [Turns -> SUBSET Requests] /\ spent["failure"] <= spent'["failure"]
  BY <1>1 DEF AgentTypes, HostTypes, Disturbances
<1> QED BY <1>3, <1>4, <1>5, <1>6, <1>7, JobKeeps

\* The backing of the Chat is released.
LEMMA ReleaseKeeps ==
  ASSUME IInv, Release, UNCHANGED <<agent, run, cancelled, reported, waiting, codexVars>>
  PROVE  IInv'
<1>1. queue # <<>> /\ Head(queue).kind \in Lifecycle /\ AtAgentStays /\ asked' = asked /\ reported' = reported
  BY DEF Release, Running, Lifecycle, AtAgentStays, codexVars
<1>2. \/ Done(<<>>) /\ UNCHANGED <<chatVars, gate, spent, loaded>>
      \/ ~AgentRefuses("released") /\ ReleaseChat /\ loaded' = "released"
      \/ ~AgentRefuses("released") /\ CommitFails /\ Undone("released")
  BY Zenon DEF Release
<1>3. CASE ~AgentRefuses("released") /\ ReleaseChat /\ loaded' = "released"
  <2>1. Comet => \A t \in Turns : ~Active(t)
    BY <1>3, BusyRefuses
  <2>2. /\ chat' = "released" /\ bindings' = {} /\ Done(<<>>)
        /\ UNCHANGED <<turns, activeTurn, pending, closed, anchors, gate, spent>>
    BY <1>3 DEF ReleaseChat, Commit
  <2> QED BY <1>1, <1>3, <2>1, <2>2, LifecycleCommitKeeps
<1>4. CASE ~AgentRefuses("released") /\ CommitFails /\ Undone("released")
  <2>1. (Codex /\ ~Comet) \/ (Comet /\ ~Codex)
    BY PartsOf DEF AgentTypes, Codex, Comet
  <2>2. loaded' \in {"loaded", "released", "gone"} /\ (Comet => loaded' = loaded)
    BY <1>4, <2>1, PartsOf DEF Undone, AgentTypes
  <2> QED BY <1>1, <1>4, <2>2, LifecycleFailsKeeps
<1> QED BY <1>1, <1>2, <1>3, <1>4, LifecycleFailsKeeps

\* The backing of the Chat is loaded again.
LEMMA MaterializeKeeps ==
  ASSUME IInv, Materialize, UNCHANGED <<agent, run, cancelled, reported, waiting, codexVars>>
  PROVE  IInv'
<1>1. queue # <<>> /\ Head(queue).kind \in Lifecycle /\ AtAgentStays /\ asked' = asked /\ reported' = reported
  BY DEF Materialize, Running, Lifecycle, AtAgentStays, codexVars
<1>2. \/ Done(<<>>) /\ UNCHANGED <<chatVars, gate, spent, loaded>>
      \/ ~AgentRefuses("loaded") /\ MaterializeChat /\ loaded' = "loaded"
      \/ ~AgentRefuses("loaded") /\ CommitFails /\ Undone("loaded")
  BY Zenon DEF Materialize
<1>3. CASE ~AgentRefuses("loaded") /\ MaterializeChat /\ loaded' = "loaded"
  <2>1. Comet => \A t \in Turns : ~Active(t)
    BY <1>3, BusyRefuses
  <2>2. /\ chat' = "available" /\ Done(<<>>) /\ bindings' \subseteq bindings
        /\ UNCHANGED <<turns, activeTurn, pending, closed, anchors, gate, spent>>
    BY <1>3 DEF MaterializeChat, Commit
  <2> QED BY <1>1, <1>3, <2>1, <2>2, LifecycleCommitKeeps
<1>4. CASE ~AgentRefuses("loaded") /\ CommitFails /\ Undone("loaded")
  <2>1. (Codex /\ ~Comet) \/ (Comet /\ ~Codex)
    BY PartsOf DEF AgentTypes, Codex, Comet
  <2>2. loaded' \in {"loaded", "released", "gone"} /\ (Comet => loaded' = loaded)
    BY <1>4, <2>1, PartsOf DEF Undone, AgentTypes
  <2> QED BY <1>1, <1>4, <2>2, LifecycleFailsKeeps
<1> QED BY <1>1, <1>2, <1>3, <1>4, LifecycleFailsKeeps

\* When the deletion is committed no Turn is open, and Codex may still run one.
\* When its commit fails Codex has forgotten what it had reported all the same.
LEMMA DeleteKeeps ==
  ASSUME IInv, Delete, UNCHANGED <<agent, run, cancelled, waiting, codexVars>>
  PROVE  IInv'
<1>1. queue # <<>> /\ Head(queue).kind \in Lifecycle /\ AtAgentStays /\ asked' = asked
  BY DEF Delete, Running, Lifecycle, AtAgentStays, codexVars
<1>2. HostTypes /\ QueueTypes /\ AgentTypes /\ HeldWhileOpen /\ Sends /\ Resting
  BY PartsOf
<1>3. \/ Done(<<>>) /\ UNCHANGED <<chatVars, gate, spent, loaded, reported>>
      \/ /\ ~AgentRefuses("gone") /\ (DeleteChat \/ CommitFails) /\ loaded' = "gone"
         /\ reported' = (IF Codex THEN {} ELSE reported)
  BY Zenon DEF Delete
<1>4. CASE Done(<<>>) /\ UNCHANGED <<chatVars, gate, spent, loaded, reported>>
  BY <1>1, <1>4, LifecycleFailsKeeps
<1>5. CASE /\ ~AgentRefuses("gone") /\ (DeleteChat \/ CommitFails) /\ loaded' = "gone"
           /\ reported' = (IF Codex THEN {} ELSE reported)
  <2>1. Comet => \A t \in Turns : ~Active(t)
    BY <1>5, BusyRefuses
  <2>2. reported' \subseteq reported
    BY <1>5
  <2>3. /\ loaded' \in {"loaded", "released", "gone"} /\ asked' \in [Turns -> SUBSET Requests]
        /\ \A t \in Turns : Comet /\ Active(t) => loaded' = "loaded"
    BY <1>1, <1>2, <1>5, <2>1 DEF AgentTypes
  <2>4. CASE DeleteChat
    <3>1. /\ chat' = "deleted" /\ bindings' = {} /\ activeTurn' = NoTurn /\ Done(<<>>)
          /\ turns' = [t \in Turns |-> IF turns[t] = "none" THEN "none" ELSE "gone"]
          /\ UNCHANGED <<pending, closed, anchors, gate, spent>>
      BY <2>4 DEF DeleteChat, Commit
    <3>2. /\ turns' \in [Turns -> {"none", "gone"} \cup Open \cup Terminal]
          /\ \A t \in Turns : /\ turns'[t] \notin Open /\ (turns[t] = "none" <=> turns'[t] = "none")
                              /\ turns[t] # "none" => turns'[t] = "gone"
      BY <3>1 DEF Open, Executing
    <3>3. HostTypes'
      BY <1>2, <3>1, <3>2 DEF HostTypes, Done
    <3>4. HeldWhileOpen'
      <4>1. \A t \in Turns : t \in anchors => turns[t] # "none"
        BY <1>2 DEF HeldWhileOpen, Open, Executing
      <4> QED BY <3>1, <3>2, <4>1 DEF HeldWhileOpen
    <3>5. \A t \in Turns : Active(t) => Codex /\ turns'[t] = "gone"
      <4> SUFFICES ASSUME NEW t \in Turns, Active(t) PROVE Codex /\ turns'[t] = "gone"
        OBVIOUS
      <4>1. turns[t] # "none"
        BY NotFresh DEF Active
      <4>2. Codex
        BY <1>2, <2>1 DEF AgentTypes, Codex, Comet
      <4> QED BY <3>2, <4>1, <4>2
    <3>6. spent["failure"] <= spent'["failure"]
      BY <1>2, <3>1 DEF HostTypes, Disturbances
    <3> QED BY <1>1, <2>2, <2>3, <3>1, <3>2, <3>3, <3>4, <3>5, <3>6, JobKeeps
  <2>5. CASE CommitFails
    <3>1. /\ Done(<<>>) /\ UNCHANGED <<chatVars, gate>> /\ spent' \in [Disturbances -> Nat]
          /\ spent'["failure"] > 0 /\ spent["failure"] <= spent'["failure"]
      BY <1>2, <2>5, FailureSpends
    <3>2. UNCHANGED <<turns, pending, closed>>
      BY <3>1 DEF chatVars
    <3>3. HostTypes' /\ HeldWhileOpen'
      BY <1>2, <3>1 DEF HostTypes, HeldWhileOpen, chatVars, Done
    <3>4. \A t \in Turns : Active(t) /\ turns'[t] \notin Open =>
            Harmless(t) \/ (Codex /\ turns'[t] \in {"failed", "gone"})
      BY <1>2, <3>2 DEF Resting
    <3> QED BY <1>1, <2>2, <2>3, <3>1, <3>2, <3>3, <3>4, JobKeeps
  <2> QED BY <1>5, <2>4, <2>5
<1> QED BY <1>3, <1>4, <1>5

\* A step of the Host that ends, begins or refuses a job.
LEMMA HostStepKeeps ==
  ASSUME IInv, HostStep
  PROVE  IInv'
<1>1. CASE HostCalls
  <2>1. CASE Send /\ UNCHANGED <<agent, loaded, cancelled, reported, waiting, codexVars>>
    BY <2>1, SendKeeps
  <2>2. CASE Cancel
    BY <2>2, CancelKeeps
  <2>3. CASE Respond /\ UNCHANGED <<agent, loaded, run, cancelled, reported, waiting, used, thread, mine,
                                    byThread, known, completion, native, interrupt, client>>
    BY <2>3, RespondKeeps
  <2>4. CASE (Release \/ Materialize) /\ UNCHANGED <<agent, run, cancelled, reported, waiting, codexVars>>
    BY <2>4, ReleaseKeeps, MaterializeKeeps
  <2>5. CASE Delete /\ UNCHANGED <<agent, run, cancelled, waiting, codexVars>>
    BY <2>5, DeleteKeeps
  <2> QED BY <1>1, <2>1, <2>2, <2>3, <2>4, <2>5 DEF HostCalls
<1>2. CASE (Begin \/ Refuse \/ JobCommitFails \/ ApplyAgentAction) /\ UNCHANGED agentVars
  BY <1>2, BeginKeeps, RefuseKeeps, JobCommitFailsKeeps, TurnProgressKeeps, InteractionRequestedKeeps,
     InteractionCompletedKeeps, TurnTerminalKeeps DEF ApplyAgentAction
<1> QED BY <1>1, <1>2 DEF HostStep

-----------------------------------------------------------------------------
(* The client and the gate *)

\* What a step that only the Host takes leaves alone.
LEMMA AgentStays ==
  ASSUME Types, Sends, Asking, Awaited, HostTypes', UNCHANGED <<agentVars, chatVars>>,
         spent["failure"] <= spent'["failure"]
  PROVE  AgentTypes' /\ Sends' /\ Asking' /\ Awaited'
<1>1. UNCHANGED <<agent, loaded, run, cancelled, reported, asked, used, thread, mine, byThread, known,
                  completion, native, interrupt, waiting, client>>
  BY DEF agentVars, codexVars
<1>2. AgentTypes'
  BY <1>1 DEF Types, AgentTypes
<1>3. Sends' /\ Asking'
  BY <1>1 DEF Sends, Asking, Codex, Comet, Active, AtServer, Requesting
<1>4. Awaited'
  <2>1. \A t \in Turns : Deaf(t)' => Deaf(t)
    BY <1>1 DEF Deaf, chatVars
  <2> QED BY <2>1, AwaitedKeeps DEF Types
<1> QED BY <1>2, <1>3, <1>4

\* The Host accepts a mutation.
LEMMA MutateKeeps ==
  ASSUME IInv, NEW job \in Jobs, JobShape(job), Mutate(job), job.kind \in Mutations, UNCHANGED agentVars,
         spent' \in [Disturbances -> Nat], spent["failure"] <= spent'["failure"],
         job.kind = "submit" => turns[job.turn] = "none" /\ \A i \in 1 .. Len(queue) : queue[i].kind # "submit",
         \A t \in Turns : job.turn = t /\ turns[t] = "none" => job.kind = "submit"
  PROVE  IInv'
<1>1. Types /\ HostTypes /\ QueueTypes /\ AgentTypes /\ Sends /\ Asking
  BY PartsOf
<1>2. queue' = Append(queue, job) /\ UNCHANGED <<chatVars, started, gate>>
  BY DEF Mutate
<1>3. job.kind \notin {"terminal", "requested"}
  BY DEF Mutations
<1>4. UNCHANGED <<agent, run, cancelled, reported, completion, known, used, asked>>
  BY DEF agentVars, codexVars
<1>5. HostTypes'
  BY <1>1, <1>2 DEF HostTypes, chatVars
<1>6. AgentTypes' /\ Sends' /\ Asking' /\ Awaited'
  BY <1>1, <1>2, <1>5, PartsOf, AgentStays
<1>7. QueueTypes'
  <2>1. PICK e : e = <<job>>
    OBVIOUS
  <2>2. Follows(queue, queue', 0, e)
    BY <1>1, <1>2, <2>1, AppendFollows DEF QueueTypes
  <2>3. \A i \in 1 .. Len(e) : JobShape(e[i])
    BY <2>1
  <2> QED BY <1>1, <2>2, <2>3, TypesFollow DEF QueueTypes
<1>8. Types'
  BY <1>5, <1>6, <1>7 DEF Types
<1>9. \A t \in Turns, r \in Requests : ~IsRequested(job, t, r)
  BY <1>3 DEF IsRequested
<1>10. /\ (HeldWhileOpen /\ Fresh /\ Submits /\ Raised)'
       /\ (Settled /\ Told /\ Resting /\ Gated)'
  BY <1>2, <1>3, <1>4, <1>8, <1>9, JoinKeeps
<1> QED BY <1>6, <1>8, <1>10 DEF IInv

\* A client sends a mutation.
LEMMA ClientMutatesKeeps ==
  ASSUME IInv, ClientMutates
  PROVE  IInv'
<1>1. Types /\ HostTypes /\ QueueTypes /\ AgentTypes /\ Raised
  BY PartsOf
<1>2. UNCHANGED agentVars
  BY DEF ClientMutates
<1>3. Queued("submit") \/ \A i \in 1 .. Len(queue) : queue[i].kind # "submit"
  BY <1>1 DEF Queued, QueueTypes
<1>4. /\ spent \in [Disturbances -> Nat] /\ spent["failure"] <= spent["failure"]
      /\ \A what \in {"cancel", "lifecycle"} : Spend(what) =>
           spent' \in [Disturbances -> Nat] /\ spent["failure"] <= spent'["failure"]
  BY <1>1 DEF HostTypes, Disturbances, Spend
<1>5. CASE /\ \E t \in Turns : turns[t] = "none" /\ ~Queued("submit")
           /\ Mutate(Job("submit", CHOOSE t \in Turns : turns[t] = "none", "")) /\ UNCHANGED spent
  <2>1. PICK u : u = CHOOSE t \in Turns : turns[t] = "none"
    OBVIOUS
  <2>2. u \in Turns /\ turns[u] = "none" /\ ~Queued("submit")
    BY <1>5, <2>1
  <2>3. PICK job : job = Job("submit", u, "")
    OBVIOUS
  <2>4. /\ job \in Jobs /\ JobShape(job) /\ job.kind = "submit" /\ job.turn = u /\ job.kind \in Mutations
    BY <2>2, <2>3 DEF Job, Jobs, Kinds, Mutations, JobShape
  <2>5. Mutate(job)
    BY <1>5, <2>1, <2>3
  <2> QED BY <1>2, <1>3, <1>4, <1>5, <2>2, <2>4, <2>5, MutateKeeps
<1>6. CASE /\ \E t \in Turns : turns[t] # "none" /\ Mutate(Job("cancel", t, ""))
           /\ Spend("cancel")
  <2>1. PICK t \in Turns : turns[t] # "none" /\ Mutate(Job("cancel", t, ""))
    BY <1>6
  <2>2. PICK job : job = Job("cancel", t, "")
    OBVIOUS
  <2>3. /\ job \in Jobs /\ JobShape(job) /\ job.kind = "cancel" /\ job.turn = t /\ job.kind \in Mutations
    BY <2>2 DEF Job, Jobs, Kinds, Mutations, JobShape
  <2>4. Mutate(job)
    BY <2>1, <2>2
  <2> QED BY <1>2, <1>4, <1>6, <2>1, <2>3, <2>4, MutateKeeps
<1>7. CASE /\ \E t \in Turns, r \in Requests :
                /\ r \in pending[t] /\ ~Queued("respond")
                /\ Mutate(Job("respond", t, r))
           /\ UNCHANGED spent
  <2>1. PICK t \in Turns, r \in Requests : r \in pending[t] /\ Mutate(Job("respond", t, r))
    BY <1>7
  <2>2. PICK job : job = Job("respond", t, r)
    OBVIOUS
  <2>3. /\ job \in Jobs /\ JobShape(job) /\ job.kind = "respond" /\ job.turn = t /\ job.kind \in Mutations
    BY <2>2 DEF Job, Jobs, Kinds, Mutations, JobShape
  <2>4. Mutate(job)
    BY <2>1, <2>2
  <2>5. turns[t] # "none"
    <3>1. known[t] # NoTurn
      BY <1>1, <2>1 DEF Raised
    <3>2. run[t] # "none"
      BY <3>1, PartsOf DEF Sends
    <3> QED BY <3>2, NotFresh
  <2> QED BY <1>2, <1>4, <1>7, <2>3, <2>4, <2>5, MutateKeeps
<1>8. CASE /\ \E kind \in Lifecycle : Mutate(Job(kind, NoTurn, ""))
           /\ Spend("lifecycle")
  <2>1. PICK kind \in Lifecycle : Mutate(Job(kind, NoTurn, ""))
    BY <1>8
  <2>2. PICK job : job = Job(kind, NoTurn, "")
    OBVIOUS
  <2>3. /\ job \in Jobs /\ JobShape(job) /\ job.kind = kind /\ job.turn = NoTurn /\ job.kind \in Mutations
        /\ job.kind # "submit"
    BY <2>1, <2>2 DEF Job, Jobs, Kinds, Mutations, JobShape, Lifecycle
  <2>4. Mutate(job)
    BY <2>1, <2>2
  <2>5. \A t \in Turns : job.turn # t
    BY <2>3, NoTurnAssumption
  <2> QED BY <1>2, <1>4, <1>8, <2>3, <2>4, <2>5, MutateKeeps
<1> QED BY <1>5, <1>6, <1>7, <1>8, Zenon DEF ClientMutates

\* The gate is taken or given back, or found drained.
LEMMA GateKeeps ==
  ASSUME IInv, UNCHANGED <<chatVars, queue, started>>, UNCHANGED agentVars, Gated',
         gate' \in [by : {"none", "package", "shutdown"},
                    at : {"open", "cancel", "drain", "drained", "closed"}, turn : Turns \cup {NoTurn}],
         spent' \in [Disturbances -> Nat], spent["failure"] <= spent'["failure"]
  PROVE  IInv'
<1>1. Types /\ HostTypes /\ QueueTypes /\ AgentTypes /\ Sends /\ Asking
  BY PartsOf
<1>2. HostTypes' /\ QueueTypes'
  BY <1>1, ChatTypes DEF QueueTypes
<1>3. AgentTypes' /\ Sends' /\ Asking' /\ Awaited'
  BY <1>1, <1>2, PartsOf, AgentStays
<1>4. Types'
  BY <1>2, <1>3 DEF Types
<1>5. UNCHANGED <<agent, run, cancelled, reported, completion, asked, used, known>>
  BY DEF agentVars, codexVars
<1> QED BY <1>3, <1>4, <1>5, QuietKeeps

\* The gate is acquired, drains or opens again.
LEMMA GateStepKeeps ==
  ASSUME IInv, GateStep
  PROVE  IInv'
<1>1. HostTypes /\ Gated
  BY PartsOf
<1>2. /\ spent \in [Disturbances -> Nat] /\ spent["failure"] <= spent["failure"]
      /\ Spend("gate") => spent' \in [Disturbances -> Nat] /\ spent["failure"] <= spent'["failure"]
  BY <1>1 DEF HostTypes, Disturbances, Spend
<1>3. CASE CloseHost
  BY <1>3, CloseHostKeeps
<1>4. CASE AcquireForPackage /\ UNCHANGED agentVars
  <2>1. gate' = Held("package", "drain") /\ UNCHANGED <<chatVars, queue, started>> /\ Spend("gate")
    BY <1>4 DEF AcquireForPackage
  <2>2. Gated'
    BY <2>1 DEF Held, Gated
  <2> QED BY <1>2, <1>4, <2>1, <2>2, GateKeeps DEF Held
<1>5. CASE Drained /\ UNCHANGED agentVars
  <2>1. /\ IsQuiescent /\ UNCHANGED <<chatVars, queue, started, spent>>
        /\ \/ gate' = Held(gate.by, "drained") \/ gate' = Held(gate.by, "closed")
    BY <1>5 DEF Drained
  <2>2. Gated'
    BY <2>1 DEF Gated, IsQuiescent, chatVars
  <2>3. gate' \in [by : {"none", "package", "shutdown"},
                   at : {"open", "cancel", "drain", "drained", "closed"}, turn : Turns \cup {NoTurn}]
    BY <1>1, <2>1 DEF HostTypes, Held
  <2> QED BY <1>2, <1>5, <2>1, <2>2, <2>3, GateKeeps
<1>6. CASE PackageSettles /\ UNCHANGED agentVars
  <2>1. gate' = Idle /\ UNCHANGED <<chatVars, queue, started, spent>>
    BY <1>6 DEF PackageSettles
  <2>2. Gated'
    BY <2>1 DEF Idle, Gated
  <2> QED BY <1>2, <1>6, <2>1, <2>2, GateKeeps DEF Idle
<1> QED BY <1>3, <1>4, <1>5, <1>6 DEF GateStep

-----------------------------------------------------------------------------
(* What many Turns are told of at once *)

\* A set of naturals that holds 0 and, with a number, the next one up to a
\* bound, holds all numbers up to the bound.
LEMMA UpTo ==
  ASSUME NEW n \in Nat, NEW S, 0 \in S, \A i \in 0 .. n - 1 : i \in S => i + 1 \in S
  PROVE  0 .. n \subseteq S
<1> SUFFICES ASSUME NEW k \in 0 .. n, k \notin S PROVE FALSE
  OBVIOUS
<1> DEFINE R == {ss \in Nat \X Nat : ss[1] < ss[2]}
           T == (0 .. n) \ S
<1>1. IsWellFoundedOn(R, Nat)
  BY NatLessThanWellFounded DEF OpToRel
<1>2. T \subseteq Nat /\ T # {}
  OBVIOUS
<1>3. PICK i \in T : \A j \in T : ~(<<j, i>> \in R)
  BY <1>1, <1>2, WFMin
<1>4. i \in 0 .. n /\ i # 0 /\ i \notin S /\ \A j \in T : ~(j < i)
  BY <1>2, <1>3
<1>5. i - 1 \in 0 .. n - 1 /\ i - 1 \notin T
  BY <1>4
<1>6. i - 1 \in S
  BY <1>5
<1> QED BY <1>4, <1>5, <1>6

\* The recursion of FlattenSeq.
JoinedBy(s, n, f) == f = [i \in 1 .. n |-> IF i = 1 THEN s[i] ELSE f[i - 1] \o s[i]]

\* It has a solution for every length.
LEMMA JoinedExists ==
  ASSUME NEW s, NEW n \in Nat
  PROVE  \E f : JoinedBy(s, n, f)
<1> DEFINE S == {m \in Nat : \E f : JoinedBy(s, m, f)}
<1>1. 0 \in S
  <2>1. JoinedBy(s, 0, [i \in 1 .. 0 |-> s[i]])
    BY DEF JoinedBy
  <2> QED BY <2>1
<1>2. ASSUME NEW m \in 0 .. n - 1, m \in S PROVE m + 1 \in S
  <2>1. PICK f : JoinedBy(s, m, f)
    BY <1>2
  <2> DEFINE g == [k \in 1 .. m + 1 |->
                     IF k = m + 1 THEN IF k = 1 THEN s[k] ELSE f[k - 1] \o s[k] ELSE f[k]]
  <2>2. \A k \in 1 .. m : f[k] = IF k = 1 THEN s[k] ELSE f[k - 1] \o s[k]
    BY <2>1 DEF JoinedBy
  <2>3. \A k \in 1 .. m : g[k] = f[k]
    OBVIOUS
  <2>4. g[m + 1] = IF m + 1 = 1 THEN s[m + 1] ELSE f[m] \o s[m + 1]
    OBVIOUS
  <2>5. \A k \in 1 .. m + 1 : g[k] = IF k = 1 THEN s[k] ELSE g[k - 1] \o s[k]
    <3> HIDE DEF g
    <3> SUFFICES ASSUME NEW k \in 1 .. m + 1
                 PROVE  g[k] = IF k = 1 THEN s[k] ELSE g[k - 1] \o s[k]
      OBVIOUS
    <3>1. CASE k = m + 1
      <4>1. k = 1 \/ (k # 1 /\ k - 1 = m /\ m \in 1 .. m)
        BY <3>1
      <4> QED BY <3>1, <2>3, <2>4, <4>1
    <3>2. CASE k # m + 1
      <4>1. k \in 1 .. m /\ (k # 1 => k - 1 \in 1 .. m)
        BY <3>2
      <4> QED BY <4>1, <2>2, <2>3
    <3> QED BY <3>1, <3>2
  <2>6. JoinedBy(s, m + 1, g)
    BY <2>5 DEF JoinedBy
  <2> QED BY <2>6
<1>3. 0 .. n \subseteq S
  <2> HIDE DEF S
  <2> QED BY <1>1, <1>2, UpTo
<1> QED BY <1>3

\* FlattenSeq is the last value of that solution.
LEMMA FlattenRecursion ==
  ASSUME NEW s, NEW n \in Nat, Len(s) = n, n # 0
  PROVE  \E f : FlattenSeq(s) = f[n] /\ JoinedBy(s, n, f)
<1> DEFINE f == CHOOSE f : JoinedBy(s, n, f)
<1>1. JoinedBy(s, n, f)
  BY JoinedExists
<1>2. FlattenSeq(s) = f[n]
  BY DEF FlattenSeq, JoinedBy
<1> QED BY <1>1, <1>2

\* A part of a part.
LEMMA WithinWithin ==
  ASSUME NEW a, NEW b, NEW c, Within(a, b), Within(b, c)
  PROVE  Within(a, c)
<1>1. PICK o \in Nat : \A i \in 1 .. Len(a) : o + i \in 1 .. Len(b) /\ b[o + i] = a[i]
  BY DEF Within
<1>2. PICK p \in Nat : \A i \in 1 .. Len(b) : p + i \in 1 .. Len(c) /\ c[p + i] = b[i]
  BY DEF Within
<1>3. \A i \in 1 .. Len(a) : (p + o) + i \in 1 .. Len(c) /\ c[(p + o) + i] = a[i]
  <2> SUFFICES ASSUME NEW i \in 1 .. Len(a) PROVE (p + o) + i \in 1 .. Len(c) /\ c[(p + o) + i] = a[i]
    OBVIOUS
  <2>1. o + i \in 1 .. Len(b) /\ b[o + i] = a[i]
    BY <1>1
  <2>2. p + (o + i) \in 1 .. Len(c) /\ c[p + (o + i)] = b[o + i]
    BY <1>2, <2>1
  <2>3. p + (o + i) = (p + o) + i
    OBVIOUS
  <2> QED BY <2>1, <2>2, <2>3
<1>4. p + o \in Nat
  OBVIOUS
<1> QED BY <1>3, <1>4 DEF Within

\* c holds the first m of the speeches s, and nothing else.
JoinOf(s, c, m) ==
  /\ Speech(c)
  /\ \A i \in 1 .. m : Within(s[i], c)
  /\ \A j \in 1 .. Len(c) : \E i \in 1 .. m : \E k \in 1 .. Len(s[i]) : c[j] = s[i][k]

\* A sequence of speeches, one after the other.
LEMMA SpeechesFlatten ==
  ASSUME NEW n \in Nat, NEW s, s = <<>> \/ n # 0, Len(s) = n, \A i \in 1 .. n : Speech(s[i])
  PROVE  JoinOf(s, FlattenSeq(s), n)
<1>1. CASE n = 0
  <2>1. FlattenSeq(s) = <<>>
    BY <1>1 DEF FlattenSeq
  <2>2. PICK c : c = FlattenSeq(s)
    OBVIOUS
  <2>3. Speech(c) /\ Len(c) = 0
    BY <2>1, <2>2, NothingIsSpeech
  <2> QED BY <1>1, <2>2, <2>3 DEF JoinOf
<1>2. CASE n # 0
  <2>1. PICK f : FlattenSeq(s) = f[n] /\ JoinedBy(s, n, f)
    BY <1>2, FlattenRecursion
  <2>2. \A k \in 1 .. n : f[k] = IF k = 1 THEN s[k] ELSE f[k - 1] \o s[k]
    BY <2>1 DEF JoinedBy
  <2> DEFINE S == {m \in Nat : m = 0 \/ JoinOf(s, f[m], m)}
  <2>3. 0 \in S
    OBVIOUS
  <2>4. ASSUME NEW m \in 0 .. n - 1, m \in S PROVE m + 1 \in S
    <3>1. m + 1 \in 1 .. n /\ Speech(s[m + 1])
      OBVIOUS
    <3>2. CASE m = 0
      <4>1. f[1] = s[1] /\ Speech(s[1])
        BY <2>2, <3>1, <3>2
      <4>2. \A i \in 1 .. Len(s[1]) : 0 + i \in 1 .. Len(s[1]) /\ s[1][0 + i] = s[1][i]
        OBVIOUS
      <4>3. Within(s[1], s[1])
        BY <4>2 DEF Within
      <4>4. JoinOf(s, f[1], 1)
        BY <4>1, <4>3 DEF JoinOf
      <4> QED BY <3>2, <4>4
    <3>3. CASE m # 0
      <4>1. JoinOf(s, f[m], m)
        BY <2>4, <3>3
      <4>2. PICK a, b, c : a = f[m] /\ b = s[m + 1] /\ c = f[m + 1]
        OBVIOUS
      <4>3. c = a \o b
        <5>1. m + 1 # 1 /\ (m + 1) - 1 = m
          BY <3>3
        <5>2. f[m + 1] = f[(m + 1) - 1] \o s[m + 1]
          BY <2>2, <3>1, <5>1
        <5>3. f[(m + 1) - 1] = f[m]
          BY <5>1
        <5> QED BY <4>2, <5>2, <5>3, Zenon
      <4>4. Speech(a) /\ Speech(b)
        BY <3>1, <4>1, <4>2 DEF JoinOf
      <4>5. Speech(c) /\ Within(a, c) /\ Within(b, c)
        BY <4>3, <4>4, SpeechesJoin, JoinWithin
      <4>6. \A i \in 1 .. m + 1 : Within(s[i], c)
        <5> SUFFICES ASSUME NEW i \in 1 .. m + 1 PROVE Within(s[i], c)
          OBVIOUS
        <5>1. CASE i = m + 1
          BY <4>2, <4>5, <5>1
        <5>2. CASE i # m + 1
          <6>1. i \in 1 .. m
            BY <5>2
          <6>2. Within(s[i], a)
            BY <4>1, <4>2, <6>1 DEF JoinOf
          <6> QED BY <4>5, <6>2, WithinWithin
        <5> QED BY <5>1, <5>2
      <4>7. \A j \in 1 .. Len(c) : \E i \in 1 .. m + 1 : \E k \in 1 .. Len(s[i]) : c[j] = s[i][k]
        <5> SUFFICES ASSUME NEW j \in 1 .. Len(c)
                     PROVE  \E i \in 1 .. m + 1 : \E k \in 1 .. Len(s[i]) : c[j] = s[i][k]
          OBVIOUS
        <5>1. \/ j \in 1 .. Len(a) /\ c[j] = a[j]
              \/ j - Len(a) \in 1 .. Len(b) /\ c[j] = b[j - Len(a)]
          BY <4>3, <4>4, SpeechesJoin
        <5>2. CASE j \in 1 .. Len(a) /\ c[j] = a[j]
          <6>1. PICK i \in 1 .. m : \E k \in 1 .. Len(s[i]) : a[j] = s[i][k]
            BY <4>1, <4>2, <5>2 DEF JoinOf
          <6>2. i \in 1 .. m + 1
            OBVIOUS
          <6> QED BY <5>2, <6>1, <6>2
        <5>3. CASE j - Len(a) \in 1 .. Len(b) /\ c[j] = b[j - Len(a)]
          <6>1. m + 1 \in 1 .. m + 1
            OBVIOUS
          <6> QED BY <4>2, <5>3, <6>1
        <5> QED BY <5>1, <5>2, <5>3
      <4>8. JoinOf(s, f[m + 1], m + 1)
        BY <4>2, <4>5, <4>6, <4>7 DEF JoinOf
      <4> QED BY <4>8
    <3> QED BY <3>2, <3>3
  <2>5. 0 .. n \subseteq S
    <3> HIDE DEF S
    <3> QED BY <2>3, <2>4, UpTo
  <2>6. JoinOf(s, f[n], n)
    BY <1>2, <2>5
  <2> QED BY <2>1, <2>6
<1> QED BY <1>1, <1>2

\* What is said of each Turn that the Agent runs, and then of each whose
\* cancellation is refused.
Farewell(t) == Completions(t) \o Failure(t)
Closings(active) == [i \in 1 .. Cardinality(active) |-> Farewell(SetToSeq(active)[i])]
Rejections(refused) == SetToSeq({Rejected(t) : t \in refused})
Loss(active, refused) == FlattenSeq(Closings(active)) \o Rejections(refused)

\* What is said of one Turn when the client is gone.
LEMMA ClosingSaid ==
  ASSUME Types, NEW t \in Turns, NEW e, e = Farewell(t)
  PROVE  /\ Speech(e)
         /\ \A i \in 1 .. Len(e) : e[i].turn = t /\ (e[i].kind = "terminal" => e[i].about = "failed")
         /\ \A r \in asked[t] : \E i \in 1 .. Len(e) : IsAnswered(e[i], t, r)
         /\ t \in reported \/ Tells(e, t, asked[t])
<1>1. PICK a, b : a = Completions(t) /\ b = Failure(t)
  OBVIOUS
<1>2. /\ Speech(a) /\ \A i \in 1 .. Len(a) : a[i].turn = t /\ a[i].kind = "answered"
      /\ \A r \in asked[t] : \E i \in 1 .. Len(a) : IsAnswered(a[i], t, r)
  BY <1>1, CompletionsAre
<1>3. /\ Speech(b) /\ \A i \in 1 .. Len(b) : IsEnd(b[i], t) /\ b[i].turn = t /\ b[i].about = "failed"
      /\ t \notin reported => 1 \in 1 .. Len(b)
  BY <1>1, FailureSaid
<1>0. e = a \o b
  BY <1>1 DEF Farewell
<1>4. /\ Speech(e) /\ \A i \in 1 .. Len(a) : i \in 1 .. Len(e) /\ e[i] = a[i]
      /\ \A i \in 1 .. Len(e) : \/ i \in 1 .. Len(a) /\ e[i] = a[i]
                                \/ i - Len(a) \in 1 .. Len(b) /\ e[i] = b[i - Len(a)]
  BY <1>0, <1>2, <1>3, SpeechesJoin
<1>5. \A i \in 1 .. Len(e) : e[i].turn = t /\ (e[i].kind = "terminal" => e[i].about = "failed")
  <2> SUFFICES ASSUME NEW i \in 1 .. Len(e)
               PROVE  e[i].turn = t /\ (e[i].kind = "terminal" => e[i].about = "failed")
    OBVIOUS
  <2>1. CASE i \in 1 .. Len(a) /\ e[i] = a[i]
    BY <1>2, <2>1
  <2>2. CASE i - Len(a) \in 1 .. Len(b) /\ e[i] = b[i - Len(a)]
    BY <1>3, <2>2
  <2> QED BY <1>4, <2>1, <2>2
<1>6. \A r \in asked[t] : \E i \in 1 .. Len(e) : IsAnswered(e[i], t, r)
  BY <1>2, <1>4
<1>7. t \in reported \/ Tells(e, t, asked[t])
  <2> SUFFICES ASSUME t \notin reported PROVE Tells(e, t, asked[t])
    OBVIOUS
  <2>1. 1 \in 1 .. Len(b) /\ IsEnd(b[1], t) /\ (b[1].data => b[1].about = "failed")
    BY <1>3
  <2> QED BY <1>0, <1>2, <1>3, <2>1, JoinTells
<1> QED BY <1>4, <1>5, <1>6, <1>7

\* The failures of the Turns whose cancellation is refused.
LEMMA RejectionsSaid ==
  ASSUME NEW R, R \subseteq Turns, NEW e, e = Rejections(R)
  PROVE  /\ Speech(e)
         /\ \A i \in 1 .. Len(e) : e[i].turn \in R /\ e[i].about = "failed"
<1> DEFINE S == {Rejected(t) : t \in R}
           f == [t \in R |-> Rejected(t)]
<1>1. IsFiniteSet(R)
  BY FiniteAssumption, FS_Subset
<1>2. f \in Surjection(R, S)
  BY DEF Surjection
<1>3. IsFiniteSet(S)
  <2> HIDE DEF f, S
  <2> QED BY <1>1, <1>2, FS_Surjection
<1>4. \A x \in S : x \in Jobs /\ JobShape(x) /\ x.turn \in R /\ x.kind = "terminal" /\ x.about = "failed"
  <2> SUFFICES ASSUME NEW t \in R
               PROVE  LET x == Rejected(t) IN
                      x \in Jobs /\ JobShape(x) /\ x.turn \in R /\ x.kind = "terminal" /\ x.about = "failed"
    OBVIOUS
  <2>1. PICK x, a : x = Rejected(t) /\ a = <<x>>
    OBVIOUS
  <2>2. Speech(a) /\ Len(a) = 1 /\ \A i \in 1 .. Len(a) : IsEnd(a[i], t) /\ a[i].turn = t /\ a[i].about = "failed"
    BY <2>1, RejectionSaid
  <2>3. a[1] = x /\ 1 \in 1 .. Len(a)
    BY <2>1, <2>2
  <2>4. x \in Jobs /\ JobShape(x)
    <3>1. a \in Seq(Jobs) /\ JobShape(a[1])
      BY <2>2, <2>3 DEF Speech
    <3>2. a[1] \in Jobs
      BY <2>3, <3>1
    <3> QED BY <2>3, <3>1, <3>2
  <2> QED BY <2>1, <2>2, <2>3, <2>4 DEF IsEnd
<1> HIDE DEF S
<1>5. e \in Seq(S) /\ Len(e) \in Nat /\ \A i \in 1 .. Len(e) : e[i] \in S
  BY <1>3, Enumerates DEF S, Rejections
<1>6. e \in Seq(Jobs)
  BY <1>4, <1>5
<1> QED BY <1>4, <1>5, <1>6 DEF Speech

\* The Turns the Agent runs, those of them that need the client, and those
\* whose cancellation waits for it.
ActiveTurns == {t \in Turns : Active(t)}
LostTurns == {t \in ActiveTurns : AtServer(t)}
RefusedTurns == {t \in waiting : interrupt[t] = "asked"}

\* What the loss of a connection does besides ending sends.
LostKeeps ==
  /\ byThread' = byThread \/ byThread' = Finally(thread)
  /\ interrupt' = [t \in Turns |-> IF interrupt[t] = "asked" THEN "refused" ELSE interrupt[t]]
  /\ waiting' = waiting \ RefusedTurns
  /\ gate' = Idle \/ gate' = gate

LEMMA LostIs ==
  ASSUME NEW lost, NEW says, Lost(lost, says)
  PROVE  LostKeeps /\ UNCHANGED <<chatVars, started>> /\ queue' = queue \o (says \o Rejections(RefusedTurns))
<1>1. LostKeeps
  BY DEF Lost, LostKeeps, RefusedTurns
<1>2. queue' = queue \o (says \o Rejections(RefusedTurns)) /\ UNCHANGED <<chatVars, started>>
  BY Zenon DEF Lost, Emit, Rejections, RefusedTurns
<1> QED BY <1>1, <1>2

\* What the loss of the client says, and what it does to the Turns.
LEMMA ClientExitsIs ==
  ASSUME ClientExits
  PROVE  /\ Codex /\ (Spend("fault") \/ UNCHANGED spent) /\ client' = "none"
         /\ reported' = reported \cup ActiveTurns
         /\ asked' = [t \in Turns |-> IF t \in ActiveTurns THEN {} ELSE asked[t]]
         /\ completion' = [t \in Turns |-> IF t \in ActiveTurns /\ completion[t] = "open" THEN "rejected"
                                           ELSE completion[t]]
         /\ run' = [t \in Turns |-> IF t \in LostTurns THEN "over" ELSE run[t]]
         /\ native' = [t \in Turns |-> IF native[t] = "none" THEN "none" ELSE "ended"]
         /\ LostKeeps
         /\ queue' = queue \o (Loss(ActiveTurns, RefusedTurns))
         /\ UNCHANGED <<chatVars, started>>
         /\ UNCHANGED <<agent, loaded, cancelled, used, thread, mine, known>>
<1>1. /\ Codex /\ (Spend("fault") \/ UNCHANGED spent) /\ client' = "none"
      /\ UNCHANGED <<agent, loaded, cancelled, used, thread, mine, known>>
  BY DEF ClientExits
<1>2. /\ reported' = reported \cup ActiveTurns
      /\ asked' = [t \in Turns |-> IF t \in ActiveTurns THEN {} ELSE asked[t]]
      /\ completion' = [t \in Turns |-> IF t \in ActiveTurns /\ completion[t] = "open" THEN "rejected"
                                        ELSE completion[t]]
      /\ run' = [t \in Turns |-> IF t \in LostTurns THEN "over" ELSE run[t]]
  BY DEF ClientExits, ActiveTurns, LostTurns
<1>3. native' = [t \in Turns |-> IF native[t] = "none" THEN "none" ELSE "ended"]
  BY DEF ClientExits
<1>4. Lost(LostTurns, FlattenSeq(Closings(ActiveTurns)))
  BY Zenon DEF ClientExits, Failure, Closings, Farewell, ActiveTurns, LostTurns
<1>5. LostKeeps /\ UNCHANGED <<chatVars, started>>
  BY <1>4, LostIs
<1>6. queue' = queue \o (Loss(ActiveTurns, RefusedTurns))
  BY <1>4, LostIs, Zenon DEF Loss
<1> QED BY <1>1, <1>2, <1>3, <1>5, <1>6

\* The order in which they are spoken of.
LEMMA OrderOf ==
  ASSUME NEW S, IsFiniteSet(S), NEW order, order = SetToSeq(S), NEW n, n = Cardinality(S)
  PROVE  /\ n \in Nat /\ \A i \in 1 .. n : order[i] \in S
         /\ \A x \in S : \E i \in 1 .. n : order[i] = x
<1>1. Len(order) = n
  BY Enumerates
<1>2. Len(order) \in Nat
  BY Enumerates
<1>3. \A i \in 1 .. Len(order) : order[i] \in S
  BY Enumerates
<1>4. \A x \in S : \E i \in 1 .. Len(order) : order[i] = x
  BY Enumerates
<1> QED BY <1>1, <1>2, <1>3, <1>4

\* What is said of each Turn, in that order, answers the interactions that are due and
\* tells its end ...
Spoken(s, order, n, due) ==
  \A i \in 1 .. n :
    /\ Speech(s[i])
    /\ \A k \in 1 .. Len(s[i]) : s[i][k].turn = order[i] /\ (s[i][k].kind = "terminal" => s[i][k].about = "failed")
    /\ \A r \in due[order[i]] : \E k \in 1 .. Len(s[i]) : IsAnswered(s[i][k], order[i], r)
    /\ order[i] \in reported \/ Tells(s[i], order[i], due[order[i]])

\* ... and so does all of it together.
Sums(e, active, refused, due) ==
  /\ Speech(e)
  /\ \A i \in 1 .. Len(e) : /\ e[i].turn \in active \cup refused
                            /\ e[i].kind = "terminal" => e[i].about = "failed"
  /\ \A t \in active : /\ \A r \in due[t] : \E i \in 1 .. Len(e) : IsAnswered(e[i], t, r)
                       /\ t \in reported \/ Tells(e, t, due[t])

\* What is said of each Turn of a set, one after the other, and then of those whose
\* cancellation is refused.
LEMMA RoundSaid ==
  ASSUME NEW active, active \subseteq Turns, NEW refused, refused \subseteq Turns, NEW due,
         NEW order, order = SetToSeq(active), NEW n, n = Cardinality(active),
         NEW s, s = [i \in 1 .. n |-> s[i]], Spoken(s, order, n, due),
         NEW e, e = FlattenSeq(s) \o Rejections(refused)
  PROVE  Sums(e, active, refused, due)
<1>0. active \subseteq Turns /\ IsFiniteSet(active)
  BY FiniteAssumption, FS_Subset
<1>2. /\ n \in Nat /\ \A i \in 1 .. n : order[i] \in active
      /\ \A t \in active : \E i \in 1 .. n : order[i] = t
  BY <1>0, OrderOf
<1>4. Len(s) = n /\ (s = <<>> \/ n # 0)
  BY <1>2
<1>5. \A i \in 1 .. n :
        /\ Speech(s[i])
        /\ \A k \in 1 .. Len(s[i]) : s[i][k].turn = order[i] /\ (s[i][k].kind = "terminal" => s[i][k].about = "failed")
        /\ \A r \in due[order[i]] : \E k \in 1 .. Len(s[i]) : IsAnswered(s[i][k], order[i], r)
        /\ order[i] \in reported \/ Tells(s[i], order[i], due[order[i]])
  BY Zenon DEF Spoken
<1>6. PICK a, b : a = FlattenSeq(s) /\ b = Rejections(refused)
  OBVIOUS
<1>7. e = a \o b
  BY <1>6
<1>8. JoinOf(s, a, n)
  BY <1>2, <1>4, <1>5, <1>6, SpeechesFlatten
<1>9. Speech(b) /\ \A i \in 1 .. Len(b) : b[i].turn \in refused /\ b[i].about = "failed"
  BY <1>6, RejectionsSaid
<1>10. Speech(a)
  BY <1>8 DEF JoinOf
<1>11. /\ Speech(e) /\ Within(a, e)
       /\ \A i \in 1 .. Len(e) : \/ i \in 1 .. Len(a) /\ e[i] = a[i]
                                 \/ i - Len(a) \in 1 .. Len(b) /\ e[i] = b[i - Len(a)]
  <2>1. Speech(a) /\ Speech(b)
    BY <1>9, <1>10
  <2>2. /\ Speech(a \o b)
        /\ \A i \in 1 .. Len(a \o b) : \/ i \in 1 .. Len(a) /\ (a \o b)[i] = a[i]
                                       \/ i - Len(a) \in 1 .. Len(b) /\ (a \o b)[i] = b[i - Len(a)]
    BY <2>1, SpeechesJoin
  <2>3. Within(a, a \o b)
    BY <2>1, JoinWithin
  <2> QED BY <1>7, <2>2, <2>3, Zenon
<1>12. \A i \in 1 .. Len(e) : /\ e[i].turn \in active \cup refused
                              /\ e[i].kind = "terminal" => e[i].about = "failed"
  <2> SUFFICES ASSUME NEW i \in 1 .. Len(e)
               PROVE  e[i].turn \in active \cup refused /\ (e[i].kind = "terminal" => e[i].about = "failed")
    OBVIOUS
  <2>1. CASE i \in 1 .. Len(a) /\ e[i] = a[i]
    <3>1. PICK j \in 1 .. n : \E k \in 1 .. Len(s[j]) : a[i] = s[j][k]
      BY <1>8, <2>1 DEF JoinOf
    <3>2. PICK k \in 1 .. Len(s[j]) : a[i] = s[j][k]
      BY <3>1
    <3>3. order[j] \in active /\ s[j][k].turn = order[j] /\ (s[j][k].kind = "terminal" => s[j][k].about = "failed")
      BY <1>2, <1>5
    <3> QED BY <2>1, <3>2, <3>3
  <2>2. CASE i - Len(a) \in 1 .. Len(b) /\ e[i] = b[i - Len(a)]
    BY <1>9, <2>2
  <2> QED BY <1>11, <2>1, <2>2
<1>13. \A t \in active : /\ \A r \in due[t] : \E i \in 1 .. Len(e) : IsAnswered(e[i], t, r)
                         /\ t \in reported \/ Tells(e, t, due[t])
  <2> SUFFICES ASSUME NEW t \in active
               PROVE  /\ \A r \in due[t] : \E i \in 1 .. Len(e) : IsAnswered(e[i], t, r)
                      /\ t \in reported \/ Tells(e, t, due[t])
    OBVIOUS
  <2>1. PICK i \in 1 .. n : order[i] = t
    BY <1>2
  <2>2. Within(s[i], e)
    BY <1>8, <1>11, WithinWithin DEF JoinOf
  <2>3. \A r \in due[t] : \E k \in 1 .. Len(s[i]) : IsAnswered(s[i][k], t, r)
    BY <1>5, <2>1
  <2>4. \A r \in due[t] : \E k \in 1 .. Len(e) : IsAnswered(e[k], t, r)
    BY <2>2, <2>3 DEF Within
  <2>5. t \in reported \/ Tells(s[i], t, due[t])
    BY <1>5, <2>1
  <2>6. s[i] \in Seq(Jobs) /\ e \in Seq(Jobs)
    BY <1>5, <1>11 DEF Speech
  <2> QED BY <2>2, <2>4, <2>5, <2>6, WithinTells
<1> QED BY <1>11, <1>12, <1>13 DEF Sums

\* Everything that is said when the client is lost.
LEMMA LossSaid ==
  ASSUME Types, NEW active, active \subseteq Turns, NEW refused, refused \subseteq Turns,
         NEW e, e = Loss(active, refused)
  PROVE  /\ Speech(e)
         /\ \A i \in 1 .. Len(e) : /\ e[i].turn \in active \cup refused
                                   /\ e[i].kind = "terminal" => e[i].about = "failed"
         /\ \A t \in active : /\ \A r \in asked[t] : \E i \in 1 .. Len(e) : IsAnswered(e[i], t, r)
                              /\ t \in reported \/ Tells(e, t, asked[t])
<1>1. PICK order, n, s : order = SetToSeq(active) /\ n = Cardinality(active) /\ s = Closings(active)
  OBVIOUS
<1>2. s = [i \in 1 .. n |-> Farewell(order[i])]
  BY <1>1 DEF Closings
<1>3. s = [i \in 1 .. n |-> s[i]] /\ \A i \in 1 .. n : s[i] = Farewell(order[i])
  BY <1>2
<1>4. IsFiniteSet(active)
  BY FiniteAssumption, FS_Subset
<1>5. \A i \in 1 .. n : order[i] \in active
  BY <1>1, <1>4, OrderOf
<1>8. PICK due : due = asked
  OBVIOUS
<1>6. Spoken(s, order, n, due)
  <2> SUFFICES ASSUME NEW i \in 1 .. n
               PROVE  /\ Speech(s[i])
                      /\ \A k \in 1 .. Len(s[i]) :
                           s[i][k].turn = order[i] /\ (s[i][k].kind = "terminal" => s[i][k].about = "failed")
                      /\ \A r \in asked[order[i]] : \E k \in 1 .. Len(s[i]) : IsAnswered(s[i][k], order[i], r)
                      /\ order[i] \in reported \/ Tells(s[i], order[i], asked[order[i]])
    BY <1>8, Zenon DEF Spoken
  <2>1. PICK t \in Turns : t = order[i]
    BY <1>5
  <2>2. PICK x : x = s[i]
    OBVIOUS
  <2>3. x = Farewell(t)
    BY <1>3, <2>1, <2>2
  <2>4. /\ Speech(x)
        /\ \A k \in 1 .. Len(x) : x[k].turn = t /\ (x[k].kind = "terminal" => x[k].about = "failed")
        /\ \A r \in asked[t] : \E k \in 1 .. Len(x) : IsAnswered(x[k], t, r)
        /\ t \in reported \/ Tells(x, t, asked[t])
    BY <2>3, ClosingSaid
  <2> QED BY <2>1, <2>2, <2>4, Zenon
<1>7. e = FlattenSeq(s) \o Rejections(refused)
  BY <1>1, Zenon DEF Loss
<1>9. Sums(e, active, refused, due)
  BY <1>1, <1>3, <1>6, <1>7, RoundSaid
<1> QED BY <1>8, <1>9, Zenon DEF Sums

\* The connection to the app-server is lost: every Turn of the Agent fails.
LEMMA ClientExitsKeeps ==
  ASSUME IInv, ClientExits
  PROVE  IInv'
<1>1. Types /\ HostTypes /\ QueueTypes /\ AgentTypes /\ Sends /\ Asking /\ Gated
  BY PartsOf
<1>2. PICK active, lost, refused : active = ActiveTurns /\ lost = LostTurns /\ refused = RefusedTurns
  OBVIOUS
<1>3. PICK e : e = Loss(active, refused)
  OBVIOUS
<1>4. /\ Codex /\ (Spend("fault") \/ UNCHANGED spent) /\ client' = "none"
      /\ reported' = reported \cup active
      /\ asked' = [t \in Turns |-> IF t \in active THEN {} ELSE asked[t]]
      /\ completion' = [t \in Turns |-> IF t \in active /\ completion[t] = "open" THEN "rejected"
                                        ELSE completion[t]]
      /\ run' = [t \in Turns |-> IF t \in lost THEN "over" ELSE run[t]]
      /\ byThread' = byThread \/ byThread' = Finally(thread)
      /\ native' = [t \in Turns |-> IF native[t] = "none" THEN "none" ELSE "ended"]
      /\ interrupt' = [t \in Turns |-> IF interrupt[t] = "asked" THEN "refused" ELSE interrupt[t]]
      /\ waiting' = waiting \ refused
      /\ gate' = Idle \/ gate' = gate
      /\ queue' = queue \o e
      /\ UNCHANGED <<chatVars, started>>
      /\ UNCHANGED <<agent, loaded, cancelled, used, thread, mine, known>>
  BY <1>2, <1>3, ClientExitsIs DEF LostKeeps
<1>5. active \subseteq Turns /\ lost \subseteq active /\ refused \subseteq waiting /\ refused \subseteq Turns
  BY <1>1, <1>2 DEF AgentTypes, ActiveTurns, LostTurns, RefusedTurns
<1>6. /\ Speech(e)
      /\ \A i \in 1 .. Len(e) : /\ e[i].turn \in active \cup refused
                                /\ e[i].kind = "terminal" => e[i].about = "failed"
      /\ \A t \in active : /\ \A r \in asked[t] : \E i \in 1 .. Len(e) : IsAnswered(e[i], t, r)
                           /\ t \in reported \/ Tells(e, t, asked[t])
  <2>1. Speech(e)
    BY <1>1, <1>3, <1>5, LossSaid
  <2>2. \A i \in 1 .. Len(e) : e[i].turn \in active \cup refused
    BY <1>1, <1>3, <1>5, LossSaid
  <2>3. \A i \in 1 .. Len(e) : e[i].kind = "terminal" => e[i].about = "failed"
    BY <1>1, <1>3, <1>5, LossSaid
  <2>4. \A t \in active : \A r \in asked[t] : \E i \in 1 .. Len(e) : IsAnswered(e[i], t, r)
    BY <1>1, <1>3, <1>5, LossSaid
  <2>5. \A t \in active : t \in reported \/ Tells(e, t, asked[t])
    BY <1>1, <1>3, <1>5, LossSaid
  <2> QED BY <2>1, <2>2, <2>3, <2>4, <2>5
<1>7. \A t \in active \cup refused : turns[t] # "none"
  <2>1. \A t \in active : t \in Turns /\ run[t] # "none"
    BY <1>2 DEF Active, ActiveTurns
  <2>2. \A t \in refused : t \in Turns /\ t \in cancelled
    BY <1>1, <1>2, <1>5 DEF Sends, RefusedTurns
  <2> QED BY <2>1, <2>2, NotFresh
<1>8. spent' \in [Disturbances -> Nat] /\ spent["failure"] <= spent'["failure"]
  BY <1>1, <1>4 DEF HostTypes, Disturbances, Spend
<1>9. Grows
  <2>1. \A v \in Turns : run[v] = "failed" => v \notin lost
    BY <1>2 DEF LostTurns, ActiveTurns, Active
  <2> QED BY <1>1, <1>4, <1>8, <2>1 DEF Grows, AgentTypes
<1>10. /\ gate' \in [by : {"none", "package", "shutdown"},
                     at : {"open", "cancel", "drain", "drained", "closed"}, turn : Turns \cup {NoTurn}]
       /\ gate'.at \in {"drained", "closed"} => gate.at \in {"drained", "closed"}
  BY <1>1, <1>4 DEF Idle, HostTypes
<1>11. Gated'
  BY <1>1, <1>4, <1>10, GatedStays DEF chatVars
<1>12. /\ run' \in [Turns -> {"none", "credential", "thread", "starting", "native", "interrupting",
                              "loop", "over", "failed"}]
       /\ \A v \in Turns : run'[v] = run[v] \/ (run'[v] = "over" /\ v \in active)
       /\ \A v \in Turns : run'[v] \notin {"thread", "starting", "native", "interrupting"}
  <2>1. \A v \in Turns : run[v] \in {"thread", "starting", "native", "interrupting"} => v \in lost
    BY <1>2 DEF LostTurns, ActiveTurns, Active, AtServer, Requesting
  <2> QED BY <1>1, <1>4, <1>5, <2>1 DEF AgentTypes
<1>13. /\ byThread' \in [Turns -> Turns \cup {NoTurn}]
       /\ \A v \in Turns : byThread'[v] \in {byThread[v], NoTurn}
  BY <1>1, <1>4 DEF AgentTypes, Finally
<1>14. /\ asked' \in [Turns -> SUBSET Requests]
       /\ \A v \in Turns : asked'[v] = asked[v] \/ (asked'[v] = {} /\ v \in active)
       /\ completion' \in [Turns -> {"open", "resolved", "rejected"}]
       /\ \A v \in Turns : /\ completion[v] # "open" => completion'[v] # "open"
                           /\ v \in active => completion'[v] # "open"
                           /\ v \notin active => completion'[v] = completion[v]
  BY <1>1, <1>4 DEF AgentTypes
<1>15. /\ native' \in [Turns -> {"none", "running", "aborted", "ended"}]
       /\ \A v \in Turns : native'[v] = "none" <=> native[v] = "none"
       /\ interrupt' \in [Turns -> {"none", "asked", "answered", "refused"}]
       /\ \A v \in Turns : /\ interrupt'[v] = "none" <=> interrupt[v] = "none"
                           /\ interrupt'[v] = "answered" <=> interrupt[v] = "answered"
  BY <1>1, <1>4 DEF AgentTypes
<1>16. Types'
  <2>1. HostTypes'
    BY <1>1, <1>4, <1>8, <1>10, ChatTypes
  <2>2. QueueTypes'
    BY <1>1, <1>4, <1>6, SpeechTypes
  <2>3. AgentTypes'
    <3>1. reported' \subseteq Turns /\ waiting' \subseteq Turns /\ client' \in {"none", "connected", "failed"}
      BY <1>1, <1>4, <1>5 DEF AgentTypes
    <3> QED BY <1>1, <1>4, <1>12, <1>13, <1>14, <1>15, <3>1 DEF AgentTypes
  <2> QED BY <2>1, <2>2, <2>3 DEF Types
<1>17. Sends'
  <2>1. \A v \in Turns : byThread'[v] # NoTurn => run'[byThread'[v]] \notin {"none", "credential", "thread"}
    <3>1. \A v \in Turns : byThread[v] # NoTurn => byThread[v] \in Turns
      BY <1>1 DEF AgentTypes
    <3> QED BY <1>1, <1>12, <1>13, <3>1 DEF Sends
  <2>2. \A v \in Turns :
          /\ run'[v] \in {"none", "credential", "thread"} => native'[v] = "none"
          /\ run'[v] \in {"starting", "native", "interrupting"} \/ native'[v] # "none" => mine'[v] \in Turns
    BY <1>1, <1>4, <1>12, <1>15 DEF Sends
  <2>3. \A v \in Turns : ~AtServer(v)'
    BY <1>12 DEF AtServer, Requesting
  <2> QED BY <1>1, <1>4, <1>12, <1>14, <1>15, <2>1, <2>2, <2>3 DEF Sends, Codex, Comet, Active
<1>18. Asking'
  BY <1>1, <1>4, <1>14 DEF Asking
<1>19. \A v \in Turns : /\ Active(v)' => Active(v)
                        /\ completion[v] # "open" => completion'[v] # "open"
                        /\ Active(v)' /\ v \in reported' => v \in reported \/ Harmless(v)'
  BY <1>4, <1>12, <1>14 DEF Active, Harmless, Codex
<1>20. \A v \in Turns : turns[v] = "none" =>
         run'[v] = "none" /\ completion'[v] = "open" /\ v \notin cancelled' \cup reported'
  <2>1. \A v \in Turns : turns[v] = "none" => v \notin active
    BY <1>7
  <2> QED BY <1>4, <1>12, <1>14, <2>1, PartsOf DEF Fresh
<1>21. \A v \in Turns, r \in Requests : turns[v] \in Open /\ r \in asked[v] /\ r \notin asked'[v] =>
         \E i \in 1 .. Len(e) : IsAnswered(e[i], v, r)
  BY <1>6, <1>14
<1>22. \A v \in Turns : Past(v) \/ Tells(e, v, asked[v])
  BY <1>2, <1>6 DEF Past, ActiveTurns
<1>23. \A v \in Turns, i \in 1 .. Len(e) : IsEnd(e[i], v) => Codex' /\ e[i].about = "failed"
  BY <1>4, <1>6 DEF IsEnd, Codex
<1>24. \A i \in 1 .. Len(e) : turns[e[i].turn] # "none"
  BY <1>6, <1>7
<1>25. /\ (HeldWhileOpen /\ Fresh /\ Submits /\ Raised)'
       /\ (Settled /\ Told /\ Resting)'
  <2>1. Speech(e) /\ queue' = queue \o e /\ UNCHANGED chatVars
    BY <1>4, <1>6
  <2>2. \A v \in Turns : turns[v] \in Open /\ Past(v)' => Past(v) \/ Tells(e, v, asked[v]) \/ Excused(v)'
    BY <1>22
  <2>3. \A v \in Turns, i \in 1 .. Len(e) : IsEnd(e[i], v) /\ Active(v)' =>
          Harmless(v)' \/ (Codex' /\ e[i].about = "failed")
    BY <1>23
  <2> QED BY <2>1, <2>2, <2>3, <1>9, <1>11, <1>16, <1>19, <1>20, <1>21, <1>24, EmitKeeps
<1>26. Awaited'
  <2>1. \A v \in Turns : ~Deaf(v)'
    BY <1>12 DEF Deaf
  <2> QED BY <2>1 DEF Awaited, Deaf
<1> QED BY <1>11, <1>16, <1>17, <1>18, <1>25, <1>26 DEF IInv

\* The Turns whose send awaits an answer, and what is said of them when none will come.
RequestingTurns == {t \in Turns : Requesting(t)}
Failures(lost) == [i \in 1 .. Cardinality(lost) |-> Failure(SetToSeq(lost)[i])]
Outcry(lost, refused) == FlattenSeq(Failures(lost)) \o Rejections(refused)

\* An end that is told is a failure.
FailuresOnly(e) == \A i \in 1 .. Len(e) : e[i].kind = "terminal" => e[i].about = "failed"

\* Everything that is said then: their ends, with no word of their interactions.
LEMMA OutcrySaid ==
  ASSUME Types, NEW lost, lost \subseteq Turns, NEW refused, refused \subseteq Turns,
         NEW e, e = Outcry(lost, refused)
  PROVE  /\ Speech(e)
         /\ \A i \in 1 .. Len(e) : e[i].turn \in lost \cup refused
         /\ FailuresOnly(e)
         /\ \A t \in lost : t \in reported \/ Tells(e, t, {})
<1>1. PICK order, n, s : order = SetToSeq(lost) /\ n = Cardinality(lost) /\ s = Failures(lost)
  OBVIOUS
<1>2. s = [i \in 1 .. n |-> Failure(order[i])]
  BY <1>1 DEF Failures
<1>3. s = [i \in 1 .. n |-> s[i]] /\ \A i \in 1 .. n : s[i] = Failure(order[i])
  BY <1>2
<1>4. IsFiniteSet(lost)
  BY FiniteAssumption, FS_Subset
<1>5. \A i \in 1 .. n : order[i] \in lost
  BY <1>1, <1>4, OrderOf
<1>6. PICK due : due = [t \in Turns |-> {}]
  OBVIOUS
<1>7. Spoken(s, order, n, due)
  <2> SUFFICES ASSUME NEW i \in 1 .. n
               PROVE  /\ Speech(s[i])
                      /\ \A k \in 1 .. Len(s[i]) :
                           s[i][k].turn = order[i] /\ (s[i][k].kind = "terminal" => s[i][k].about = "failed")
                      /\ \A r \in due[order[i]] : \E k \in 1 .. Len(s[i]) : IsAnswered(s[i][k], order[i], r)
                      /\ order[i] \in reported \/ Tells(s[i], order[i], due[order[i]])
    BY Zenon DEF Spoken
  <2>1. PICK t \in Turns : t = order[i]
    BY <1>5
  <2>2. PICK x : x = s[i]
    OBVIOUS
  <2>3. x = Failure(t)
    BY <1>3, <2>1, <2>2
  <2>4. /\ Speech(x)
        /\ \A k \in 1 .. Len(x) : IsEnd(x[k], t) /\ x[k].turn = t /\ x[k].about = "failed"
        /\ t \notin reported => 1 \in 1 .. Len(x)
    BY <2>3, FailureSaid
  <2>5. t \in reported \/ Tells(x, t, {})
    BY <2>4 DEF Tells
  <2>6. due[t] = {}
    BY <1>6
  <2>7. \A k \in 1 .. Len(x) : x[k].turn = t /\ (x[k].kind = "terminal" => x[k].about = "failed")
    BY <2>4
  <2>8. \A r \in due[t] : \E k \in 1 .. Len(x) : IsAnswered(x[k], t, r)
    BY <2>6
  <2>9. t \in reported \/ Tells(x, t, due[t])
    BY <2>5, <2>6, Zenon
  <2> QED BY <2>1, <2>2, <2>4, <2>7, <2>8, <2>9, Zenon
<1>8. e = FlattenSeq(s) \o Rejections(refused)
  BY <1>1, Zenon DEF Outcry
<1>9. Sums(e, lost, refused, due)
  BY <1>1, <1>3, <1>7, <1>8, RoundSaid
<1>10. \A t \in lost : t \in reported \/ Tells(e, t, {})
  <2>1. \A t \in lost : due[t] = {}
    BY <1>6
  <2>2. \A t \in lost : t \in reported \/ Tells(e, t, due[t])
    BY <1>9, Zenon DEF Sums
  <2> QED BY <2>1, <2>2
<1>11. /\ Speech(e)
       /\ \A i \in 1 .. Len(e) : /\ e[i].turn \in lost \cup refused
                                 /\ e[i].kind = "terminal" => e[i].about = "failed"
  BY <1>9, Zenon DEF Sums
<1> QED BY <1>10, <1>11 DEF FailuresOnly

\* What the failure of the protocol says, and what it does to the Turns.
LEMMA ProtocolFailedIs ==
  ASSUME ProtocolFailed
  PROVE  /\ client' = "failed" /\ reported' = reported \cup RequestingTurns
         /\ run' = [t \in Turns |-> IF t \in RequestingTurns THEN Caught(t) ELSE run[t]]
         /\ LostKeeps /\ UNCHANGED <<chatVars, started>>
         /\ queue' = queue \o (Outcry(RequestingTurns, RefusedTurns))
<1>1. /\ client' = "failed" /\ reported' = reported \cup RequestingTurns
      /\ run' = [t \in Turns |-> IF t \in RequestingTurns THEN Caught(t) ELSE run[t]]
  BY DEF ProtocolFailed, RequestingTurns
<1>2. Lost(RequestingTurns, FlattenSeq(Failures(RequestingTurns)))
  BY Zenon DEF ProtocolFailed, Failure, Failures, RequestingTurns
<1>3. LostKeeps /\ UNCHANGED <<chatVars, started>>
  BY <1>2, LostIs
<1>4. queue' = queue \o (Outcry(RequestingTurns, RefusedTurns))
  BY <1>2, LostIs, Zenon DEF Outcry
<1> QED BY <1>1, <1>3, <1>4

\* What is pending is rejected: the sends that await an answer fail.
LEMMA ProtocolFailedKeeps ==
  ASSUME IInv, ProtocolFailed, Codex,
         spent' \in [Disturbances -> Nat], spent["failure"] <= spent'["failure"],
         UNCHANGED <<agent, loaded, cancelled, asked, used, thread, mine, known, completion>>,
         native' \in [Turns -> {"none", "running", "aborted", "ended"}],
         \A v \in Turns : native'[v] = native[v] \/ (native'[v] = "running" /\ run[v] = "starting")
  PROVE  IInv'
<1>1. Types /\ HostTypes /\ QueueTypes /\ AgentTypes /\ Sends /\ Asking /\ Gated
  BY PartsOf
<1>2. PICK lost, refused : lost = RequestingTurns /\ refused = RefusedTurns
  OBVIOUS
<1>3. PICK e : e = Outcry(lost, refused)
  OBVIOUS
<1>4. /\ client' = "failed" /\ reported' = reported \cup lost
      /\ run' = [t \in Turns |-> IF t \in lost THEN Caught(t) ELSE run[t]]
      /\ byThread' = byThread \/ byThread' = Finally(thread)
      /\ interrupt' = [t \in Turns |-> IF interrupt[t] = "asked" THEN "refused" ELSE interrupt[t]]
      /\ waiting' = waiting \ refused
      /\ gate' = Idle \/ gate' = gate
      /\ queue' = queue \o e
      /\ UNCHANGED <<chatVars, started>>
  BY <1>2, <1>3, ProtocolFailedIs DEF LostKeeps
<1>5. lost \subseteq Turns /\ refused \subseteq waiting /\ refused \subseteq Turns
  BY <1>1, <1>2 DEF AgentTypes, RequestingTurns, RefusedTurns
<1>6. /\ Speech(e)
      /\ \A i \in 1 .. Len(e) : /\ e[i].turn \in lost \cup refused
                                /\ e[i].kind = "terminal" => e[i].about = "failed"
      /\ \A t \in lost : t \in reported \/ Tells(e, t, {})
  <2>1. Types /\ lost \subseteq Turns /\ refused \subseteq Turns /\ e = Outcry(lost, refused)
    BY <1>1, <1>3, <1>5, Zenon
  <2>2. Speech(e)
    BY <2>1, OutcrySaid
  <2>3. \A i \in 1 .. Len(e) : e[i].turn \in lost \cup refused
    BY <2>1, OutcrySaid
  <2>4. FailuresOnly(e)
    BY <2>1, OutcrySaid
  <2>5. \A t \in lost : t \in reported \/ Tells(e, t, {})
    BY <2>1, OutcrySaid
  <2> QED BY <2>2, <2>3, <2>4, <2>5 DEF FailuresOnly
<1>7. \A t \in lost \cup refused : turns[t] # "none"
  <2>1. \A t \in lost : t \in Turns /\ run[t] # "none"
    BY <1>2 DEF Requesting, RequestingTurns
  <2>2. \A t \in refused : t \in Turns /\ t \in cancelled
    BY <1>1, <1>2, <1>5 DEF Sends, RefusedTurns
  <2> QED BY <2>1, <2>2, NotFresh
<1>8. /\ run' \in [Turns -> {"none", "credential", "thread", "starting", "native", "interrupting",
                             "loop", "over", "failed"}]
      /\ \A v \in lost : /\ run[v] \in {"thread", "starting", "interrupting"}
                         /\ run'[v] \in {"over", "failed"} /\ (v \notin reported => run'[v] = "failed")
      /\ \A v \in Turns \ lost : run'[v] = run[v] /\ run[v] \notin {"thread", "starting", "interrupting"}
  BY <1>1, <1>2, <1>4, <1>5 DEF AgentTypes, RequestingTurns, Requesting, Caught
<1>9. Grows
  BY <1>4, <1>8 DEF Grows
<1>10. /\ gate' \in [by : {"none", "package", "shutdown"},
                     at : {"open", "cancel", "drain", "drained", "closed"}, turn : Turns \cup {NoTurn}]
       /\ gate'.at \in {"drained", "closed"} => gate.at \in {"drained", "closed"}
  BY <1>1, <1>4 DEF Idle, HostTypes
<1>11. Gated'
  BY <1>1, <1>4, <1>10, GatedStays DEF chatVars
<1>12. /\ byThread' \in [Turns -> Turns \cup {NoTurn}]
       /\ \A v \in Turns : byThread'[v] \in {byThread[v], NoTurn}
  BY <1>1, <1>4 DEF AgentTypes, Finally
<1>13. /\ interrupt' \in [Turns -> {"none", "asked", "answered", "refused"}]
       /\ \A v \in Turns : /\ interrupt'[v] = "none" <=> interrupt[v] = "none"
                           /\ interrupt'[v] = "answered" <=> interrupt[v] = "answered"
  BY <1>1, <1>4 DEF AgentTypes
<1>14. Types'
  <2>1. HostTypes'
    BY <1>1, <1>4, <1>10, ChatTypes
  <2>2. QueueTypes'
    BY <1>1, <1>4, <1>6, SpeechTypes
  <2>3. AgentTypes'
    <3>1. reported' \subseteq Turns /\ waiting' \subseteq Turns
      BY <1>1, <1>4, <1>5 DEF AgentTypes
    <3> QED BY <1>1, <1>4, <1>8, <1>12, <1>13, <3>1 DEF AgentTypes
  <2> QED BY <2>1, <2>2, <2>3 DEF Types
<1>15. Sends'
  <2>1. \A v \in Turns : byThread'[v] # NoTurn => run'[byThread'[v]] \notin {"none", "credential", "thread"}
    <3>1. \A v \in Turns : byThread[v] # NoTurn => byThread[v] \in Turns
      BY <1>1 DEF AgentTypes
    <3> QED BY <1>1, <1>8, <1>12, <3>1 DEF Sends
  <2>2. \A v \in Turns :
          /\ run'[v] \in {"none", "credential", "thread"} => native'[v] = "none"
          /\ run'[v] \in {"starting", "native", "interrupting"} \/ native'[v] # "none" => mine'[v] \in Turns
    BY <1>1, <1>8 DEF Sends
  <2>3. \A v \in Turns : run'[v] \notin {"none", "over", "failed"} => run'[v] = run[v]
    BY <1>8
  <2>4. \A v \in Turns : known'[v] # NoTurn => run'[v] \notin {"none", "credential", "thread"}
    BY <1>1, <1>8 DEF Sends
  <2>5. client' # "none"
    BY <1>4
  <2> QED BY <1>1, <1>4, <1>13, <2>1, <2>2, <2>3, <2>4, <2>5 DEF Sends, Codex, Comet, Active
<1>16. Asking'
  BY <1>1, <1>4 DEF Asking
<1>17. \A v \in Turns : /\ Active(v)' => Active(v) /\ v \notin lost
                        /\ completion[v] # "open" => completion'[v] # "open"
                        /\ Active(v)' /\ v \in reported' => v \in reported \/ Harmless(v)'
  BY <1>4, <1>8 DEF Active
<1>18. \A v \in Turns : turns[v] = "none" =>
         run'[v] = "none" /\ completion'[v] = "open" /\ v \notin cancelled' \cup reported'
  <2>1. \A v \in Turns : turns[v] = "none" => v \notin lost
    BY <1>7
  <2> QED BY <1>4, <1>8, <2>1, PartsOf DEF Fresh
<1>19. \A v \in Turns : turns[v] \in Open /\ Past(v)' => Past(v) \/ Tells(e, v, asked[v]) \/ Excused(v)'
  <2> SUFFICES ASSUME NEW v \in Turns, Past(v)' PROVE Past(v) \/ Tells(e, v, asked[v]) \/ Excused(v)'
    OBVIOUS
  <2>1. CASE v \notin lost
    BY <1>4, <1>8, <2>1 DEF Past, Active, Codex
  <2>2. CASE v \in lost /\ v \in reported
    BY <2>2 DEF Past
  <2>3. CASE v \in lost /\ v \notin reported /\ asked[v] = {}
    BY <1>6, <2>3
  <2>4. CASE v \in lost /\ v \notin reported /\ asked[v] # {}
    <3>1. known[v] # NoTurn /\ asked[v] \subseteq used[known[v]]
      BY <1>1, <2>4 DEF Asking
    <3>2. HasAsked(v)'
      BY <2>4, <3>1 DEF HasAsked
    <3> QED BY <1>8, <2>4, <3>2 DEF Excused
  <2> QED BY <2>1, <2>2, <2>3, <2>4
<1>20. \A v \in Turns, i \in 1 .. Len(e) : IsEnd(e[i], v) => Codex' /\ e[i].about = "failed"
  BY <1>6 DEF IsEnd, Codex
<1>21. \A i \in 1 .. Len(e) : turns[e[i].turn] # "none"
  BY <1>6, <1>7
<1>22. /\ (HeldWhileOpen /\ Fresh /\ Submits /\ Raised)'
       /\ (Settled /\ Told /\ Resting)'
  <2>1. Speech(e) /\ queue' = queue \o e /\ UNCHANGED chatVars
    BY <1>4, <1>6
  <2>2. \A v \in Turns : /\ Active(v)' => Active(v)
                         /\ completion[v] # "open" => completion'[v] # "open"
                         /\ Active(v)' /\ v \in reported' => v \in reported \/ Harmless(v)'
    BY <1>17
  <2>3. \A v \in Turns, i \in 1 .. Len(e) : IsEnd(e[i], v) /\ Active(v)' =>
          Harmless(v)' \/ (Codex' /\ e[i].about = "failed")
    BY <1>20
  <2>4. \A v \in Turns, r \in Requests : turns[v] \in Open /\ r \in asked[v] /\ r \notin asked'[v] =>
          \E i \in 1 .. Len(e) : IsAnswered(e[i], v, r)
    OBVIOUS
  <2> QED BY <2>1, <2>2, <2>3, <2>4, <1>9, <1>11, <1>14, <1>18, <1>19, <1>21, EmitKeeps
<1>23. Awaited'
  <2>1. \A v, w \in Turns : byThread'[w] = v => byThread[w] = v
    BY <1>12, NoTurnAssumption
  <2>2. \A v \in Turns : Deaf(v)' => native[v] = "ended" /\ run'[v] = run[v]
    BY <1>8 DEF Deaf
  <2> QED BY <1>4, <1>14, <2>1, <2>2, StillAwaited DEF Deaf, chatVars
<1> QED BY <1>11, <1>14, <1>15, <1>16, <1>22, <1>23 DEF IInv

\* The app-server sends what the client does not understand.
LEMMA ProtocolFailsKeeps ==
  ASSUME IInv, ProtocolFails
  PROVE  IInv'
<1>1. Types /\ HostTypes /\ AgentTypes
  BY PartsOf
<1>2. /\ Codex /\ Spend("fault") /\ ProtocolFailed
      /\ UNCHANGED <<agent, loaded, cancelled, asked, used, thread, mine, known, completion, native>>
  BY DEF ProtocolFails
<1>3. spent' \in [Disturbances -> Nat] /\ spent["failure"] <= spent'["failure"]
  BY <1>1, <1>2 DEF HostTypes, Disturbances, Spend
<1> QED BY <1>1, <1>2, <1>3, ProtocolFailedKeeps DEF AgentTypes

\* The app-server begins a native Turn, and says so.
LEMMA NativeBeginsKeeps ==
  ASSUME IInv, NEW t \in Turns, NativeBegins(t)
  PROVE  IInv'
<1>1. Types /\ HostTypes /\ QueueTypes /\ AgentTypes /\ Sends /\ Asking
  BY PartsOf
<1>2. /\ UNCHANGED <<agent, loaded, cancelled, asked, used, thread, mine, completion>>
      /\ native' = [native EXCEPT ![t] = "running"] /\ Codex /\ run[t] = "starting"
  BY DEF NativeBegins
<1>3. PICK u : u = byThread[mine[t]]
  OBVIOUS
<1>4. CASE u # NoTurn /\ u \notin reported /\ known[u] # NoTurn
  <2>1. ProtocolFailed /\ UNCHANGED <<known, spent>>
    BY <1>3, <1>4 DEF NativeBegins
  <2>2. /\ native' \in [Turns -> {"none", "running", "aborted", "ended"}]
        /\ \A v \in Turns : native'[v] = native[v] \/ (native'[v] = "running" /\ run[v] = "starting")
    BY <1>1, <1>2 DEF AgentTypes
  <2>3. spent' \in [Disturbances -> Nat] /\ spent["failure"] <= spent'["failure"]
    BY <1>1, <2>1 DEF HostTypes, Disturbances
  <2> QED BY <1>2, <2>1, <2>2, <2>3, ProtocolFailedKeeps
<1>5. CASE ~(u # NoTurn /\ u \notin reported /\ known[u] # NoTurn)
  <2>1. /\ UNCHANGED <<hostVars, run, reported, waiting, byThread, interrupt, client>>
        /\ known' = IF u = NoTurn \/ u \in reported THEN known ELSE [known EXCEPT ![u] = t]
    BY <1>3, <1>5 DEF NativeBegins
  <2>2. UNCHANGED <<chatVars, started, queue, gate, spent>>
    BY <2>1 DEF hostVars
  <2>3. /\ known' \in [Turns -> Turns \cup {NoTurn}]
        /\ \A v \in Turns : known[v] # NoTurn => known'[v] = known[v]
        /\ \A v \in Turns : known'[v] # known[v] => u = v /\ u # NoTurn
    BY <1>1, <1>5, <2>1 DEF AgentTypes
  <2>4. u # NoTurn => u \in Turns /\ run[u] \notin {"none", "credential", "thread"}
    <3>1. mine[t] \in Turns /\ u \in Turns \cup {NoTurn}
      BY <1>1, <1>2, <1>3 DEF Sends, AgentTypes
    <3> QED BY <1>1, <1>3, <3>1 DEF Sends
  <2>5. Types'
    <3>1. AgentTypes'
      BY <1>1, <1>2, <2>1, <2>3 DEF AgentTypes
    <3>2. HostTypes' /\ QueueTypes'
      BY <1>1, <2>2, ChatTypes DEF HostTypes, QueueTypes
    <3> QED BY <3>1, <3>2 DEF Types
  <2>6. Sends'
    <3>1. /\ \A v \in Turns : known'[v] # NoTurn => run[v] \notin {"none", "credential", "thread"}
          /\ \A v \in Turns : v # t => native'[v] = native[v]
          /\ mine[t] \in Turns /\ run[t] = "starting"
      BY <1>1, <1>2, <2>3, <2>4 DEF Sends, AgentTypes
    <3>2. \A v \in Turns : run[v] = "native" => known[v] = v /\ known'[v] = v
      BY <1>1, <2>3, NoTurnAssumption DEF Sends
    <3> QED BY <1>1, <1>2, <2>1, <3>1, <3>2 DEF Sends, Codex, Comet, Active, AtServer, Requesting
  <2>7. Asking'
    BY <1>1, <1>2, <2>3 DEF Asking
  <2>8. spent["failure"] <= spent'["failure"]
    BY <1>1, <2>2 DEF HostTypes, Disturbances
  <2>9. Gated'
    BY <2>2, PartsOf, GatedStays DEF chatVars
  <2>10. Awaited'
    <3>1. \A v \in Turns : Deaf(v)' => native[v] = "ended"
      BY <1>1, <1>2 DEF Deaf, AgentTypes
    <3> QED BY <1>2, <2>1, <2>2, <2>3, <2>5, <2>8, <3>1, StillAwaited DEF Deaf, chatVars
  <2> QED BY <1>2, <2>1, <2>2, <2>3, <2>5, <2>6, <2>7, <2>8, <2>9, <2>10, QuietKeeps
<1> QED BY <1>4, <1>5

-----------------------------------------------------------------------------
(* The theorems *)

\* Nothing has happened yet.
LEMMA InitIsGood ==
  ASSUME Init
  PROVE  IInv
<1>1. /\ chat = "available" /\ turns = [t \in Turns |-> "none"] /\ activeTurn = NoTurn
      /\ pending = [t \in Turns |-> {}] /\ closed = [t \in Turns |-> {}]
      /\ anchors = {} /\ bindings = {} /\ queue = <<>> /\ started = FALSE /\ gate = Idle
      /\ spent = [d \in Disturbances |-> 0]
  BY DEF Init, HostInit
<1>2. /\ agent \in Agents /\ loaded = "loaded" /\ run = [t \in Turns |-> "none"]
      /\ cancelled = {} /\ reported = {} /\ waiting = {}
      /\ asked = [t \in Turns |-> {}] /\ used = [t \in Turns |-> {}]
      /\ thread = NoTurn /\ mine = [t \in Turns |-> NoTurn]
      /\ byThread = [t \in Turns |-> NoTurn] /\ known = [t \in Turns |-> NoTurn]
      /\ completion = [t \in Turns |-> "open"]
      /\ native = [t \in Turns |-> "none"] /\ interrupt = [t \in Turns |-> "none"]
      /\ client = "none"
  BY DEF Init
<1>3. HostTypes
  BY <1>1 DEF HostTypes, Idle
<1>4. QueueTypes
  BY <1>1 DEF QueueTypes
<1>5. AgentTypes
  BY <1>2, AgentsAssumption DEF AgentTypes
<1>6. HeldWhileOpen
  BY <1>1 DEF HeldWhileOpen, Open, Executing
<1>7. Sends /\ Asking
  BY <1>2 DEF Sends, Asking, Active, AtServer, Requesting
<1>8. Fresh /\ Submits /\ Raised
  BY <1>1, <1>2 DEF Fresh, Submits, Raised
<1>9. Settled /\ Told
  BY <1>1 DEF Settled, Told, Open, Executing
<1>10. Resting /\ Gated
  BY <1>1, <1>2 DEF Resting, Gated, Active, Idle
<1>11. Awaited
  BY <1>2 DEF Awaited, Deaf
<1> QED BY <1>3, <1>4, <1>5, <1>6, <1>7, <1>8, <1>9, <1>10, <1>11 DEF IInv, Types

\* A step that changes nothing.
LEMMA StutterKeeps ==
  ASSUME IInv, UNCHANGED vars
  PROVE  IInv'
<1>1. Types /\ HostTypes /\ QueueTypes /\ AgentTypes /\ Sends /\ Asking /\ Gated
  BY PartsOf
<1>2. UNCHANGED <<chatVars, queue, started, gate, spent>> /\ UNCHANGED agentVars
  BY DEF vars, hostVars
<1>3. Gated'
  BY <1>1, <1>2, GatedStays DEF chatVars
<1>4. /\ gate' \in [by : {"none", "package", "shutdown"},
                    at : {"open", "cancel", "drain", "drained", "closed"}, turn : Turns \cup {NoTurn}]
      /\ spent' \in [Disturbances -> Nat] /\ spent["failure"] <= spent'["failure"]
  BY <1>1, <1>2 DEF HostTypes, Disturbances
<1> QED BY <1>2, <1>3, <1>4, GateKeeps

\* Every step keeps the invariant.
LEMMA NextKeeps ==
  ASSUME IInv, Next
  PROVE  IInv'
<1>1. CASE ClientMutates
  BY <1>1, ClientMutatesKeeps
<1>2. CASE HostStep
  BY <1>2, HostStepKeeps
<1>3. CASE AgentStep
  BY <1>3, ResolveKeeps, ThreadReadyKeeps, StartedKeeps DEF AgentStep
<1>4. CASE AppServerStep
  BY <1>4, NativeBeginsKeeps, InterruptAnsweredKeeps, NativeEndsKeeps, CometEndsKeeps DEF AppServerStep
<1>5. CASE Faults
  BY <1>5, ClientExitsKeeps, ProtocolFailsKeeps, InterruptRefusedKeeps, NativeRequestsKeeps DEF Faults
<1>6. CASE GateStep
  BY <1>6, GateStepKeeps
<1> QED BY <1>1, <1>2, <1>3, <1>4, <1>5, <1>6 DEF Next

\* The invariant holds in every state, with any number of Turns, of interactions
\* and of disturbances.
THEOREM InductiveInvariant == Spec => []IInv
<1>1. Init => IInv
  BY InitIsGood
<1>2. IInv /\ [Next]_vars => IInv'
  BY NextKeeps, StutterKeeps
<1> QED BY <1>1, <1>2, PTL DEF Spec

\* The variables have their types (state.ts, codexAgent.ts, cometAgent.ts).
THEOREM TypeCorrect == Spec => []TypeOK
<1>1. IInv => TypeOK
  BY PartsOf DEF HostTypes, AgentTypes, TypeOK
<1> QED BY <1>1, InductiveInvariant, PTL

\* An open Turn holds its content, and one that is over holds neither content
\* nor authority (releaseTurnContent, retireTurnBindings).
THEOREM AlwaysHeldWhileOpen == Spec => []HeldWhileOpen
<1>1. IInv => HeldWhileOpen
  BY PartsOf
<1> QED BY <1>1, InductiveInvariant, PTL

\* A Turn that is open at the Host is pursued by its Agent, or its end is in the
\* queue, but for the exceptions that OpenTurnIsOwed names: a Turn that is pursued
\* has not been reported, has an app-server when it awaits one, and has a native
\* Turn that has not ended and will be heard when it does (runTurn, consumeTurnCompleted).
THEOREM AlwaysOwed == Spec => []OpenTurnIsOwed
<1>1. ASSUME IInv PROVE OpenTurnIsOwed
  <2> SUFFICES ASSUME NEW t \in Turns, turns[t] \in Open, ~Pursued(t), ~Unheard(t)
               PROVE  \/ \E i \in DOMAIN queue : queue[i].kind = "terminal" /\ queue[i].turn = t
                      \/ Comet /\ t \in cancelled
                      \/ HasAsked(t) /\ (t \in cancelled \/ run[t] = "failed")
                      \/ spent["failure"] > 0
    BY DEF OpenTurnIsOwed
  <2>1. CASE Past(t)
    <3>1. Ends(queue, pending, t) \/ Excused(t)
      BY <1>1, <2>1, PartsOf DEF Told
    <3>2. CASE Ends(queue, pending, t)
      <4>1. PICK i \in 1 .. Len(queue) : IsEnd(queue[i], t)
        BY <3>2 DEF Ends, EndsAt
      <4>2. DOMAIN queue = 1 .. Len(queue)
        BY <1>1, PartsOf DEF QueueTypes
      <4> QED BY <4>1, <4>2 DEF IsEnd
    <3>3. CASE Excused(t)
      BY <3>3 DEF Excused
    <3> QED BY <3>1, <3>2, <3>3
  <2>2. CASE ~Past(t)
    <3>1. Active(t) /\ t \notin reported
      BY <2>2 DEF Past
    <3>2. AtServer(t) => client # "none"
      BY <1>1, PartsOf DEF Sends
    <3>3. run[t] = "native" /\ native[t] = "ended" /\ byThread[mine[t]] = t
      BY <3>1, <3>2 DEF Pursued, Unheard
    <3>4. known[t] = t
      BY <1>1, <3>3, PartsOf DEF Sends
    <3>5. Deaf(t)
      BY <3>1, <3>3, <3>4 DEF Deaf
    <3>6. spent["failure"] # 0 /\ spent["failure"] \in Nat
      BY <1>1, <3>5, PartsOf DEF Awaited, HostTypes, Disturbances
    <3> QED BY <3>6
  <2> QED BY <2>1, <2>2
<1> QED BY <1>1, InductiveInvariant, PTL

\* When a package operation or the shutdown of the Host has found the gate drained,
\* Comet runs no Turn, and Codex none but those that were told to end, have ended,
\* or are orphaned (TurnDrain, drainTurns, handleClientExit).
THEOREM AlwaysIdleWhenDrained == Spec => []DrainedAgentIsIdle
<1>1. ASSUME IInv PROVE DrainedAgentIsIdle
  <2> SUFFICES ASSUME gate.at \in {"drained", "closed"}, NEW t \in Turns, Active(t)
               PROVE  Codex /\ (t \in cancelled \/ completion[t] = "resolved" \/ Orphaned(t))
    BY DEF DrainedAgentIsIdle
  <2>1. turns[t] \notin Open
    BY <1>1, PartsOf DEF Gated
  <2>2. Harmless(t) \/ (Codex /\ turns[t] \in {"failed", "gone"})
    BY <1>1, <2>1, PartsOf DEF Resting
  <2>3. t \in reported => Harmless(t)
    BY <1>1, PartsOf DEF Resting
  <2>4. completion[t] \in {"open", "resolved", "rejected"}
    BY <1>1, PartsOf DEF AgentTypes
  <2> QED BY <2>2, <2>3, <2>4 DEF Harmless, Orphaned
<1> QED BY <1>1, InductiveInvariant, PTL

=============================================================================
