----------------------- MODULE ContentResources_proofs -----------------------
(***************************************************************************)
(* The limits of the content service hold and its directories are          *)
(* accounted for, for any number of calls, leases and disturbances.        *)
(*                                                                         *)
(* Limits: a call whose caller still waits has its place reserved, and it  *)
(* takes what it was reserved only if it was not cancelled by then.        *)
(* Directories: one is named after the call that makes it and its lease,   *)
(* and a lease is materialized once; so what a call works on is neither    *)
(* recorded nor being removed by another.                                  *)
(*                                                                         *)
(* Leases, in the second half: requests reach the client in their order,   *)
(* so that a materialization that was answered comes before every release  *)
(* of its lease or finds the lease gone; and a lease is drawn once, so     *)
(* that one call opens it and nobody else can name it until that returns.  *)
(***************************************************************************)
EXTENDS ContentResources, FiniteSetTheorems, TLAPS

Filling(c) == jobs[c].kind = "materialize" /\ jobs[c].at \in {"ask", "rename", "discard"}
Working(c) == jobs[c].kind = "materialize" /\ jobs[c].at # "return"

\* Where a call of each kind can be.
ShapeOf(job, c) ==
  /\ job.kind = None => job = Idle
  /\ job.kind = "open" => /\ job.at \in {"ask", "page", "giveUp", "return"}
                          /\ job.at # "ask" \/ job.answer = "ok" => job.lease \in Leases
  /\ job.kind = "materialize" => /\ job.at \in {"stage", "ask", "rename", "discard", "return"}
                                 /\ job.lease \in Leases /\ job.dir = <<c, job.lease>>
                                 /\ job.at = "stage" => job.answer = None
  /\ job.kind \in {"read", "release"} => job.at = "ask" /\ job.lease \in Leases
  /\ job.kind = "remove" => job.at = "remove" /\ job.dir \in Calls \X Leases
JobShape == \A c \in Calls : ShapeOf(jobs[c], c)

\* A call awaits the answer of one request at most.
Awaits(c) == jobs[c].at \in AtClient /\ jobs[c].answer = None
Posted ==
  /\ \A i \in DOMAIN up : up[i].call # None =>
       /\ Awaits(up[i].call)
       /\ up[i].what = "open" <=> jobs[up[i].call].kind = "open" /\ jobs[up[i].call].at = "ask"
  /\ \A i, j \in DOMAIN up : up[i].call = up[j].call /\ up[i].call # None => i = j

\* What is on the disk belongs to a call or is recorded, and not to two of them.
Directories ==
  /\ \A d \in disk \ mats : Filling(d[1]) /\ jobs[d[1]].dir = d
  /\ mats \subseteq disk
  /\ \A d \in mats : d[2] \in materialized
  /\ \A c \in Calls : Working(c) => jobs[c].dir \notin mats
  /\ \A c \in Calls : Filling(c) => jobs[c].dir \in disk
  /\ \A r \in Calls : jobs[r].kind = "remove" =>
       /\ jobs[r].dir[2] \in materialized
       /\ \A c \in Calls : Working(c) => jobs[c].dir # jobs[r].dir

\* What is left of the calls when the connection has ended was cancelled.
Ended ==
  /\ disposed => ~bound /\ mats = {}
  /\ ~bound => \A c \in Calls : jobs[c].kind \in {None, "remove"} \/ jobs[c].cut

\* The calls that have a place reserved and have not taken it yet.
Reserved(kind) == {c \in Calls : jobs[c].kind = kind /\ ~jobs[c].cut /\ jobs[c].at # "return"}
Limits ==
  /\ Cardinality(leases) + Cardinality(Reserved("open")) <= MaxOpenLeases
  /\ Cardinality(mats) + Cardinality(Reserved("materialize")) <= MaxMaterializations

IInv == TypeOK /\ JobShape /\ Posted /\ Directories /\ Ended /\ Limits

-----------------------------------------------------------------------------
(* What the helpers of the actions do to the calls. *)

Others(c) == jobs' \in [Calls -> Job] /\ \A d \in Calls \ {c} : jobs'[d] = jobs[d]

\* A call goes to a place; its request, if it has one, may have changed its answer.
Moves(c, at) ==
  /\ Others(c)
  /\ jobs'[c].at = at /\ jobs'[c].kind = jobs[c].kind /\ jobs'[c].cut = jobs[c].cut
  /\ jobs'[c].lease = jobs[c].lease /\ jobs'[c].dir = jobs[c].dir

Places == {"idle", "stage", "rename", "discard", "remove", "return"} \cup AtClient

LEMMA StepMoves ==
  ASSUME TypeOK, NEW c \in Calls, NEW at \in Places, Step(c, at)
  PROVE  Moves(c, at) /\ jobs'[c].answer = jobs[c].answer
BY DEF TypeOK, Step, Moves, Others, Places, Job, AtClient

LEMMA AskingMoves ==
  ASSUME TypeOK, NEW c \in Calls, NEW at \in Places, Asking(c, at)
  PROVE  Moves(c, at) /\ jobs'[c].answer = None
<1> DEFINE job == [[jobs[c] EXCEPT !.at = at] EXCEPT !.answer = None]
<1>1. jobs' = [jobs EXCEPT ![c] = job]
  BY DEF TypeOK, Asking, Job
<1>0. jobs[c] \in Job
  BY DEF TypeOK
<1>2. job \in Job
  BY <1>0 DEF Places, Job, AtClient, None
<1>3. /\ job.at = at /\ job.kind = jobs[c].kind /\ job.cut = jobs[c].cut
      /\ job.lease = jobs[c].lease /\ job.dir = jobs[c].dir /\ job.answer = None
  BY DEF TypeOK, Places, Job, AtClient
<1> HIDE DEF job
<1> QED BY <1>1, <1>2, <1>3 DEF TypeOK, Moves, Others

LEMMA IdleIsJob == Idle \in Job
BY DEF Idle, Job, None, NoDir, AtClient

LEMMA EndFacts ==
  ASSUME TypeOK, NEW c \in Calls, End(c)
  PROVE  Others(c) /\ jobs'[c] = Idle
BY IdleIsJob DEF TypeOK, End, Others

LEMMA BeginFacts ==
  ASSUME TypeOK, NEW c \in Calls, NEW job \in Job, Begin(c, job)
  PROVE  Others(c) /\ jobs[c] = Idle /\ jobs'[c] = job
BY DEF TypeOK, Begin, Others

LEMMA SendIsTyped ==
  ASSUME TypeOK, NEW c \in Calls, NEW what \in {"open", "read", "release"},
         Others(c), Send(what, c)
  PROVE  up' \in Seq(Message)
<1>1. jobs'[c].turn \in Turns \cup {None} /\ jobs'[c].lease \in Leases \cup {None}
  BY DEF Others, Job
<1>2. Request(what, c) \in Message
  BY <1>1 DEF Request, Message
<1> QED BY <1>2 DEF Send, TypeOK

LEMMA AnswerFacts ==
  ASSUME TypeOK, NEW c \in Calls, NEW answer \in {"ok", "error"}, Answer(c, answer)
  PROVE  Moves(c, jobs[c].at) /\ jobs'[c].answer = answer
<1> DEFINE job == [jobs[c] EXCEPT !.answer = answer]
<1>1. jobs' = [jobs EXCEPT ![c] = job]
  BY NoneAssumption DEF TypeOK, Answer
<1>0. jobs[c] \in Job
  BY DEF TypeOK
<1>2. job \in Job
  BY <1>0 DEF Job, AtClient, None
<1>3. /\ job.at = jobs[c].at /\ job.kind = jobs[c].kind /\ job.cut = jobs[c].cut
      /\ job.lease = jobs[c].lease /\ job.dir = jobs[c].dir /\ job.answer = answer
  BY DEF TypeOK, Job, AtClient
<1> HIDE DEF job
<1> QED BY <1>1, <1>2, <1>3 DEF TypeOK, Moves, Others

LEMMA OpensFacts ==
  ASSUME TypeOK, NEW c \in Calls, NEW l \in Leases, Opens(c, l)
  PROVE  /\ Others(c)
         /\ jobs'[c].at = jobs[c].at /\ jobs'[c].kind = jobs[c].kind /\ jobs'[c].cut = jobs[c].cut
         /\ jobs'[c].dir = jobs[c].dir /\ jobs'[c].lease = l /\ jobs'[c].answer = "ok"
<1> DEFINE job == [[jobs[c] EXCEPT !.answer = "ok"] EXCEPT !.lease = l]
<1>1. jobs' = [jobs EXCEPT ![c] = job]
  BY NoneAssumption DEF TypeOK, Opens, Job
<1>0. jobs[c] \in Job
  BY DEF TypeOK
<1>2. job \in Job
  BY <1>0 DEF Job, AtClient, None
<1>3. /\ job.at = jobs[c].at /\ job.kind = jobs[c].kind /\ job.cut = jobs[c].cut
      /\ job.lease = l /\ job.dir = jobs[c].dir /\ job.answer = "ok"
  BY DEF TypeOK, Job, AtClient
<1> HIDE DEF job
<1> QED BY <1>1, <1>2, <1>3 DEF TypeOK, Others

-----------------------------------------------------------------------------
(* What keeps each part of the invariant. *)

LEMMA ShapeKept ==
  ASSUME JobShape, NEW c \in Calls, Others(c), ShapeOf(jobs'[c], c)
  PROVE  JobShape'
BY DEF JobShape, Others

LEMMA CallsOfMessages ==
  ASSUME TypeOK
  PROVE  \A i \in DOMAIN up : up[i] \in Message /\ up[i].call \in Calls \cup {None}
<1>1. up \in Seq(Message)
  BY DEF TypeOK
<1>2. \A i \in DOMAIN up : up[i] \in Message
  BY <1>1
<1>3. \A m \in Message : m.call \in Calls \cup {None}
  BY DEF Message
<1> QED BY <1>2, <1>3

\* A call that awaits no answer has no request on its way.
LEMMA NoRequest ==
  ASSUME TypeOK, Posted, NEW c \in Calls, ~Awaits(c)
  PROVE  \A i \in DOMAIN up : up[i].call # c
<1> SUFFICES ASSUME NEW i \in DOMAIN up, up[i].call = c
             PROVE  FALSE
  OBVIOUS
<1>1. c # None
  BY NoneAssumption
<1> QED BY <1>1 DEF Posted

LEMMA PostedKept ==
  ASSUME TypeOK, Posted, NEW c \in Calls, Others(c), ~Awaits(c), UNCHANGED up
  PROVE  Posted'
<1>1. \A i \in DOMAIN up : up[i].call # None => up[i].call \in Calls \ {c}
  BY NoRequest, CallsOfMessages
<1>2. \A d \in Calls \ {c} : (Awaits(d)' <=> Awaits(d)) /\ jobs'[d] = jobs[d]
  BY DEF Others, Awaits
<1> HIDE DEF Awaits
<1>3. \A i \in DOMAIN up : up[i].call # None =>
        /\ Awaits(up[i].call)'
        /\ up[i].what = "open" <=> jobs'[up[i].call].kind = "open" /\ jobs'[up[i].call].at = "ask"
  BY <1>1, <1>2 DEF Posted
<1> QED BY <1>3 DEF Posted

LEMMA PostedSend ==
  ASSUME TypeOK, Posted, NEW c \in Calls, Others(c), ~Awaits(c),
         NEW what \in {"open", "read", "release"}, Send(what, c),
         Awaits(c)', what = "open" <=> jobs'[c].kind = "open" /\ jobs'[c].at = "ask"
  PROVE  Posted'
<1> DEFINE m == Request(what, c)
<1>1. m.call = c /\ m.what = what
  BY DEF Request
<1> HIDE DEF m
<1>2. up' = Append(up, m)
  BY DEF Send, m
<1>3. \A i \in DOMAIN up : up[i].call # c /\ up[i].call \in Calls \cup {None}
  BY NoRequest, CallsOfMessages
<1>4. /\ DOMAIN up' = DOMAIN up \cup {Len(up) + 1}
      /\ \A i \in DOMAIN up : up'[i] = up[i]
      /\ up'[Len(up) + 1] = m
  BY <1>2 DEF TypeOK
<1>5. \A i \in DOMAIN up' : up'[i].call # None =>
        /\ Awaits(up[i].call)'
        /\ up'[i].what = "open" <=> jobs'[up'[i].call].kind = "open" /\ jobs'[up'[i].call].at = "ask"
  <2> SUFFICES ASSUME NEW i \in DOMAIN up', up'[i].call # None
               PROVE  /\ Awaits(up[i].call)'
                      /\ up'[i].what = "open" <=> jobs'[up'[i].call].kind = "open" /\ jobs'[up'[i].call].at = "ask"
    OBVIOUS
  <2>1. CASE i \in DOMAIN up
    <3>1. up'[i].call \in Calls \ {c} /\ up'[i] = up[i]
      BY <1>3, <1>4, <2>1
    <3>2. jobs'[up[i].call] = jobs[up[i].call] /\ up[i].call # None
      BY <3>1 DEF Others
    <3> QED BY <2>1, <3>1, <3>2 DEF Posted, Awaits
  <2>2. CASE i = Len(up) + 1
    BY <1>1, <1>4, <2>2 DEF Awaits
  <2> QED BY <1>4, <2>1, <2>2
<1>6. \A i, j \in DOMAIN up' : up'[i].call = up'[j].call /\ up'[i].call # None => i = j
  BY <1>1, <1>3, <1>4 DEF Posted
<1> QED BY <1>5, <1>6 DEF Posted

LEMMA DirectoriesKept ==
  ASSUME Directories, NEW c \in Calls, Others(c), UNCHANGED files, TypeOK,
         Filling(c)' <=> Filling(c),
         Working(c)' => Working(c) /\ jobs'[c].dir = jobs[c].dir,
         jobs'[c].kind = "remove" => jobs[c].kind = "remove" /\ jobs'[c].dir = jobs[c].dir
  PROVE  Directories'
<1>1. \A d \in Calls : d # c => jobs'[d] = jobs[d]
  BY DEF Others
<1>2. \A d \in Calls : Filling(d)' <=> Filling(d)
  BY <1>1 DEF Filling
<1>3. \A d \in Calls : Working(d)' => Working(d) /\ jobs'[d].dir = jobs[d].dir
  BY <1>1 DEF Working
<1>4. \A d \in Calls : jobs'[d].kind = "remove" => jobs[d].kind = "remove" /\ jobs'[d].dir = jobs[d].dir
  BY <1>1
<1>5. \A d \in Calls : Filling(d) => jobs'[d].dir = jobs[d].dir
  BY <1>2, <1>3 DEF Filling, Working
<1>6. disk' = disk /\ mats' = mats /\ materialized' = materialized
  BY DEF files
<1>7. \A d \in disk : d[1] \in Calls
  BY DEF TypeOK
<1> QED BY <1>2, <1>3, <1>4, <1>5, <1>6, <1>7 DEF Directories

LEMMA EndedKept ==
  ASSUME Ended, NEW c \in Calls, Others(c), UNCHANGED <<bound, disposed, mats>>,
         bound \/ jobs'[c].kind \in {None, "remove"} \/ jobs'[c].cut
  PROVE  Ended'
BY DEF Ended, Others

LEMMA OneMore ==
  ASSUME NEW S, IsFiniteSet(S), NEW x
  PROVE  Cardinality(S \cup {x}) <= Cardinality(S) + 1 /\ Cardinality(S \cup {x}) \in Nat
<1>1. Cardinality(S) \in Nat
  BY FS_CardinalityType
<1>2. Cardinality(S \cup {x}) = IF x \in S THEN Cardinality(S) ELSE Cardinality(S) + 1
  BY FS_AddElement
<1> QED BY <1>1, <1>2

LEMMA LimitsKept ==
  ASSUME TypeOK, Limits, jobs' \in [Calls -> Job],
         leases' \subseteq leases, mats' \subseteq mats,
         Reserved("open")' \subseteq Reserved("open"),
         Reserved("materialize")' \subseteq Reserved("materialize")
  PROVE  Limits'
<1>1. /\ IsFiniteSet(Reserved("open")) /\ IsFiniteSet(Reserved("materialize"))
      /\ IsFiniteSet(leases) /\ IsFiniteSet(mats)
  <2>1. IsFiniteSet(Calls \X Leases)
    BY FiniteAssumption, FS_Product
  <2> QED BY <2>1, FiniteAssumption, FS_Subset DEF TypeOK, Reserved
<1>2. /\ Cardinality(leases') <= Cardinality(leases) /\ Cardinality(mats') <= Cardinality(mats)
      /\ Cardinality(Reserved("open")') <= Cardinality(Reserved("open"))
      /\ Cardinality(Reserved("materialize")') <= Cardinality(Reserved("materialize"))
  BY <1>1, FS_Subset
<1>3. /\ IsFiniteSet(Reserved("open")') /\ IsFiniteSet(Reserved("materialize")')
      /\ IsFiniteSet(leases') /\ IsFiniteSet(mats')
  BY <1>1, FS_Subset
<1>4. /\ {Cardinality(leases), Cardinality(leases'), Cardinality(mats), Cardinality(mats')} \subseteq Nat
      /\ {Cardinality(Reserved("open")), Cardinality(Reserved("open")')} \subseteq Nat
      /\ {Cardinality(Reserved("materialize")), Cardinality(Reserved("materialize")')} \subseteq Nat
  BY <1>1, <1>3, FS_CardinalityType
<1> HIDE DEF Reserved
<1> QED BY <1>2, <1>4, LimitsAssumption DEF Limits

\* A call that has nothing reserved that it had not before.
LEMMA ReservesNothing ==
  ASSUME TypeOK, Limits, NEW c \in Calls, Others(c), leases' \subseteq leases, mats' \subseteq mats,
         \A kind \in {"open", "materialize"} : c \in Reserved(kind)' => c \in Reserved(kind)
  PROVE  Limits'
<1>1. \A kind \in {"open", "materialize"} : Reserved(kind)' \subseteq Reserved(kind)
  BY DEF Reserved, Others
<1> QED BY <1>1, LimitsKept DEF Others

-----------------------------------------------------------------------------
(* Steps that leave the files alone. *)

LEMMA EndKeeps ==
  ASSUME IInv, TypeOK', NEW c \in Calls, End(c), ~Awaits(c), ~Filling(c), leases' \subseteq leases,
         UNCHANGED <<files, up, bound, disposed>>
  PROVE  IInv'
<1>1. Others(c) /\ jobs'[c] = Idle
  BY EndFacts DEF IInv
<1>2. ShapeOf(jobs'[c], c)
  BY <1>1 DEF ShapeOf, Idle, None
<1>3. JobShape'
  BY <1>1, <1>2, ShapeKept DEF IInv
<1>4. Posted'
  BY <1>1, PostedKept DEF IInv
<1>5. Directories'
  <2>1. ~Filling(c)' /\ ~Working(c)' /\ jobs'[c].kind # "remove"
    BY <1>1 DEF Filling, Working, Idle, None
  <2> QED BY <1>1, <2>1, DirectoriesKept DEF IInv
<1>6. Ended'
  BY <1>1, EndedKept DEF IInv, files, Idle
<1>7. Limits'
  <2>1. \A kind \in {"open", "materialize"} : c \notin Reserved(kind)'
    BY <1>1 DEF Reserved, Idle, None
  <2> QED BY <1>1, <2>1, ReservesNothing DEF IInv, files
<1> QED BY <1>3, <1>4, <1>5, <1>6, <1>7 DEF IInv

LEMMA MoveKeeps ==
  ASSUME IInv, TypeOK', Posted', NEW c \in Calls, NEW at \in Places, Moves(c, at),
         ShapeOf(jobs'[c], c), Filling(c)' <=> Filling(c), jobs[c].kind # None,
         jobs[c].at # "return", leases' \subseteq leases, UNCHANGED <<files, bound, disposed>>
  PROVE  IInv'
<1>1. Others(c)
  BY DEF Moves
<1>2. JobShape'
  BY <1>1, ShapeKept DEF IInv
<1>3. Directories'
  <2>1. Working(c)' => Working(c) /\ jobs'[c].dir = jobs[c].dir
    BY DEF Working, Moves
  <2>2. jobs'[c].kind = "remove" => jobs[c].kind = "remove" /\ jobs'[c].dir = jobs[c].dir
    BY DEF Moves
  <2> QED BY <1>1, <2>1, <2>2, DirectoriesKept DEF IInv
<1>4. bound \/ jobs'[c].kind \in {None, "remove"} \/ jobs'[c].cut
  BY DEF IInv, Ended, Moves
<1>5. Ended'
  BY <1>1, <1>4, EndedKept DEF IInv, files
<1>6. Limits'
  <2>1. \A kind \in {"open", "materialize"} : c \in Reserved(kind)' => c \in Reserved(kind)
    BY DEF Reserved, Moves
  <2> QED BY <1>1, <2>1, ReservesNothing DEF IInv, files
<1> QED BY <1>2, <1>3, <1>5, <1>6 DEF IInv

LEMMA GivesUpKeeps ==
  ASSUME IInv, NEW c \in Calls, GivesUp(c), jobs[c].kind = "open", jobs[c].at \in {"ask", "page"},
         jobs[c].lease \in Leases, ~Awaits(c), budget' \in 0..Budget,
         UNCHANGED <<shared, files, known, client>>
  PROVE  IInv'
<1>1. TypeOK /\ Posted
  BY DEF IInv
<1>2. Moves(c, "giveUp") /\ Posted' /\ up' \in Seq(Message)
  <2>1. CASE bound
    <3>1. Asking(c, "giveUp") /\ Send("release", c)
      BY <2>1 DEF GivesUp
    <3>2. Moves(c, "giveUp") /\ jobs'[c].answer = None
      BY <1>1, <3>1, AskingMoves DEF Places, AtClient
    <3>3. Others(c) /\ Awaits(c)' /\ jobs'[c].at # "ask"
      BY <3>2 DEF Moves, Awaits, AtClient
    <3> QED BY <1>1, <3>1, <3>2, <3>3, PostedSend, SendIsTyped
  <2>2. CASE ~bound
    <3> DEFINE job == [[jobs[c] EXCEPT !.at = "giveUp"] EXCEPT !.answer = "error"]
    <3>1. jobs' = [jobs EXCEPT ![c] = job] /\ UNCHANGED up
      BY <2>2, <1>1 DEF GivesUp, TypeOK, Job
    <3>2. jobs[c] \in Job
      BY <1>1 DEF TypeOK
    <3>3. /\ job \in Job /\ job.at = "giveUp" /\ job.kind = jobs[c].kind /\ job.cut = jobs[c].cut
          /\ job.lease = jobs[c].lease /\ job.dir = jobs[c].dir
      BY <3>2 DEF Job, AtClient, None
    <3> HIDE DEF job
    <3>4. Moves(c, "giveUp")
      BY <1>1, <3>1, <3>3 DEF TypeOK, Moves, Others
    <3> QED BY <1>1, <3>1, <3>4, PostedKept DEF Moves, TypeOK
  <2> QED BY <2>1, <2>2
<1>3. TypeOK'
  BY <1>1, <1>2 DEF TypeOK, Moves, Others, GivesUp, shared, files, client
<1>4. ShapeOf(jobs'[c], c)
  BY <1>2 DEF ShapeOf, Moves, None
<1>5. ~Filling(c) /\ ~Filling(c)'
  BY <1>2 DEF Filling, Moves
<1> QED BY <1>2, <1>3, <1>4, <1>5, MoveKeeps DEF Places, AtClient, GivesUp, shared, None

\* The lease takes the place that was reserved for it.
LEMMA CommitsKeeps ==
  ASSUME IInv, NEW c \in Calls, Commits(c), jobs[c].kind = "open", jobs[c].at \in {"ask", "page"},
         jobs[c].lease \in Leases, ~jobs[c].cut, ~Awaits(c),
         UNCHANGED <<shared, files, known, client, budget>>
  PROVE  IInv'
<1>1. TypeOK /\ Posted
  BY DEF IInv
<1>2. Moves(c, "return") /\ Others(c)
  BY <1>1, StepMoves DEF Commits, Places, Moves
<1>3. TypeOK'
  BY <1>1, <1>2 DEF TypeOK, Others, Commits, shared, files, client
<1>4. ShapeOf(jobs'[c], c)
  BY <1>2 DEF ShapeOf, Moves, None
<1>5. JobShape'
  BY <1>2, <1>4, ShapeKept DEF IInv
<1>6. Posted'
  BY <1>1, <1>2, PostedKept DEF Commits
<1>7. Directories'
  <2>1. ~Filling(c) /\ ~Filling(c)' /\ ~Working(c)' /\ jobs'[c].kind # "remove"
    BY <1>2 DEF Filling, Working, Moves
  <2> QED BY <1>2, <2>1, DirectoriesKept DEF IInv
<1>8. Ended'
  BY <1>2, EndedKept DEF IInv, Ended, shared, files, None
<1>9. Limits'
  <2>1. /\ Reserved("open")' = Reserved("open") \ {c} /\ c \in Reserved("open")
        /\ Reserved("materialize")' = Reserved("materialize")
    BY <1>2 DEF Reserved, Moves, Others
  <2>2. IsFiniteSet(leases) /\ IsFiniteSet(Reserved("open"))
    BY <1>1, FiniteAssumption, FS_Subset DEF TypeOK, Reserved
  <2>3. Cardinality(leases') <= Cardinality(leases) + 1 /\ Cardinality(leases') \in Nat
    BY <2>2, OneMore DEF Commits
  <2>4. Cardinality(Reserved("open")') = Cardinality(Reserved("open")) - 1
    BY <2>1, <2>2, FS_RemoveElement
  <2>5. Cardinality(Reserved("open")) \in Nat /\ Cardinality(leases) \in Nat
    BY <2>2, FS_CardinalityType
  <2>6. mats' = mats
    BY DEF files
  <2> HIDE DEF Reserved
  <2> QED BY <2>1, <2>3, <2>4, <2>5, <2>6, LimitsAssumption DEF IInv, Limits
<1> QED BY <1>3, <1>5, <1>6, <1>7, <1>8, <1>9 DEF IInv

-----------------------------------------------------------------------------
(* The calls of an Agent. *)

\* A call that sends a request, or has a directory to remove, begins.
LEMMA BeginKeeps ==
  ASSUME IInv, TypeOK', Posted', NEW c \in Calls, NEW job \in Job, Begin(c, job), ShapeOf(job, c),
         job.kind \in {"read", "release"},
         bound, UNCHANGED <<leases, files, bound, disposed>>
  PROVE  IInv'
<1>1. Others(c) /\ jobs[c] = Idle /\ jobs'[c] = job
  BY BeginFacts DEF IInv
<1>2. JobShape'
  BY <1>1, ShapeKept DEF IInv
<1>3. Directories'
  BY <1>1, DirectoriesKept DEF IInv, Filling, Working, Idle, None
<1>4. Ended'
  BY <1>1, EndedKept DEF IInv, files
<1>5. Limits'
  <2>1. \A kind \in {"open", "materialize"} : c \notin Reserved(kind)'
    BY <1>1 DEF Reserved
  <2> QED BY <1>1, <2>1, ReservesNothing DEF IInv, files
<1> QED BY <1>2, <1>3, <1>4, <1>5 DEF IInv

\* What a call that begins with a request to the client does.
LEMMA AsksFirst ==
  ASSUME IInv, NEW c \in Calls, NEW what \in {"open", "read", "release"}, NEW job \in Job,
         Begin(c, job), Send(what, c), job.at = "ask", job.answer = None,
         what = "open" <=> job.kind = "open",
         UNCHANGED <<shared, leases, files, known, client, budget>>
  PROVE  TypeOK' /\ Posted' /\ Others(c) /\ jobs[c] = Idle /\ jobs'[c] = job
<1>1. TypeOK /\ Posted
  BY DEF IInv
<1>2. Others(c) /\ jobs[c] = Idle /\ jobs'[c] = job
  BY <1>1, BeginFacts
<1>3. ~Awaits(c) /\ Awaits(c)'
  BY <1>2 DEF Awaits, Idle, AtClient
<1>4. Posted'
  BY <1>1, <1>2, <1>3, PostedSend
<1>5. up' \in Seq(Message)
  BY <1>1, <1>2, SendIsTyped
<1>6. TypeOK'
  BY <1>1, <1>2, <1>5 DEF TypeOK, Others, shared, files, client
<1> QED BY <1>2, <1>4, <1>6

LEMMA OpenKeeps ==
  ASSUME IInv, NEW c \in Calls, NEW t \in Turns, Open(c, t)
  PROVE  IInv'
<1> DEFINE job == [[[Idle EXCEPT !.kind = "open"] EXCEPT !.at = "ask"] EXCEPT !.turn = t]
<1>1. job \in Job /\ job.kind = "open" /\ job.at = "ask" /\ job.answer = None /\ ~job.cut
  BY DEF Idle, Job, AtClient, None, NoDir
<1>2. Begin(c, job) /\ Send("open", c) /\ UNCHANGED <<shared, leases, files, known, client, budget>>
  BY DEF Open, Idle
<1> HIDE DEF job
<1>3. TypeOK' /\ Posted' /\ Others(c) /\ jobs[c] = Idle /\ jobs'[c] = job
  BY <1>1, <1>2, AsksFirst
<1>4. JobShape'
  <2>1. ShapeOf(jobs'[c], c)
    BY <1>1, <1>3 DEF ShapeOf, None
  <2> QED BY <1>3, <2>1, ShapeKept DEF IInv
<1>5. Directories'
  BY <1>1, <1>2, <1>3, DirectoriesKept DEF IInv, Filling, Working, Idle, None
<1>6. Ended'
  BY <1>2, <1>3, EndedKept DEF IInv, Open, files, shared
<1>7. Limits'
  <2>1. Reserved("open")' = Reserved("open") \cup {c} /\ Reserved("open") \subseteq Awaited("open")
    BY <1>1, <1>3 DEF Reserved, Others, Awaited
  <2>2. Reserved("materialize")' = Reserved("materialize")
    BY <1>1, <1>3 DEF Reserved, Others, Idle, None
  <2>3. IsFiniteSet(leases) /\ IsFiniteSet(Reserved("open")) /\ IsFiniteSet(Awaited("open"))
    BY FiniteAssumption, FS_Subset DEF IInv, TypeOK, Reserved, Awaited
  <2>4. Cardinality(leases) \in Nat /\ Cardinality(Awaited("open")) \in Nat /\ Cardinality(Reserved("open")) \in Nat
    BY <2>3, FS_CardinalityType
  <2>5. Cardinality(Reserved("open")') <= Cardinality(Reserved("open")) + 1
        /\ Cardinality(Reserved("open")') \in Nat
    BY <2>1, <2>3, OneMore
  <2>6. Cardinality(Reserved("open")) <= Cardinality(Awaited("open"))
    BY <2>1, <2>3, FS_Subset
  <2>7. Cardinality(leases) + Cardinality(Awaited("open")) < MaxOpenLeases
    BY DEF Open
  <2>8. leases' = leases /\ mats' = mats
    BY <1>2 DEF files
  <2> HIDE DEF Reserved, Awaited
  <2> QED BY <2>2, <2>4, <2>5, <2>6, <2>7, <2>8, LimitsAssumption DEF IInv, Limits
<1> QED BY <1>3, <1>4, <1>5, <1>6, <1>7 DEF IInv

LEMMA ReadKeeps ==
  ASSUME IInv, NEW c \in Calls, NEW l \in Leases, Read(c, l)
  PROVE  IInv'
<1> DEFINE job == [[[Idle EXCEPT !.kind = "read"] EXCEPT !.at = "ask"] EXCEPT !.lease = l]
<1>1. job \in Job /\ job.kind = "read" /\ job.at = "ask" /\ job.answer = None /\ job.lease = l
  BY DEF Idle, Job, AtClient, None, NoDir
<1>2. Begin(c, job) /\ Send("read", c) /\ UNCHANGED <<shared, leases, files, known, client, budget>>
  BY DEF Read, Idle
<1> HIDE DEF job
<1>3. TypeOK' /\ Posted'
  BY <1>1, <1>2, AsksFirst
<1>4. ShapeOf(job, c)
  BY <1>1 DEF ShapeOf, None
<1> QED BY <1>1, <1>2, <1>3, <1>4, BeginKeeps DEF Read, Usable, shared

LEMMA ReleaseKeeps ==
  ASSUME IInv, NEW c \in Calls, NEW l \in Leases, Release(c, l)
  PROVE  IInv'
<1> DEFINE job == [[[Idle EXCEPT !.kind = "release"] EXCEPT !.at = "ask"] EXCEPT !.lease = l]
<1>1. job \in Job /\ job.kind = "release" /\ job.at = "ask" /\ job.answer = None /\ job.lease = l
  BY DEF Idle, Job, AtClient, None, NoDir
<1>2. Begin(c, job) /\ Send("release", c) /\ UNCHANGED <<shared, leases, files, known, client, budget>>
  BY DEF Release, Idle
<1> HIDE DEF job
<1>3. TypeOK' /\ Posted'
  BY <1>1, <1>2, AsksFirst
<1>4. ShapeOf(job, c)
  BY <1>1 DEF ShapeOf, None
<1> QED BY <1>1, <1>2, <1>3, <1>4, BeginKeeps DEF Release, Usable, shared

\* The lease is not materialized, so that its directory is neither recorded nor being removed.
LEMMA MaterializeKeeps ==
  ASSUME IInv, NEW c \in Calls, NEW l \in Leases, Materialize(c, l)
  PROVE  IInv'
<1> DEFINE job == [[[[Idle EXCEPT !.kind = "materialize"] EXCEPT !.at = "stage"] EXCEPT !.lease = l]
                     EXCEPT !.dir = <<c, l>>]
<1>1. /\ job \in Job /\ job.kind = "materialize" /\ job.at = "stage" /\ job.answer = None /\ ~job.cut
      /\ job.lease = l /\ job.dir = <<c, l>>
  BY DEF Idle, Job, AtClient, None, NoDir
<1>2. Begin(c, job) /\ UNCHANGED <<shared, leases, files, known, up, client, budget>>
  BY DEF Materialize, Idle
<1> HIDE DEF job
<1>3. Others(c) /\ jobs[c] = Idle /\ jobs'[c] = job /\ UNCHANGED <<disk, mats, materialized>>
  BY <1>1, <1>2, BeginFacts DEF IInv, files
<1>4. TypeOK'
  BY <1>2, <1>3 DEF IInv, TypeOK, Others, shared, files, client
<1>5. JobShape'
  <2>1. ShapeOf(jobs'[c], c)
    BY <1>1, <1>3 DEF ShapeOf, None
  <2> QED BY <1>3, <2>1, ShapeKept DEF IInv
<1>6. Posted'
  <2>1. ~Awaits(c)
    BY <1>3 DEF Awaits, Idle, AtClient
  <2> QED BY <1>2, <1>3, <2>1, PostedKept DEF IInv
<1>7. Directories'
  <2>1. Directories /\ \A d \in Calls \ {c} : jobs'[d] = jobs[d]
    BY <1>3 DEF IInv, Others
  <2>2. ~Filling(c)' /\ ~Filling(c) /\ Working(c)' /\ jobs'[c].kind # "remove" /\ jobs'[c].dir = <<c, l>>
    BY <1>1, <1>3 DEF Filling, Working, Idle, None
  <2>3. l \notin materialized
    BY DEF Materialize
  <2>4. \A d \in disk \ mats : d[1] # c
    BY <2>1, <2>2 DEF Directories
  <2>5. \A d \in disk \ mats : Filling(d[1])' /\ jobs'[d[1]].dir = d
    <3>1. \A d \in disk : d[1] \in Calls
      BY DEF IInv, TypeOK
    <3> QED BY <2>1, <2>4, <3>1 DEF Directories, Filling
  <2>6. \A d \in Calls : Working(d)' => jobs'[d].dir \notin mats
    BY <2>1, <2>2, <2>3 DEF Directories, Working
  <2>7. \A d \in Calls : Filling(d)' => jobs'[d].dir \in disk
    BY <2>1, <2>2 DEF Directories, Filling
  <2>8. \A r \in Calls : jobs'[r].kind = "remove" =>
          /\ jobs'[r].dir[2] \in materialized
          /\ \A d \in Calls : Working(d)' => jobs'[d].dir # jobs'[r].dir
    BY <2>1, <2>2, <2>3 DEF Directories, Working
  <2> QED BY <1>3, <2>1, <2>5, <2>6, <2>7, <2>8 DEF Directories
<1>8. Ended'
  BY <1>2, <1>3, EndedKept DEF IInv, Materialize, Usable, files, shared
<1>9. Limits'
  <2>1. /\ Reserved("materialize")' = Reserved("materialize") \cup {c}
        /\ Reserved("materialize") \subseteq Awaited("materialize")
    BY <1>1, <1>3 DEF Reserved, Others, Awaited
  <2>2. Reserved("open")' = Reserved("open")
    BY <1>1, <1>3 DEF Reserved, Others, Idle, None
  <2>3. IsFiniteSet(Reserved("materialize")) /\ IsFiniteSet(Awaited("materialize")) /\ IsFiniteSet(mats)
    <3>1. IsFiniteSet(Calls \X Leases)
      BY FiniteAssumption, FS_Product
    <3> QED BY <3>1, FiniteAssumption, FS_Subset DEF IInv, TypeOK, Reserved, Awaited
  <2>4. /\ Cardinality(mats) \in Nat /\ Cardinality(Awaited("materialize")) \in Nat
        /\ Cardinality(Reserved("materialize")) \in Nat
    BY <2>3, FS_CardinalityType
  <2>5. Cardinality(Reserved("materialize")') <= Cardinality(Reserved("materialize")) + 1
        /\ Cardinality(Reserved("materialize")') \in Nat
    BY <2>1, <2>3, OneMore
  <2>6. Cardinality(Reserved("materialize")) <= Cardinality(Awaited("materialize"))
    BY <2>1, <2>3, FS_Subset
  <2>7. Cardinality(mats) + Cardinality(Awaited("materialize")) < MaxMaterializations
    BY DEF Materialize
  <2>8. leases' = leases /\ mats' = mats
    BY <1>2 DEF files
  <2> HIDE DEF Reserved, Awaited
  <2> QED BY <2>2, <2>4, <2>5, <2>6, <2>7, <2>8, LimitsAssumption DEF IInv, Limits
<1> QED BY <1>4, <1>5, <1>6, <1>7, <1>8, <1>9 DEF IInv

LEMMA ReleaseMaterializationKeeps ==
  ASSUME IInv, NEW c \in Calls, NEW dir \in disk, ReleaseMaterialization(c, dir)
  PROVE  IInv'
<1> DEFINE job == [[[Idle EXCEPT !.kind = "remove"] EXCEPT !.at = "remove"] EXCEPT !.dir = dir]
<1>0. dir \in Calls \X Leases /\ dir \in mats
  BY DEF IInv, TypeOK, ReleaseMaterialization
<1>1. job \in Job /\ job.kind = "remove" /\ job.at = "remove" /\ job.dir = dir
  BY <1>0 DEF Idle, Job, AtClient, None, NoDir
<1>2. Begin(c, job) /\ UNCHANGED <<shared, leases, files, known, up, client, budget>>
  BY DEF ReleaseMaterialization, Idle
<1> HIDE DEF job
<1>3. Others(c) /\ jobs[c] = Idle /\ jobs'[c] = job /\ UNCHANGED <<disk, mats, materialized>>
  BY <1>1, <1>2, BeginFacts DEF IInv, files
<1>4. TypeOK'
  BY <1>2, <1>3 DEF IInv, TypeOK, Others, shared, files, client
<1>5. JobShape'
  <2>1. ShapeOf(jobs'[c], c)
    BY <1>0, <1>1, <1>3 DEF ShapeOf, None
  <2> QED BY <1>3, <2>1, ShapeKept DEF IInv
<1>6. Posted'
  <2>1. ~Awaits(c)
    BY <1>3 DEF Awaits, Idle, AtClient
  <2> QED BY <1>2, <1>3, <2>1, PostedKept DEF IInv
<1>7. Directories'
  <2>1. Directories /\ \A d \in Calls \ {c} : jobs'[d] = jobs[d]
    BY <1>3 DEF IInv, Others
  <2>2. ~Filling(c)' /\ ~Filling(c) /\ ~Working(c)' /\ jobs'[c].dir = dir
    BY <1>1, <1>3 DEF Filling, Working, Idle, None
  <2>5. \A d \in disk \ mats : Filling(d[1])' /\ jobs'[d[1]].dir = d
    <3>1. \A d \in disk : d[1] \in Calls
      BY DEF IInv, TypeOK
    <3> QED BY <2>1, <2>2, <3>1 DEF Directories, Filling
  <2>6. \A d \in Calls : Working(d)' => jobs'[d].dir \notin mats
    BY <2>1, <2>2 DEF Directories, Working
  <2>7. \A d \in Calls : Filling(d)' => jobs'[d].dir \in disk
    BY <2>1, <2>2 DEF Directories, Filling
  <2>8. \A r \in Calls : jobs'[r].kind = "remove" =>
          /\ jobs'[r].dir[2] \in materialized
          /\ \A d \in Calls : Working(d)' => jobs'[d].dir # jobs'[r].dir
    BY <1>0, <2>1, <2>2 DEF Directories, Working
  <2> QED BY <1>3, <2>1, <2>5, <2>6, <2>7, <2>8 DEF Directories
<1>8. Ended'
  BY <1>1, <1>2, <1>3, EndedKept DEF IInv, files, shared
<1>9. Limits'
  <2>1. \A kind \in {"open", "materialize"} : c \notin Reserved(kind)'
    BY <1>1, <1>3 DEF Reserved
  <2> QED BY <1>2, <1>3, <2>1, ReservesNothing DEF IInv
<1> QED BY <1>4, <1>5, <1>6, <1>7, <1>8, <1>9 DEF IInv

-----------------------------------------------------------------------------
(* What a call goes on with. *)

LEMMA OpenedKeeps ==
  ASSUME IInv, NEW c \in Calls, Opened(c)
  PROVE  IInv'
<1>1. /\ jobs[c].kind = "open" /\ jobs[c].at = "ask" /\ jobs[c].answer # None
      /\ UNCHANGED <<shared, files, known, client, budget>>
  BY DEF Opened
<1>2. TypeOK /\ JobShape /\ Posted /\ ~Awaits(c) /\ budget' \in 0..Budget
  BY <1>1 DEF IInv, Awaits, TypeOK
<1>3. CASE jobs[c].answer = "error" /\ End(c) /\ UNCHANGED <<leases, up>>
  <2>1. TypeOK'
    BY <1>1, <1>2, <1>3, EndFacts DEF TypeOK, Others, shared, files, client
  <2> QED BY <1>1, <1>2, <1>3, <2>1, EndKeeps DEF Filling, shared
<1>4. CASE jobs[c].answer = "ok"
  <2>1. jobs[c].lease \in Leases
    BY <1>1, <1>2, <1>4 DEF JobShape, ShapeOf
  <2>2. CASE jobs[c].cut /\ GivesUp(c)
    BY <1>1, <1>2, <2>1, <2>2, GivesUpKeeps
  <2>3. CASE ~jobs[c].cut /\ Commits(c)
    BY <1>1, <1>2, <2>1, <2>3, CommitsKeeps
  <2>4. CASE Asking(c, "page") /\ Send("read", c) /\ UNCHANGED leases
    <3>1. Moves(c, "page") /\ jobs'[c].answer = None
      BY <1>2, <2>4, AskingMoves DEF Places, AtClient
    <3>2. Others(c) /\ Awaits(c)' /\ jobs'[c].at # "ask"
      BY <3>1 DEF Moves, Awaits, AtClient
    <3>3. Posted' /\ up' \in Seq(Message)
      BY <1>2, <2>4, <3>2, PostedSend, SendIsTyped
    <3>4. TypeOK'
      BY <1>1, <1>2, <2>4, <3>2, <3>3 DEF TypeOK, Others, shared, files, client
    <3>5. ShapeOf(jobs'[c], c)
      BY <1>1, <2>1, <3>1 DEF ShapeOf, Moves, None
    <3>6. ~Filling(c) /\ ~Filling(c)'
      BY <1>1, <3>1 DEF Filling, Moves
    <3> QED BY <1>1, <2>4, <3>1, <3>3, <3>4, <3>5, <3>6, MoveKeeps DEF Places, AtClient, shared, None
  <2> QED BY <1>4, <2>2, <2>3, <2>4 DEF Opened
<1> QED BY <1>3, <1>4 DEF Opened

LEMMA ManifestReadKeeps ==
  ASSUME IInv, NEW c \in Calls, ManifestRead(c)
  PROVE  IInv'
<1>1. /\ jobs[c].at = "page" /\ jobs[c].answer # None
      /\ UNCHANGED <<shared, files, known, client>>
  BY DEF ManifestRead
<1>2. TypeOK /\ ~Awaits(c) /\ budget' \in 0..Budget
  BY <1>1, LimitsAssumption DEF IInv, Awaits, TypeOK, ManifestRead, Fails
<1>3. jobs[c].kind = "open" /\ jobs[c].lease \in Leases
  <2>1. jobs[c] \in Job /\ ShapeOf(jobs[c], c)
    BY DEF IInv, TypeOK, JobShape
  <2> QED BY <1>1, <2>1 DEF ShapeOf, Job, Idle
<1>4. CASE GivesUp(c)
  BY <1>1, <1>2, <1>3, <1>4, GivesUpKeeps
<1>5. CASE ~jobs[c].cut /\ Commits(c) /\ UNCHANGED budget
  BY <1>1, <1>2, <1>3, <1>5, CommitsKeeps
<1> QED BY <1>4, <1>5 DEF ManifestRead

LEMMA GivenUpKeeps ==
  ASSUME IInv, NEW c \in Calls, GivenUp(c)
  PROVE  IInv'
<1>1. ~Awaits(c) /\ ~Filling(c)
  BY DEF GivenUp, Awaits, Filling
<1>2. TypeOK'
  BY EndFacts DEF IInv, TypeOK, GivenUp, Others, shared, files, client
<1> QED BY <1>1, <1>2, EndKeeps DEF GivenUp, shared

LEMMA ReadDoneKeeps ==
  ASSUME IInv, NEW c \in Calls, ReadDone(c)
  PROVE  IInv'
<1>1. ~Awaits(c) /\ ~Filling(c)
  BY DEF ReadDone, Awaits, Filling
<1>2. TypeOK'
  BY EndFacts DEF IInv, TypeOK, ReadDone, Others, shared, files, client
<1> QED BY <1>1, <1>2, EndKeeps DEF ReadDone, shared

LEMMA ReleasedKeeps ==
  ASSUME IInv, NEW c \in Calls, Released(c)
  PROVE  IInv'
<1>1. ~Awaits(c) /\ ~Filling(c)
  BY DEF Released, Awaits, Filling
<1>2. TypeOK'
  BY EndFacts DEF IInv, TypeOK, Released, Others, shared, files, client
<1> QED BY <1>1, <1>2, EndKeeps DEF Released, shared

LEMMA ReturnKeeps ==
  ASSUME IInv, NEW c \in Calls, Return(c)
  PROVE  IInv'
<1>1. ~Awaits(c) /\ ~Filling(c)
  BY DEF Return, Awaits, Filling, AtClient
<1>2. jobs[c].kind \in {"open", "materialize"}
  <2>1. jobs[c] \in Job /\ ShapeOf(jobs[c], c)
    BY DEF IInv, TypeOK, JobShape
  <2> QED BY <2>1 DEF ShapeOf, Job, Idle, Return
<1>3. known' \subseteq Leases \cup (Calls \X Leases)
  <2>1. ShapeOf(jobs[c], c) /\ jobs[c].at # "ask"
    BY DEF IInv, JobShape, Return
  <2>2. jobs[c].lease \in Leases /\ (jobs[c].kind = "materialize" => jobs[c].dir \in Calls \X Leases)
    BY <1>2, <2>1 DEF ShapeOf
  <2> QED BY <1>2, <2>2 DEF IInv, TypeOK, Return
<1>4. TypeOK'
  BY <1>3, EndFacts DEF IInv, TypeOK, Return, Others, shared, files, client
<1> QED BY <1>1, <1>4, EndKeeps DEF Return, shared

\* Everything but its own part of the disk stays as it is for the other calls.
LEMMA StagedKeeps ==
  ASSUME IInv, NEW c \in Calls, Staged(c)
  PROVE  IInv'
<1> DEFINE dir == jobs[c].dir
<1>1. /\ jobs[c].kind = "materialize" /\ jobs[c].at = "stage"
      /\ jobs[c].lease \in Leases /\ dir = <<c, jobs[c].lease>> /\ jobs[c].answer = None
  <2>1. jobs[c] \in Job /\ ShapeOf(jobs[c], c)
    BY DEF IInv, TypeOK, JobShape
  <2> QED BY <2>1 DEF ShapeOf, Job, Idle, Staged
<1>2. PICK at \in {"ask", "rename", "discard"} :
        Step(c, at) /\ IF at = "ask" THEN Send("read", c) ELSE UNCHANGED up
  BY DEF Staged
<1>3. Moves(c, at) /\ Others(c) /\ jobs'[c].answer = jobs[c].answer
  BY <1>2, StepMoves DEF IInv, Places, AtClient, Moves
<1>4. Posted' /\ up' \in Seq(Message)
  <2>1. ~Awaits(c)
    BY <1>1 DEF Awaits, AtClient
  <2>2. CASE at = "ask"
    <3>1. Awaits(c)' /\ jobs'[c].kind # "open"
      BY <1>1, <1>3, <2>2 DEF Awaits, AtClient, Moves
    <3> QED BY <1>2, <1>3, <2>1, <2>2, <3>1, PostedSend, SendIsTyped DEF IInv
  <2>3. CASE at # "ask"
    BY <1>2, <1>3, <2>1, <2>3, PostedKept DEF IInv, TypeOK
  <2> QED BY <2>2, <2>3
<1>5. TypeOK'
  BY <1>1, <1>3, <1>4 DEF IInv, TypeOK, Others, Staged, shared, files, client
<1>6. JobShape'
  <2>1. ShapeOf(jobs'[c], c)
    BY <1>1, <1>3 DEF ShapeOf, Moves, None
  <2> QED BY <1>3, <2>1, ShapeKept DEF IInv
<1>7. Directories'
  <2>1. Directories /\ \A d \in Calls \ {c} : jobs'[d] = jobs[d]
    BY <1>3 DEF IInv, Others
  <2>2. ~Filling(c) /\ Working(c) /\ Filling(c)' /\ jobs'[c].dir = dir /\ jobs'[c].kind # "remove"
    BY <1>1, <1>3 DEF Filling, Working, Moves
  <2>3. disk' = disk \cup {dir} /\ mats' = mats /\ materialized' = materialized
    BY DEF Staged
  <2>4. \A d \in disk : d[1] \in Calls
    BY DEF IInv, TypeOK
  <2>5. \A d \in disk' \ mats' : Filling(d[1])' /\ jobs'[d[1]].dir = d
    BY <1>1, <2>1, <2>2, <2>3, <2>4 DEF Directories, Filling
  <2>6. \A d \in Calls : Working(d)' => jobs'[d].dir \notin mats
    BY <2>1, <2>2 DEF Directories, Working
  <2>7. \A d \in Calls : Filling(d)' => jobs'[d].dir \in disk'
    BY <2>1, <2>2, <2>3 DEF Directories, Filling
  <2>8. \A r \in Calls : jobs'[r].kind = "remove" =>
          /\ jobs'[r].dir[2] \in materialized
          /\ \A d \in Calls : Working(d)' => jobs'[d].dir # jobs'[r].dir
    BY <2>1, <2>2 DEF Directories, Working
  <2> QED BY <2>1, <2>3, <2>5, <2>6, <2>7, <2>8 DEF Directories
<1>8. Ended'
  <2>1. bound \/ jobs'[c].cut
    BY <1>1, <1>3 DEF IInv, Ended, Moves, None
  <2> QED BY <1>3, <2>1, EndedKept DEF IInv, Staged, shared
<1>9. Limits'
  <2>1. \A kind \in {"open", "materialize"} : c \in Reserved(kind)' => c \in Reserved(kind)
    BY <1>1, <1>3 DEF Reserved, Moves
  <2> QED BY <1>3, <2>1, ReservesNothing DEF IInv, Staged
<1> QED BY <1>4, <1>5, <1>6, <1>7, <1>8, <1>9 DEF IInv

LEMMA FilledKeeps ==
  ASSUME IInv, NEW c \in Calls, Filled(c)
  PROVE  IInv'
<1>1. /\ jobs[c].kind = "materialize" /\ jobs[c].at = "ask" /\ jobs[c].answer # None
      /\ UNCHANGED <<shared, leases, files, known, up, client>>
  BY DEF Filled
<1>2. PICK at \in {"rename", "discard"} : Step(c, at)
  BY DEF Filled
<1>3. Moves(c, at)
  BY <1>2, StepMoves DEF IInv, Places
<1>4. budget' \in 0..Budget
  BY LimitsAssumption DEF IInv, TypeOK, Filled, Fails
<1>5. TypeOK'
  BY <1>1, <1>3, <1>4 DEF IInv, TypeOK, Moves, Others, shared, files, client
<1>6. Posted'
  <2>1. ~Awaits(c) /\ Others(c)
    BY <1>1, <1>3 DEF Awaits, Moves
  <2> QED BY <1>1, <2>1, PostedKept DEF IInv
<1>7. ShapeOf(jobs'[c], c)
  <2>1. ShapeOf(jobs[c], c)
    BY DEF IInv, JobShape
  <2> QED BY <1>1, <1>3, <2>1 DEF ShapeOf, Moves, None
<1>8. Filling(c) /\ Filling(c)'
  BY <1>1, <1>3 DEF Filling, Moves
<1> QED BY <1>1, <1>3, <1>5, <1>6, <1>7, <1>8, MoveKeeps DEF Places, shared, None

-----------------------------------------------------------------------------
\* The directory takes the place that was reserved for it.
LEMMA RenamedKeeps ==
  ASSUME IInv, NEW c \in Calls, Renamed(c)
  PROVE  IInv'
<1> DEFINE dir == jobs[c].dir
           lease == jobs[c].lease
<1>1. /\ jobs[c].kind = "materialize" /\ jobs[c].at = "rename"
      /\ lease \in Leases /\ dir = <<c, lease>>
  <2>1. jobs[c] \in Job /\ ShapeOf(jobs[c], c)
    BY DEF IInv, TypeOK, JobShape
  <2> QED BY <2>1 DEF ShapeOf, Job, Idle, Renamed
<1>2. ~Awaits(c) /\ UNCHANGED <<shared, leases, disk, known, up, client, budget>>
  BY <1>1 DEF Awaits, AtClient, Renamed
<1>3. CASE jobs[c].cut
  <2>1. Step(c, "discard") /\ UNCHANGED files
    BY <1>2, <1>3 DEF Renamed, files
  <2>2. Moves(c, "discard") /\ Others(c)
    BY <2>1, StepMoves DEF IInv, Places, Moves
  <2>3. TypeOK'
    BY <1>2, <2>1, <2>2 DEF IInv, TypeOK, Others, shared, files, client
  <2>4. Posted'
    BY <1>2, <2>2, PostedKept DEF IInv
  <2>5. ShapeOf(jobs'[c], c)
    BY <1>1, <2>2 DEF ShapeOf, Moves, None
  <2>6. Filling(c) /\ Filling(c)'
    BY <1>1, <2>2 DEF Filling, Moves
  <2> QED BY <1>1, <1>2, <2>1, <2>2, <2>3, <2>4, <2>5, <2>6, MoveKeeps DEF Places, shared, None
<1>4. CASE ~jobs[c].cut
  <2>1. /\ Step(c, "return")
        /\ mats' = mats \cup {dir} /\ materialized' = materialized \cup {lease} /\ disk' = disk
    BY <1>2, <1>4 DEF Renamed
  <2>2. Moves(c, "return") /\ Others(c)
    BY <2>1, StepMoves DEF IInv, Places, Moves
  <2>3. TypeOK'
    BY <1>1, <1>2, <2>1, <2>2 DEF IInv, TypeOK, Others, shared, files, client
  <2>4. JobShape'
    <3>1. ShapeOf(jobs'[c], c)
      BY <1>1, <2>2 DEF ShapeOf, Moves, None
    <3> QED BY <2>2, <3>1, ShapeKept DEF IInv
  <2>5. Posted'
    BY <1>2, <2>2, PostedKept DEF IInv
  <2>6. Directories'
    <3>1. Directories /\ \A d \in Calls \ {c} : jobs'[d] = jobs[d]
      BY <2>2 DEF IInv, Others
    <3>2. Filling(c) /\ Working(c) /\ ~Filling(c)' /\ ~Working(c)' /\ jobs'[c].kind # "remove"
      BY <1>1, <2>2 DEF Filling, Working, Moves
    <3>3. \A d \in Calls : d # c /\ Working(d) => jobs[d].dir # dir
      <4>1. \A d \in Calls : Working(d) => jobs[d].dir = <<d, jobs[d].lease>>
        BY DEF IInv, JobShape, ShapeOf, Working
      <4> QED BY <1>1, <4>1
    <3>4. \A d \in disk : d[1] \in Calls
      BY DEF IInv, TypeOK
    <3>5. \A d \in disk' \ mats' : Filling(d[1])' /\ jobs'[d[1]].dir = d
      BY <2>1, <3>1, <3>4 DEF Directories, Filling
    <3>6. mats' \subseteq disk' /\ \A d \in mats' : d[2] \in materialized'
      BY <1>1, <2>1, <3>1, <3>2 DEF Directories
    <3>7. \A d \in Calls : Working(d)' => jobs'[d].dir \notin mats'
      BY <2>1, <3>1, <3>2, <3>3 DEF Directories, Working
    <3>8. \A d \in Calls : Filling(d)' => jobs'[d].dir \in disk'
      BY <2>1, <3>1, <3>2 DEF Directories, Filling
    <3>9. \A r \in Calls : jobs'[r].kind = "remove" =>
            /\ jobs'[r].dir[2] \in materialized'
            /\ \A d \in Calls : Working(d)' => jobs'[d].dir # jobs'[r].dir
      BY <2>1, <3>1, <3>2 DEF Directories, Working
    <3> QED BY <3>5, <3>6, <3>7, <3>8, <3>9 DEF Directories
  <2>7. Ended'
    <3>1. bound
      BY <1>1, <1>4 DEF IInv, Ended, None
    <3> QED BY <1>2, <3>1 DEF IInv, Ended, shared
  <2>8. Limits'
    <3>1. /\ Reserved("materialize")' = Reserved("materialize") \ {c} /\ c \in Reserved("materialize")
          /\ Reserved("open")' = Reserved("open")
      BY <1>1, <1>4, <2>2 DEF Reserved, Moves, Others
    <3>2. IsFiniteSet(mats) /\ IsFiniteSet(Reserved("materialize"))
      <4>1. IsFiniteSet(Calls \X Leases)
        BY FiniteAssumption, FS_Product
      <4> QED BY <4>1, FiniteAssumption, FS_Subset DEF IInv, TypeOK, Reserved
    <3>3. Cardinality(mats') <= Cardinality(mats) + 1 /\ Cardinality(mats') \in Nat
      BY <2>1, <3>2, OneMore
    <3>4. Cardinality(Reserved("materialize")') = Cardinality(Reserved("materialize")) - 1
      BY <3>1, <3>2, FS_RemoveElement
    <3>5. Cardinality(Reserved("materialize")) \in Nat /\ Cardinality(mats) \in Nat
      BY <3>2, FS_CardinalityType
    <3> HIDE DEF Reserved
    <3> QED BY <1>2, <3>1, <3>3, <3>4, <3>5, LimitsAssumption DEF IInv, Limits
  <2> QED BY <2>3, <2>4, <2>5, <2>6, <2>7, <2>8 DEF IInv
<1> QED BY <1>3, <1>4

LEMMA DiscardedKeeps ==
  ASSUME IInv, NEW c \in Calls, Discarded(c)
  PROVE  IInv'
<1> DEFINE dir == jobs[c].dir
<1>1. /\ jobs[c].kind = "materialize" /\ jobs[c].at = "discard"
      /\ jobs[c].lease \in Leases /\ dir = <<c, jobs[c].lease>>
  <2>1. jobs[c] \in Job /\ ShapeOf(jobs[c], c)
    BY DEF IInv, TypeOK, JobShape
  <2> QED BY <2>1 DEF ShapeOf, Job, Idle, Discarded
<1>2. /\ Others(c) /\ jobs'[c] = Idle /\ disk' = disk \ {dir}
      /\ UNCHANGED <<shared, leases, materialized, mats, known, up, client, budget>>
  BY EndFacts DEF IInv, Discarded
<1>3. TypeOK'
  BY <1>2 DEF IInv, TypeOK, Others, shared, client
<1>4. JobShape'
  <2>1. ShapeOf(jobs'[c], c)
    BY <1>2 DEF ShapeOf, Idle, None
  <2> QED BY <1>2, <2>1, ShapeKept DEF IInv
<1>5. Posted'
  <2>1. ~Awaits(c)
    BY <1>1 DEF Awaits, AtClient
  <2> QED BY <1>2, <2>1, PostedKept DEF IInv
<1>6. Directories'
  <2>1. Directories /\ \A d \in Calls \ {c} : jobs'[d] = jobs[d]
    BY <1>2 DEF IInv, Others
  <2>2. Filling(c) /\ Working(c) /\ ~Filling(c)' /\ ~Working(c)' /\ jobs'[c].kind # "remove"
    BY <1>1, <1>2 DEF Filling, Working, Idle, None
  <2>3. \A d \in Calls : d # c /\ Filling(d) => jobs[d].dir # dir
    <3>1. \A d \in Calls : Filling(d) => jobs[d].dir = <<d, jobs[d].lease>>
      BY DEF IInv, JobShape, ShapeOf, Filling
    <3> QED BY <1>1, <3>1
  <2>4. \A d \in disk : d[1] \in Calls
    BY DEF IInv, TypeOK
  <2>5. \A d \in disk' \ mats' : Filling(d[1])' /\ jobs'[d[1]].dir = d
    BY <1>2, <2>1, <2>4 DEF Directories, Filling
  <2>6. mats' \subseteq disk'
    BY <1>2, <2>1, <2>2 DEF Directories
  <2>7. \A d \in Calls : Working(d)' => jobs'[d].dir \notin mats'
    BY <1>2, <2>1, <2>2 DEF Directories, Working
  <2>8. \A d \in Calls : Filling(d)' => jobs'[d].dir \in disk'
    BY <1>2, <2>1, <2>2, <2>3 DEF Directories, Filling
  <2>9. \A r \in Calls : jobs'[r].kind = "remove" =>
          /\ jobs'[r].dir[2] \in materialized'
          /\ \A d \in Calls : Working(d)' => jobs'[d].dir # jobs'[r].dir
    BY <1>2, <2>1, <2>2 DEF Directories, Working
  <2> QED BY <1>2, <2>1, <2>5, <2>6, <2>7, <2>8, <2>9 DEF Directories
<1>7. Ended'
  BY <1>2, EndedKept DEF IInv, shared, Idle
<1>8. Limits'
  <2>1. \A kind \in {"open", "materialize"} : c \notin Reserved(kind)'
    BY <1>2 DEF Reserved, Idle, None
  <2> QED BY <1>2, <2>1, ReservesNothing DEF IInv
<1> QED BY <1>3, <1>4, <1>5, <1>6, <1>7, <1>8 DEF IInv

\* No call is filling what is removed.
LEMMA RemovedKeeps ==
  ASSUME IInv, NEW c \in Calls, Removed(c)
  PROVE  IInv'
<1> DEFINE dir == jobs[c].dir
<1>1. jobs[c].kind = "remove"
  <2>1. jobs[c] \in Job /\ ShapeOf(jobs[c], c)
    BY DEF IInv, TypeOK, JobShape
  <2> QED BY <2>1 DEF ShapeOf, Job, Idle, Removed
<1>2. /\ Others(c) /\ jobs'[c] = Idle /\ jobs[c].at = "remove"
      /\ UNCHANGED <<shared, leases, materialized, known, up, client>>
  BY EndFacts DEF IInv, Removed
<1>3. \/ UNCHANGED <<mats, disk>>
      \/ mats' = mats \ {dir} /\ disk' = disk \ {dir}
  BY DEF Removed
<1>4. TypeOK'
  <2>1. budget' \in 0..Budget
    BY LimitsAssumption DEF IInv, TypeOK, Removed, Fails
  <2> QED BY <1>2, <1>3, <2>1 DEF IInv, TypeOK, Others, shared, client
<1>5. JobShape'
  <2>1. ShapeOf(jobs'[c], c)
    BY <1>2 DEF ShapeOf, Idle, None
  <2> QED BY <1>2, <2>1, ShapeKept DEF IInv
<1>6. Posted'
  <2>1. ~Awaits(c)
    BY <1>2 DEF Awaits, AtClient
  <2> QED BY <1>2, <2>1, PostedKept DEF IInv
<1>7. Directories'
  <2>1. Directories /\ \A d \in Calls \ {c} : jobs'[d] = jobs[d]
    BY <1>2 DEF IInv, Others
  <2>2. ~Filling(c) /\ ~Filling(c)' /\ ~Working(c)' /\ jobs'[c].kind # "remove"
    BY <1>1, <1>2 DEF Filling, Working, Idle, None
  <2>3. \A d \in Calls : Filling(d) => jobs[d].dir # dir
    BY <1>1, <2>1 DEF Directories, Filling, Working
  <2>4. \A d \in disk : d[1] \in Calls
    BY DEF IInv, TypeOK
  <2>5. \A d \in disk' \ mats' : Filling(d[1])' /\ jobs'[d[1]].dir = d
    <3>1. disk' \ mats' \subseteq disk \ mats
      BY <1>3
    <3> QED BY <2>1, <2>2, <2>4, <3>1 DEF Directories, Filling
  <2>6. mats' \subseteq disk' /\ mats' \subseteq mats
    BY <1>3, <2>1 DEF Directories
  <2>7. \A d \in Calls : Working(d)' => jobs'[d].dir \notin mats'
    BY <2>1, <2>2, <2>6 DEF Directories, Working
  <2>8. \A d \in Calls : Filling(d)' => jobs'[d].dir \in disk'
    BY <1>3, <2>1, <2>2, <2>3 DEF Directories, Filling
  <2>9. \A r \in Calls : jobs'[r].kind = "remove" =>
          /\ jobs'[r].dir[2] \in materialized'
          /\ \A d \in Calls : Working(d)' => jobs'[d].dir # jobs'[r].dir
    BY <1>2, <2>1, <2>2 DEF Directories, Working
  <2> QED BY <1>2, <2>1, <2>5, <2>6, <2>7, <2>8, <2>9 DEF Directories
<1>8. Ended'
  BY <1>2, <1>3 DEF IInv, Ended, shared, Idle, Others
<1>9. Limits'
  <2>1. \A kind \in {"open", "materialize"} : c \notin Reserved(kind)'
    BY <1>2 DEF Reserved, Idle, None
  <2>2. mats' \subseteq mats /\ leases' \subseteq leases
    BY <1>2, <1>3
  <2> QED BY <1>2, <2>1, <2>2, ReservesNothing DEF IInv
<1> QED BY <1>4, <1>5, <1>6, <1>7, <1>8, <1>9 DEF IInv

-----------------------------------------------------------------------------
(* The client and what disturbs. *)

\* A step of the client answers the call whose request it handles, and leaves every call where it is.
Replies(c, what) ==
  /\ drawn' \subseteq Leases /\ holder' \in [Leases -> Turns \cup {None}]
  /\ jobs' \in [Calls -> Job]
  /\ \A d \in Calls \ {c} : jobs'[d] = jobs[d]
  /\ c # None =>
       /\ jobs'[c].at = jobs[c].at /\ jobs'[c].kind = jobs[c].kind /\ jobs'[c].cut = jobs[c].cut
       /\ jobs'[c].dir = jobs[c].dir
       /\ \/ jobs'[c].lease = jobs[c].lease /\ (jobs'[c].answer = "ok" => what # "open")
          \/ jobs'[c].lease \in Leases /\ jobs[c].kind = "open"

LEMMA ClientHandlesKeeps ==
  ASSUME IInv, ClientHandles
  PROVE  IInv'
<1> DEFINE m == Head(up)
           c == m.call
<1>1. /\ up # <<>> /\ up' = Tail(up)
      /\ UNCHANGED <<shared, leases, files, known, requested, budget>>
  BY DEF ClientHandles
<1>2. /\ up \in Seq(Message) /\ m \in Message /\ 1 \in DOMAIN up /\ m = up[1]
      /\ up' \in Seq(Message) /\ Len(up') = Len(up) - 1
      /\ \A i \in DOMAIN up' : i + 1 \in DOMAIN up /\ up'[i] = up[i + 1] /\ i \in Nat
  BY <1>1 DEF IInv, TypeOK
<1>3. c \in Calls \cup {None} /\ m.turn \in Turns \cup {None}
  BY <1>2 DEF Message
<1>4. c # None =>
        /\ c \in Calls /\ Awaits(c)
        /\ m.what = "open" <=> jobs[c].kind = "open" /\ jobs[c].at = "ask"
        /\ \A i \in DOMAIN up' : up'[i].call # c
  <2> SUFFICES ASSUME c # None
               PROVE  /\ c \in Calls /\ Awaits(c)
                      /\ m.what = "open" <=> jobs[c].kind = "open" /\ jobs[c].at = "ask"
                      /\ \A i \in DOMAIN up' : up'[i].call # c
    OBVIOUS
  <2>1. \A i \in DOMAIN up : up[i].call = c => i = 1
    BY <1>2 DEF IInv, Posted
  <2>2. \A i \in DOMAIN up' : up'[i].call # c
    BY <1>2, <2>1
  <2> QED BY <1>2, <1>3, <2>2 DEF IInv, Posted
<1>5. Replies(c, m.what)
  <2>1. ASSUME m.what = "open", Accepts(m.turn), NEW l \in Leases, drawn' = drawn \cup {l},
               holder' = [holder EXCEPT ![l] = m.turn], Opens(c, l)
        PROVE  Replies(c, m.what)
    <3>1. CASE c = None
      BY <1>3, <2>1, <3>1, NoneAssumption DEF IInv, TypeOK, Opens, Replies
    <3>2. CASE c # None
      BY <1>3, <1>4, <2>1, <3>2, OpensFacts DEF IInv, TypeOK, Others, Replies
    <3> QED BY <3>1, <3>2
  <2>2. ASSUME NEW answer \in {"ok", "error"}, Answer(c, answer), answer = "ok" => m.what # "open",
               UNCHANGED drawn, holder' \in [Leases -> Turns \cup {None}]
        PROVE  Replies(c, m.what)
    <3>1. CASE c = None
      BY <1>3, <2>2, <3>1, NoneAssumption DEF IInv, TypeOK, Answer, Replies
    <3>2. CASE c # None
      BY <1>3, <1>4, <2>2, <3>2, AnswerFacts DEF IInv, TypeOK, Others, Moves, Replies
    <3> QED BY <3>1, <3>2
  <2>3. holder \in [Leases -> Turns \cup {None}]
    BY DEF IInv, TypeOK
  <2>4. CASE m.what = "open" /\ Accepts(m.turn)
    <3>1. drawn \subseteq Leases /\ drawn # Leases
      BY <2>4 DEF IInv, TypeOK, Accepts
    <3> DEFINE l == CHOOSE l \in Leases : l \notin drawn
    <3>2. l \in Leases
      BY <3>1
    <3>3. drawn' = drawn \cup {l} /\ holder' = [holder EXCEPT ![l] = m.turn] /\ Opens(c, l)
      BY <2>4 DEF ClientHandles
    <3> HIDE DEF l
    <3> QED BY <2>1, <2>4, <3>2, <3>3
  <2>5. CASE m.what = "open" /\ ~Accepts(m.turn)
    BY <2>2, <2>3, <2>5 DEF ClientHandles
  <2>6. CASE m.what # "open"
    <3>1. Answer(c, IF holder[m.lease] # None THEN "ok" ELSE "error") /\ UNCHANGED drawn
      BY <2>6 DEF ClientHandles
    <3>2. holder' \in [Leases -> Turns \cup {None}]
      BY <2>3, <2>6 DEF ClientHandles
    <3> QED BY <2>2, <2>6, <3>1, <3>2
  <2> QED BY <2>4, <2>5, <2>6
<1> HIDE DEF c, m
<1>6. TypeOK'
  BY <1>1, <1>2, <1>5 DEF Replies, IInv, TypeOK, shared, files
<1>7. JobShape'
  <2>1. c # None => ShapeOf(jobs'[c], c)
    <3>1. c # None => ShapeOf(jobs[c], c)
      BY <1>4 DEF IInv, JobShape
    <3> QED BY <1>4, <1>5, <3>1 DEF Replies, ShapeOf, Awaits, AtClient, Idle, None
  <2> QED BY <1>5, <2>1, NoneAssumption DEF Replies, IInv, JobShape
<1>8. Posted'
  <2>1. \A i \in DOMAIN up' : up'[i].call # None =>
          up'[i].call \in Calls /\ jobs'[up'[i].call] = jobs[up'[i].call]
    <3>1. \A i \in DOMAIN up' : up'[i].call # None => up'[i].call \in Calls /\ up'[i].call # c
      BY <1>2, <1>4, CallsOfMessages DEF IInv
    <3> QED BY <1>5, <3>1 DEF Replies
  <2>2. \A i \in DOMAIN up' : up'[i].call # None =>
          /\ jobs'[up'[i].call].at \in AtClient /\ jobs'[up'[i].call].answer = None
          /\ up'[i].what = "open" <=> jobs'[up'[i].call].kind = "open" /\ jobs'[up'[i].call].at = "ask"
    BY <1>2, <2>1 DEF IInv, Posted, Awaits
  <2>3. \A i, j \in DOMAIN up' : up'[i].call = up'[j].call /\ up'[i].call # None => i = j
    BY <1>2 DEF IInv, Posted
  <2> QED BY <2>2, <2>3 DEF Posted, Awaits
<1>9. \A d \in Calls :
        /\ jobs'[d].at = jobs[d].at /\ jobs'[d].kind = jobs[d].kind /\ jobs'[d].cut = jobs[d].cut
        /\ jobs'[d].dir = jobs[d].dir
  BY <1>4, <1>5, NoneAssumption DEF Replies
<1>10. Directories'
  BY <1>1, <1>9 DEF IInv, TypeOK, Directories, Filling, Working, files
<1>11. Ended'
  BY <1>1, <1>9 DEF IInv, Ended, files, shared
<1>12. Limits'
  <2>1. Reserved("open")' = Reserved("open") /\ Reserved("materialize")' = Reserved("materialize")
    BY <1>9 DEF Reserved
  <2> QED BY <1>1, <1>5, <2>1, LimitsKept DEF Replies, IInv, files
<1> QED BY <1>6, <1>7, <1>8, <1>10, <1>11, <1>12 DEF IInv

-----------------------------------------------------------------------------
\* A disturbance leaves every call where it is: it is cut or not, and its
\* request is rejected or not.
Disturbs(c, job) ==
  /\ job \in Job
  /\ job.at = jobs[c].at /\ job.kind = jobs[c].kind /\ job.dir = jobs[c].dir
  /\ jobs[c].cut => job.cut
  /\ \/ job.lease = jobs[c].lease /\ job.answer = jobs[c].answer
     \/ /\ job.answer = "error" /\ jobs[c].at \in AtClient
        /\ job.lease = IF jobs[c].kind = "open" /\ jobs[c].at = "ask" THEN None ELSE jobs[c].lease
  /\ jobs[c].kind = None => job = jobs[c]
Disturbed == jobs' \in [Calls -> Job] /\ \A c \in Calls : Disturbs(c, jobs'[c])

LEMMA RejectedFacts ==
  ASSUME TypeOK, JobShape, NEW gone \in SUBSET {c \in Calls : Asks(c)}, NEW received, NEW c \in Calls
  PROVE  LET job == Rejected(gone, received)[c] IN
         /\ Disturbs(c, job) /\ job.cut = jobs[c].cut
         /\ c \in gone \ received => job.answer = "error"
         /\ c \notin gone \ received => job = jobs[c]
<1> DEFINE lease == IF jobs[c].kind = "open" /\ jobs[c].at = "ask" THEN None ELSE jobs[c].lease
           job == [[jobs[c] EXCEPT !.answer = "error"] EXCEPT !.lease = lease]
<1>1. jobs[c] \in Job /\ ShapeOf(jobs[c], c)
  BY DEF TypeOK, JobShape
<1>2. CASE c \in gone \ received
  <2>1. Rejected(gone, received)[c] = job
    BY <1>1, <1>2 DEF Rejected, Job
  <2>2. lease \in Leases \cup {None}
    BY <1>1 DEF Job
  <2>3. jobs[c].kind # None /\ jobs[c].at \in AtClient
    BY <1>1, <1>2 DEF ShapeOf, Asks, AtClient, Idle, None
  <2> HIDE DEF lease
  <2>4. /\ job \in Job /\ job.answer = "error" /\ job.at = jobs[c].at /\ job.kind = jobs[c].kind
        /\ job.dir = jobs[c].dir /\ job.cut = jobs[c].cut /\ job.lease = lease
    BY <1>1, <2>2 DEF Job, AtClient
  <2> HIDE DEF job
  <2>5. job.lease = IF jobs[c].kind = "open" /\ jobs[c].at = "ask" THEN None ELSE jobs[c].lease
    BY <2>4 DEF lease
  <2> QED BY <1>2, <2>1, <2>3, <2>4, <2>5 DEF Disturbs
<1>3. CASE c \notin gone \ received
  <2>1. Rejected(gone, received)[c] = jobs[c]
    BY <1>3 DEF Rejected
  <2> QED BY <1>1, <1>3, <2>1 DEF Disturbs
<1> QED BY <1>2, <1>3

LEMMA CutFacts ==
  ASSUME NEW c \in Calls, NEW job, Disturbs(c, job), jobs[c].kind # None
  PROVE  LET cut == [job EXCEPT !.cut = TRUE] IN
         Disturbs(c, cut) /\ cut.cut /\ cut.answer = job.answer
<1> DEFINE cut == [job EXCEPT !.cut = TRUE]
<1>1. job \in Job
  BY DEF Disturbs
<1>2. /\ cut \in Job /\ cut.cut /\ cut.answer = job.answer /\ cut.at = job.at /\ cut.kind = job.kind
      /\ cut.dir = job.dir /\ cut.lease = job.lease
  BY <1>1 DEF Job, AtClient
<1> HIDE DEF cut
<1>3. Disturbs(c, cut)
  BY <1>2 DEF Disturbs
<1> QED BY <1>2, <1>3 DEF cut

LEMMA DisturbedKeeps ==
  ASSUME IInv, TypeOK', Posted', Ended', Disturbed, leases' \subseteq leases, materialized' = materialized,
         \/ mats' = mats /\ disk' = disk
         \/ mats' = {} /\ disk' = disk \ mats
  PROVE  IInv'
<1>1. \A c \in Calls :
        /\ jobs'[c].at = jobs[c].at /\ jobs'[c].kind = jobs[c].kind /\ jobs'[c].dir = jobs[c].dir
        /\ jobs[c].cut => jobs'[c].cut
  BY DEF Disturbed, Disturbs
<1>2. JobShape'
  <2> SUFFICES ASSUME NEW c \in Calls
               PROVE  ShapeOf(jobs'[c], c)
    BY DEF JobShape
  <2>1. Disturbs(c, jobs'[c]) /\ ShapeOf(jobs[c], c)
    BY DEF Disturbed, IInv, JobShape
  <2> QED BY <2>1 DEF Disturbs, ShapeOf, AtClient, None
<1>3. Directories'
  <2>1. \A c \in Calls : (Filling(c)' <=> Filling(c)) /\ (Working(c)' <=> Working(c))
    BY <1>1 DEF Filling, Working
  <2>2. \A d \in disk : d[1] \in Calls
    BY DEF IInv, TypeOK
  <2>3. \A d \in disk' \ mats' : Filling(d[1])' /\ jobs'[d[1]].dir = d
    <3>1. disk' \ mats' \subseteq disk \ mats
      OBVIOUS
    <3> QED BY <1>1, <2>1, <2>2, <3>1 DEF IInv, Directories
  <2>4. mats' \subseteq disk' /\ mats' \subseteq mats
    BY DEF IInv, Directories
  <2>5. \A c \in Calls : Filling(c) => jobs[c].dir \in disk \ mats
    BY DEF IInv, Directories, Filling, Working
  <2>6. disk \ mats \subseteq disk'
    OBVIOUS
  <2>7. \A c \in Calls : Working(c)' => jobs'[c].dir \notin mats'
    BY <1>1, <2>1, <2>4 DEF IInv, Directories
  <2>8. \A c \in Calls : Filling(c)' => jobs'[c].dir \in disk'
    BY <1>1, <2>1, <2>5, <2>6
  <2>9. \A r \in Calls : jobs'[r].kind = "remove" =>
          /\ jobs'[r].dir[2] \in materialized'
          /\ \A d \in Calls : Working(d)' => jobs'[d].dir # jobs'[r].dir
    BY <1>1, <2>1 DEF IInv, Directories
  <2>10. \A d \in mats' : d[2] \in materialized'
    BY <2>4 DEF IInv, Directories
  <2> QED BY <2>3, <2>4, <2>7, <2>8, <2>9, <2>10 DEF Directories
<1>4. Limits'
  <2>1. \A kind \in {"open", "materialize"} : Reserved(kind)' \subseteq Reserved(kind)
    BY <1>1 DEF Reserved
  <2> QED BY <2>1, LimitsKept DEF IInv, Disturbed
<1> QED BY <1>2, <1>3, <1>4 DEF IInv

\* The messages of the calls that gave up lose their addressee, and nothing else.
LEMMA OrphanedFacts ==
  ASSUME TypeOK, NEW gone, up' = Orphaned(gone)
  PROVE  /\ up' \in Seq(Message) /\ DOMAIN up' = DOMAIN up
         /\ \A i \in DOMAIN up : /\ up'[i].what = up[i].what /\ up'[i].lease = up[i].lease
                                 /\ up'[i].turn = up[i].turn
                                 /\ up'[i].call = IF up[i].call \in gone THEN None ELSE up[i].call
<1>1. DOMAIN up = 1..Len(up) /\ Len(up) \in Nat
  BY DEF TypeOK
<1>2. DOMAIN up' = 1..Len(up)
  BY <1>1 DEF Orphaned
<1>3. ASSUME NEW i \in DOMAIN up
      PROVE  /\ up'[i] \in Message /\ up'[i].what = up[i].what /\ up'[i].lease = up[i].lease
             /\ up'[i].turn = up[i].turn
             /\ up'[i].call = IF up[i].call \in gone THEN None ELSE up[i].call
  <2>1. up[i] \in Message
    BY CallsOfMessages, <1>3
  <2>2. up'[i] = IF up[i].call \in gone THEN [up[i] EXCEPT !.call = None] ELSE up[i]
    BY <1>3 DEF Orphaned
  <2> QED BY <2>1, <2>2 DEF Message
<1>4. up' \in [1..Len(up) -> Message]
  BY <1>1, <1>2, <1>3 DEF Orphaned
<1>5. up' \in Seq(Message)
  BY <1>1, <1>4
<1> QED BY <1>1, <1>2, <1>3, <1>5

LEMMA CutOffKeeps ==
  ASSUME IInv, NEW c \in Calls, NEW gone \in SUBSET {d \in Calls : Asks(d)}, gone \subseteq {c},
         jobs[c].kind # None, CutOff(c, gone), budget' \in 0..Budget
  PROVE  IInv'
<1>1. up' = Orphaned(gone) /\ UNCHANGED <<shared, leases, files, known, client>>
  BY DEF CutOff
<1>2. PICK received \in SUBSET (Answered \cap gone) :
        jobs' = [Rejected(gone, received) EXCEPT ![c].cut = TRUE]
  BY DEF CutOff
<1> DEFINE rejected == Rejected(gone, received)
<1>4. \A d \in Calls : Disturbs(d, rejected[d]) /\ (d \notin gone => rejected[d] = jobs[d])
  BY RejectedFacts DEF IInv
<1>5. /\ DOMAIN rejected = Calls
      /\ jobs' = [rejected EXCEPT ![c] = [rejected[c] EXCEPT !.cut = TRUE]]
  BY <1>2 DEF Rejected
<1> HIDE DEF rejected
<1>6. /\ jobs'[c] = [rejected[c] EXCEPT !.cut = TRUE]
      /\ \A d \in Calls \ {c} : jobs'[d] = jobs[d]
      /\ DOMAIN jobs' = Calls /\ jobs' = [d \in Calls |-> jobs'[d]]
  BY <1>4, <1>5
<1>7. Disturbs(c, jobs'[c]) /\ jobs'[c].answer = rejected[c].answer
  BY <1>4, <1>6, CutFacts
<1>8. Disturbed
  <2>1. \A d \in Calls : Disturbs(d, jobs'[d])
    BY <1>4, <1>6, <1>7
  <2>2. \A d \in Calls : jobs'[d] \in Job
    BY <2>1 DEF Disturbs
  <2> QED BY <1>6, <2>1, <2>2 DEF Disturbed
<1>9. /\ up' \in Seq(Message) /\ DOMAIN up' = DOMAIN up
      /\ \A i \in DOMAIN up : /\ up'[i].what = up[i].what
                              /\ up'[i].call = IF up[i].call \in gone THEN None ELSE up[i].call
  BY <1>1, OrphanedFacts DEF IInv
<1>10. TypeOK'
  BY <1>1, <1>8, <1>9 DEF IInv, TypeOK, Disturbed, shared, files, client
<1>11. Posted'
  <2>1. \A i \in DOMAIN up' : up'[i].call # None =>
          /\ up'[i].call = up[i].call /\ up[i].call \in Calls \ gone
    BY <1>9, CallsOfMessages DEF IInv
  <2>2. \A d \in Calls \ gone :
          jobs'[d].at = jobs[d].at /\ jobs'[d].answer = jobs[d].answer /\ jobs'[d].kind = jobs[d].kind
    <3>1. c \notin gone => /\ jobs'[c].at = jobs[c].at /\ jobs'[c].kind = jobs[c].kind
                           /\ jobs'[c].answer = jobs[c].answer
      BY <1>4, <1>7 DEF Disturbs
    <3> QED BY <1>6, <3>1
  <2>3. \A i \in DOMAIN up' : up'[i].call # None =>
          /\ jobs'[up'[i].call].at \in AtClient /\ jobs'[up'[i].call].answer = None
          /\ up'[i].what = "open" <=> jobs'[up'[i].call].kind = "open" /\ jobs'[up'[i].call].at = "ask"
    BY <1>9, <2>1, <2>2 DEF IInv, Posted, Awaits
  <2>4. \A i, j \in DOMAIN up' : up'[i].call = up'[j].call /\ up'[i].call # None => i = j
    BY <1>9, <2>1 DEF IInv, Posted
  <2> QED BY <2>3, <2>4 DEF Posted, Awaits
<1>12. Ended'
  BY <1>1, <1>8 DEF IInv, Ended, Disturbed, Disturbs, shared, files
<1> QED BY <1>1, <1>8, <1>10, <1>11, <1>12, DisturbedKeeps DEF files

\* What a cancellation takes from a call: nothing, or the request it awaits.
LEMMA CutIsCutOff ==
  ASSUME IInv, NEW c \in Calls, Cut(c) \/ CancellationAnswered(c)
  PROVE  \E gone \in SUBSET {d \in Calls : Asks(d)} :
           /\ gone \subseteq {c} /\ (transport = "remote" => gone = {})
           /\ jobs[c].kind # None /\ CutOff(c, gone) /\ budget' \in 0..Budget
<1>1. CASE Cut(c)
  <2> DEFINE gone == IF transport \in {"remote", "coalesced"} \/ jobs[c].at \notin {"ask", "page"}
                     THEN {} ELSE {c}
  <2>1. jobs[c].kind # None /\ CutOff(c, gone)
    BY <1>1 DEF Cut
  <2>2. budget' \in 0..Budget
    BY <1>1, LimitsAssumption DEF IInv, TypeOK, Cut, Fails
  <2>3. gone \in SUBSET {d \in Calls : Asks(d)} /\ gone \subseteq {c} /\ (transport = "remote" => gone = {})
    BY DEF Asks, AtClient
  <2> HIDE DEF gone
  <2> QED BY <2>1, <2>2, <2>3
<1>2. CASE CancellationAnswered(c)
  <2>1. CutOff(c, {c}) /\ transport = "coalesced" /\ jobs[c].at \in {"ask", "page"}
    BY <1>2 DEF CancellationAnswered
  <2>2. budget' \in 0..Budget
    BY <1>2 DEF IInv, TypeOK, CancellationAnswered
  <2>3. jobs[c].kind # None
    BY <2>1 DEF IInv, JobShape, ShapeOf, Idle
  <2>4. {c} \in SUBSET {d \in Calls : Asks(d)}
    BY <2>1 DEF Asks, AtClient
  <2> QED BY <2>1, <2>2, <2>3, <2>4
<1> QED BY <1>1, <1>2

LEMMA CutKeeps ==
  ASSUME IInv, NEW c \in Calls, Cut(c) \/ CancellationAnswered(c)
  PROVE  IInv'
BY CutIsCutOff, CutOffKeeps

LEMMA InterruptKeeps ==
  ASSUME IInv, Interrupt
  PROVE  IInv'
<1> DEFINE gone == {c \in Calls : Asks(c)}
<1>1. PICK received \in SUBSET Answered : jobs' = Rejected(gone, received)
  BY DEF Interrupt
<1>2. \A c \in Calls : Disturbs(c, jobs'[c])
  BY <1>1, RejectedFacts DEF IInv
<1>3. Disturbed
  <2>1. \A c \in Calls : jobs'[c] \in Job
    BY <1>2 DEF Disturbs
  <2>2. jobs' = [c \in Calls |-> jobs'[c]]
    BY <1>1 DEF Rejected
  <2> QED BY <1>2, <2>1, <2>2 DEF Disturbed
<1>4. up' = <<>> /\ UNCHANGED <<transport, shape, bound, disposed, leases, files, known, client>>
  BY DEF Interrupt
<1>5. TypeOK'
  <2>1. budget' \in 0..Budget /\ interrupted' = TRUE
    BY LimitsAssumption DEF IInv, TypeOK, Interrupt, Fails
  <2> QED BY <1>3, <1>4, <2>1 DEF IInv, TypeOK, Disturbed, files, client
<1>6. Posted'
  BY <1>4 DEF Posted
<1>7. Ended'
  BY <1>3, <1>4 DEF IInv, Ended, Disturbed, Disturbs, files
<1> QED BY <1>3, <1>4, <1>5, <1>6, <1>7, DisturbedKeeps DEF files

\* The end of the connection cuts every call that is not a removal.
LEMMA EndsFacts ==
  ASSUME IInv, Ends
  PROVE  /\ Disturbed
         /\ \A c \in Calls : jobs'[c].kind \in {None, "remove"} \/ jobs'[c].cut
<1> DEFINE gone == {c \in Calls : Asks(c)}
<1>1. PICK received \in SUBSET Answered :
        jobs' = [c \in Calls |-> IF jobs[c].kind \in {None, "remove"} THEN jobs[c]
                                 ELSE [Rejected(gone, received)[c] EXCEPT !.cut = TRUE]]
  BY DEF Ends
<1>2. \A c \in Calls : Disturbs(c, Rejected(gone, received)[c])
  BY RejectedFacts DEF IInv
<1>3. ASSUME NEW c \in Calls
      PROVE  Disturbs(c, jobs'[c]) /\ (jobs'[c].kind \in {None, "remove"} \/ jobs'[c].cut)
  <2>1. CASE jobs[c].kind \in {None, "remove"}
    <3>1. jobs'[c] = jobs[c] /\ jobs[c] \in Job
      BY <1>1, <2>1 DEF IInv, TypeOK
    <3> QED BY <2>1, <3>1 DEF Disturbs
  <2>2. CASE jobs[c].kind \notin {None, "remove"}
    BY <1>1, <1>2, <2>2, CutFacts
  <2> QED BY <2>1, <2>2
<1>4. jobs' \in [Calls -> Job]
  <2>1. \A c \in Calls : jobs'[c] \in Job
    BY <1>3 DEF Disturbs
  <2>2. DOMAIN jobs' = Calls /\ jobs' = [c \in Calls |-> jobs'[c]]
    BY <1>1
  <2> QED BY <2>1, <2>2
<1> QED BY <1>3, <1>4 DEF Disturbed

LEMMA EndsKeeps ==
  ASSUME IInv, Unbind \/ Dispose
  PROVE  IInv'
<1>1. Ends /\ \/ UNCHANGED <<disposed, mats, disk>>
              \/ disposed' = TRUE /\ mats' = {} /\ disk' = disk \ mats
  BY DEF Unbind, Dispose
<1>2. /\ bound' = FALSE /\ leases' = {} /\ up' = <<>> /\ holder' = [l \in Leases |-> None]
      /\ UNCHANGED <<transport, shape, interrupted, materialized, known, drawn, requested>>
  BY <1>1 DEF Ends
<1>3. Disturbed /\ \A c \in Calls : jobs'[c].kind \in {None, "remove"} \/ jobs'[c].cut
  BY <1>1, EndsFacts
<1>4. TypeOK'
  <2>1. budget' \in 0..Budget
    BY <1>1, LimitsAssumption DEF IInv, TypeOK, Ends, Fails
  <2>2. TypeOK /\ jobs' \in [Calls -> Job]
    BY <1>3 DEF IInv, Disturbed
  <2>3. up' \in Seq(Message) /\ holder' \in [Leases -> Turns \cup {None}]
    BY <1>2
  <2>4. /\ {bound', disposed', requested', interrupted'} \subseteq BOOLEAN
        /\ mats' \cup disk' \subseteq Calls \X Leases
        /\ leases' \cup materialized' \cup drawn' \subseteq Leases
    BY <1>1, <1>2, <2>2 DEF TypeOK
  <2> QED BY <1>2, <2>1, <2>2, <2>3, <2>4 DEF TypeOK
<1>5. Posted'
  BY <1>2 DEF Posted
<1>6. Ended'
  BY <1>1, <1>2, <1>3 DEF IInv, Ended
<1> QED BY <1>1, <1>2, <1>3, <1>4, <1>5, <1>6, DisturbedKeeps

-----------------------------------------------------------------------------
LEMMA InitHolds ==
  ASSUME Init
  PROVE  IInv
<1>1. \A c \in Calls : jobs[c] = Idle
  BY DEF Init
<1>2. TypeOK
  <2>1. jobs \in [Calls -> Job]
    BY IdleIsJob DEF Init
  <2>2. budget \in 0..Budget
    BY LimitsAssumption DEF Init
  <2>3. up \in Seq(Message) /\ holder \in [Leases -> Turns \cup {None}]
    BY DEF Init
  <2>4. /\ transport \in Transports /\ shape \in Shapes
        /\ {bound, disposed, requested, interrupted} \subseteq BOOLEAN
        /\ leases \cup materialized \cup drawn = {} /\ mats \cup disk = {} /\ known = {}
    BY DEF Init
  <2> QED BY <2>1, <2>2, <2>3, <2>4 DEF TypeOK
<1>3. JobShape
  <2>1. \A c \in Calls : ShapeOf(Idle, c)
    BY DEF ShapeOf, Idle, None
  <2> QED BY <1>1, <2>1 DEF JobShape
<1>4. Posted /\ Ended
  BY DEF Init, Posted, Ended
<1>5. Directories
  BY <1>1 DEF Init, Directories, Filling, Working, Idle, None
<1>6. Limits
  <2>1. Reserved("open") = {} /\ Reserved("materialize") = {}
    BY <1>1 DEF Reserved, Idle, None
  <2>2. Cardinality({}) = 0
    BY FS_EmptySet
  <2>3. leases = {} /\ mats = {}
    BY DEF Init
  <2> QED BY <2>1, <2>2, <2>3, LimitsAssumption DEF Limits
<1> QED BY <1>2, <1>3, <1>4, <1>5, <1>6 DEF IInv

LEMMA StepKeeps ==
  ASSUME IInv, [Next]_vars
  PROVE  IInv'
<1>1. ASSUME NEW c \in Calls, Continue(c)
      PROVE  IInv'
  BY <1>1, OpenedKeeps, ManifestReadKeeps, GivenUpKeeps, ReturnKeeps, ReadDoneKeeps, StagedKeeps,
     FilledKeeps, RenamedKeeps, DiscardedKeeps, RemovedKeeps, ReleasedKeeps DEF Continue
<1>2. ASSUME NEW c \in Calls, NEW l \in Leases, Read(c, l) \/ Materialize(c, l) \/ Release(c, l)
      PROVE  IInv'
  BY <1>2, ReadKeeps, MaterializeKeeps, ReleaseKeeps
<1>3. CASE PublicationReleased
  <2>1. UNCHANGED <<shared, jobs, leases, files, known, up, holder, drawn, budget>> /\ requested' = TRUE
    BY <1>3 DEF PublicationReleased
  <2>2. TypeOK'
    BY <2>1 DEF IInv, TypeOK, shared, files
  <2> QED BY <2>1, <2>2 DEF IInv, JobShape, Posted, Awaits, Directories, Filling, Working, Ended, Limits,
                            Reserved, shared, files
<1>4. CASE UNCHANGED vars
  BY <1>4 DEF IInv, TypeOK, JobShape, Posted, Awaits, Directories, Filling, Working, Ended, Limits, Reserved,
              vars, shared, files, client
<1> QED BY <1>1, <1>2, <1>3, <1>4, CutKeeps, OpenKeeps, ReleaseMaterializationKeeps, ClientHandlesKeeps,
           InterruptKeeps, EndsKeeps DEF Next

\* The variables have their types in every behaviour of the content service.
THEOREM TypeCorrect == Spec => []TypeOK
<1>1. Init => IInv
  BY InitHolds
<1>2. IInv /\ [Next]_vars => IInv'
  BY StepKeeps
<1>3. IInv => TypeOK
  BY DEF IInv
<1> QED BY <1>1, <1>2, <1>3, PTL DEF Spec

\* Whatever is cancelled, lost or disposed, every directory under the Host's
\* root is recorded or belongs to the call that will record or remove it.
THEOREM NoDirectoryIsLost == Spec => []DirectoriesAreAccounted
<1>1. Init => IInv
  BY InitHolds
<1>2. IInv /\ [Next]_vars => IInv'
  BY StepKeeps
<1>3. IInv => DirectoriesAreAccounted
  <2> SUFFICES ASSUME IInv
               PROVE  DirectoriesAreAccounted
    OBVIOUS
  <2>1. \A dir \in disk : dir[1] \in Calls
    BY DEF IInv, TypeOK
  <2> QED BY <2>1 DEF IInv, Directories, Ended, Filling, DirectoriesAreAccounted
<1> QED BY <1>1, <1>2, <1>3, PTL DEF Spec

\* No order of calls, answers and cancellations takes the service past its
\* limits on open leases and on materializations.
THEOREM LimitsAreKept == Spec => []CapacityHolds
<1>1. Init => IInv
  BY InitHolds
<1>2. IInv /\ [Next]_vars => IInv'
  BY StepKeeps
<1>3. IInv => CapacityHolds
  <2> SUFFICES ASSUME IInv
               PROVE  CapacityHolds
    OBVIOUS
  <2>1. IsFiniteSet(leases) /\ IsFiniteSet(mats) /\ \A kind : IsFiniteSet(Reserved(kind))
    <3>1. IsFiniteSet(Calls \X Leases)
      BY FiniteAssumption, FS_Product
    <3> QED BY <3>1, FiniteAssumption, FS_Subset DEF IInv, TypeOK, Reserved
  <2>2. /\ {Cardinality(leases), Cardinality(mats)} \subseteq Nat
        /\ {Cardinality(Reserved("open")), Cardinality(Reserved("materialize"))} \subseteq Nat
    BY <2>1, FS_CardinalityType
  <2> HIDE DEF Reserved
  <2> QED BY <2>2, LimitsAssumption DEF IInv, Limits, CapacityHolds
<1> QED BY <1>1, <1>2, <1>3, PTL DEF Spec

-----------------------------------------------------------------------------
(* Leases: what is open at the client and at the Host, and who handles it.   *)

\* What a call that awaits the client asks of it.
WhatOf(job) ==
  IF job.kind = "open" /\ job.at = "ask" THEN "open"
  ELSE IF job.kind = "release" \/ job.at = "giveUp" THEN "release" ELSE "read"
Requests ==
  /\ \A c \in Calls : Awaits(c) => \E i \in DOMAIN up : up[i].call = c
  /\ \A i \in DOMAIN up : up[i].call # None =>
       up[i].lease = jobs[up[i].call].lease /\ up[i].what = WhatOf(jobs[up[i].call])
  /\ \A i \in DOMAIN up : up[i].what = "open" => up[i].turn # None

\* A lease is drawn once, and until its opening has returned no other call has it.
Knows(c) ==
  /\ jobs[c].lease # None => jobs[c].lease \in drawn
  /\ jobs[c].kind \in {"read", "materialize", "release"} => jobs[c].lease \in known
  /\ jobs[c].kind = "open" /\ jobs[c].at = "ask" /\ jobs[c].answer # "ok" => jobs[c].lease = None
Fresh(c) ==
  jobs[c].kind = "open" /\ jobs[c].lease # None =>
    /\ jobs[c].lease \notin known
    /\ jobs[c].at # "return" => jobs[c].lease \notin leases
    /\ \A d \in Calls \ {c} : jobs[d].lease # jobs[c].lease
Identities ==
  /\ leases \subseteq drawn /\ known \cap Leases \subseteq drawn
  /\ \A l \in Leases : holder[l] # None => l \in drawn
  /\ \A c \in Calls : Knows(c) /\ Fresh(c)

\* A materialization that will be recorded has met its lease at the client, and
\* a release that began before it had not: requests are handled in their order.
Releases(r, l) == jobs[r].kind = "release" /\ jobs[r].lease = l /\ jobs[r].answer # "error"
Kept(l) == l \in leases /\ \A r \in Calls : ~Releases(r, l)
Met(c) == jobs[c].at = "rename" \/ (jobs[c].at = "ask" /\ jobs[c].answer = "ok")
Fills(c) == jobs[c].kind = "materialize" /\ ~jobs[c].cut
After(c) ==
  \A i, j \in DOMAIN up :
    up[i].call = c /\ up[j].call # None /\ up[j].what = "release" /\ up[j].lease = jobs[c].lease => j < i
Sound(c) ==
  /\ Met(c) => Kept(jobs[c].lease)
  /\ jobs[c].lease \in leases \/ holder[jobs[c].lease] = None
  /\ After(c)
Scoped ==
  bound /\ ~Empty =>
    /\ \A d \in mats : Kept(d[2])
    /\ \A c \in Calls : Fills(c) => Sound(c)
Obeyed == \A r \in Calls : jobs[r].kind = "release" /\ jobs[r].answer = "ok" => holder[jobs[r].lease] = None

\* Undisturbed, an opening has its lease at the client until the Host has it,
\* and the answer to a release says that the client has it no more.
Holds(job) == job.kind = "open" /\ (job.at \in {"page", "return"} \/ (job.at = "ask" /\ job.answer = "ok"))
Lets(job) == (job.kind = "release" \/ job.at = "giveUp") /\ job.answer # None
Frees(r, l) == jobs[r].kind = "release" /\ jobs[r].lease = l /\ jobs[r].answer = "ok"
Handles(c, l) == jobs[c].lease = l /\ jobs[c].kind \in {"open", "release"}
Agreement ==
  Undisturbed =>
    /\ \A i \in DOMAIN up : up[i].call # None
    /\ \A c \in Calls : Lets(jobs[c]) => holder[jobs[c].lease] = None
    /\ \A c \in Calls : Holds(jobs[c]) => holder[jobs[c].lease] # None
    /\ \A c \in Calls : jobs[c].kind = "open" /\ jobs[c].at = "return" => jobs[c].lease \in leases
    /\ \A l \in leases : holder[l] = None => \E r \in Calls : Frees(r, l)
    /\ \A l \in OpenThere \ leases : \E c \in Calls : Handles(c, l)

Leased == Requests /\ Identities /\ Scoped /\ Obeyed /\ Agreement

-----------------------------------------------------------------------------
LEMMA RequestsQuiet ==
  ASSUME TypeOK, Posted, Requests, NEW c \in Calls, Others(c), ~Awaits(c), ~Awaits(c)', UNCHANGED up
  PROVE  Requests'
<1>1. \A i \in DOMAIN up : up[i].call # None => up[i].call \in Calls \ {c}
  BY NoRequest, CallsOfMessages
<1>2. \A d \in Calls \ {c} : (Awaits(d)' <=> Awaits(d)) /\ jobs'[d] = jobs[d]
  BY DEF Others, Awaits
<1> HIDE DEF Awaits
<1> QED BY <1>1, <1>2 DEF Requests, WhatOf

LEMMA RequestsSent ==
  ASSUME TypeOK, Posted, Requests, NEW c \in Calls, Others(c), ~Awaits(c),
         NEW what \in {"open", "read", "release"}, Send(what, c), what = WhatOf(jobs'[c]),
         what = "open" => jobs'[c].turn # None
  PROVE  Requests'
<1> DEFINE m == Request(what, c)
<1>1. m.call = c /\ m.what = what /\ m.lease = jobs'[c].lease /\ m.turn = jobs'[c].turn
  BY DEF Request
<1> HIDE DEF m
<1>2. up' = Append(up, m)
  BY DEF Send, m
<1>3. \A i \in DOMAIN up : up[i].call # c /\ up[i].call \in Calls \cup {None}
  BY NoRequest, CallsOfMessages
<1>4. /\ DOMAIN up' = DOMAIN up \cup {Len(up) + 1}
      /\ \A i \in DOMAIN up : up'[i] = up[i]
      /\ up'[Len(up) + 1] = m
  BY <1>2 DEF TypeOK
<1>5. \A d \in Calls \ {c} : (Awaits(d)' <=> Awaits(d)) /\ jobs'[d] = jobs[d]
  BY DEF Others, Awaits
<1>6. ASSUME NEW d \in Calls, Awaits(d)'
      PROVE  \E i \in DOMAIN up' : up'[i].call = d
  <2>1. CASE d = c
    BY <1>1, <1>4, <2>1
  <2>2. CASE d # c
    BY <1>4, <1>5, <1>6, <2>2 DEF Requests
  <2> QED BY <2>1, <2>2
<1>7. ASSUME NEW i \in DOMAIN up', up'[i].call # None
      PROVE  up'[i].lease = jobs'[up'[i].call].lease /\ up'[i].what = WhatOf(jobs'[up'[i].call])
  <2>1. CASE i \in DOMAIN up
    <3>1. up'[i] = up[i] /\ up[i].call \in Calls \ {c}
      BY <1>3, <1>4, <1>7, <2>1
    <3> QED BY <1>5, <1>7, <2>1, <3>1 DEF Requests
  <2>2. CASE i = Len(up) + 1
    BY <1>1, <1>4, <2>2
  <2> QED BY <1>4, <2>1, <2>2
<1>8. \A i \in DOMAIN up' : up'[i].what = "open" => up'[i].turn # None
  BY <1>1, <1>4 DEF Requests
<1> QED BY <1>6, <1>7, <1>8 DEF Requests

LEMMA IdentitiesEnd ==
  ASSUME TypeOK, Identities, NEW c \in Calls, Others(c), jobs'[c] = Idle, leases' \subseteq leases, UNCHANGED client,
         \/ known' = known
         \/ jobs[c].kind = "open" /\ jobs[c].lease # None /\ known' = known \cup {jobs[c].lease}
         \/ \E x : x \notin Leases /\ known' = known \cup {x}
  PROVE  Identities'
<1>1. holder' = holder /\ drawn' = drawn
  BY DEF client
<1>2. \A d \in Calls \ {c} : jobs'[d] = jobs[d]
  BY DEF Others
<1>3. known \subseteq known' /\ known' \cap Leases \subseteq drawn
  BY DEF Identities, Knows
<1>4. Knows(c)' /\ Fresh(c)'
  BY <1>2 DEF Knows, Fresh, Idle, None
<1>5. ASSUME NEW d \in Calls \ {c}
      PROVE  Knows(d)' /\ Fresh(d)'
  <2>1. Knows(d) /\ Fresh(d) /\ jobs'[d] = jobs[d]
    BY <1>2, <1>5 DEF Identities
  <2>2. Knows(d)'
    BY <1>1, <1>3, <2>1 DEF Knows
  <2>3. jobs[d].kind = "open" /\ jobs[d].lease # None => jobs[d].lease \notin known'
    <3>1. jobs[d].lease \in Leases \cup {None}
      BY DEF TypeOK, Job
    <3> QED BY <1>5, <2>1, <3>1 DEF Fresh
  <2>4. jobs[d].lease # None => \A e \in Calls \ {d} : jobs'[e].lease = jobs[e].lease \/ jobs'[e].lease = None
    BY <1>2 DEF Idle
  <2> QED BY <2>1, <2>2, <2>3, <2>4 DEF Fresh
<1> QED BY <1>1, <1>3, <1>4, <1>5 DEF Identities

LEMMA IdentitiesMove ==
  ASSUME Identities, NEW c \in Calls, Others(c), UNCHANGED <<client, known>>,
         jobs'[c].lease = jobs[c].lease, jobs'[c].kind = jobs[c].kind,
         jobs[c].kind = "open" => jobs[c].at # "return" /\ jobs'[c].at # "ask" /\ jobs[c].lease \in Leases,
         \/ leases' \subseteq leases /\ (jobs'[c].at # "return" \/ jobs[c].kind # "open")
         \/ leases' = leases \cup {jobs[c].lease} /\ jobs'[c].at = "return" /\ jobs[c].kind = "open"
  PROVE  Identities'
<1>1. holder' = holder /\ drawn' = drawn /\ known' = known
  BY DEF client
<1>2. \A d \in Calls \ {c} : jobs'[d] = jobs[d]
  BY DEF Others
<1>3. \A d \in Calls : jobs'[d].lease = jobs[d].lease /\ jobs'[d].kind = jobs[d].kind
  BY <1>2
<1>4. \A d \in Calls : Knows(d) /\ Fresh(d)
  BY DEF Identities
<1>5. \A d \in Calls : Knows(d)'
  BY <1>1, <1>2, <1>3, <1>4 DEF Knows
<1>6. leases' \subseteq drawn
  BY <1>4, NoneAssumption DEF Identities, Knows
<1>7. ASSUME NEW d \in Calls
      PROVE  Fresh(d)'
  <2> SUFFICES ASSUME jobs'[d].kind = "open", jobs'[d].lease # None
               PROVE  /\ jobs'[d].lease \notin known'
                      /\ jobs'[d].at # "return" => jobs'[d].lease \notin leases'
                      /\ \A e \in Calls \ {d} : jobs'[e].lease # jobs'[d].lease
    BY DEF Fresh
  <2>1. jobs[d].kind = "open" /\ jobs[d].lease # None /\ Fresh(d)
    BY <1>3, <1>4
  <2>2. CASE d = c
    BY <1>1, <1>3, <2>1, <2>2 DEF Fresh
  <2>3. CASE d # c
    BY <1>1, <1>2, <1>3, <2>1, <2>3 DEF Fresh
  <2> QED BY <2>2, <2>3
<1> QED BY <1>1, <1>5, <1>6, <1>7 DEF Identities

LEMMA IdentitiesBegin ==
  ASSUME Identities, NEW c \in Calls, Others(c), UNCHANGED <<client, known, leases>>,
         \/ jobs'[c].kind = "open" /\ jobs'[c].lease = None
         \/ jobs'[c].kind = "remove" /\ jobs'[c].lease = None
         \/ jobs'[c].kind \in {"read", "materialize", "release"} /\ jobs'[c].lease \in known \cap Leases
  PROVE  Identities'
<1>1. holder' = holder /\ drawn' = drawn /\ known' = known
  BY DEF client
<1>2. \A d \in Calls \ {c} : jobs'[d] = jobs[d]
  BY DEF Others
<1>3. Knows(c)' /\ Fresh(c)'
  BY <1>1 DEF Identities, Knows, Fresh
<1>4. ASSUME NEW d \in Calls \ {c}
      PROVE  Knows(d)' /\ Fresh(d)'
  <2>1. Knows(d) /\ Fresh(d) /\ jobs'[d] = jobs[d]
    BY <1>2, <1>4 DEF Identities
  <2>2. Knows(d)'
    BY <1>1, <2>1 DEF Knows
  <2>3. jobs[d].kind = "open" /\ jobs[d].lease # None => jobs'[c].lease # jobs[d].lease
    BY <2>1 DEF Fresh
  <2> QED BY <1>1, <1>2, <2>1, <2>2, <2>3 DEF Fresh
<1> QED BY <1>1, <1>3, <1>4 DEF Identities

LEMMA ScopedKept ==
  ASSUME TypeOK, Posted, JobShape, Scoped, NEW c \in Calls, Others(c), UNCHANGED <<bound, shape, holder>>,
         \A l \in leases \ leases' : holder[l] = None /\ \E r \in Calls : Releases(r, l),
         \A l \in Leases : Releases(c, l)' =>
           \/ Releases(c, l)
           \/ (\A d \in mats : d[2] # l) /\ \A d \in Calls : Fills(d) => jobs[d].lease # l,
         ~Empty => \A d \in mats' \ mats : Kept(d[2])',
         \/ UNCHANGED up
         \/ \E what \in {"open", "read", "release"} :
              /\ Send(what, c)
              /\ what = "release" => \A d \in Calls : Fills(d) => jobs[d].lease # jobs'[c].lease,
         \/ ~Fills(c)'
         \/ /\ Fills(c) /\ jobs'[c].lease = jobs[c].lease
            /\ ~Empty /\ Met(c)' => Met(c)
         \/ /\ jobs[c] = Idle /\ ~Met(c)' /\ UNCHANGED up
            /\ jobs'[c].lease \in leases
  PROVE  Scoped'
<1> SUFFICES ASSUME bound', ~Empty, ~Empty'
             PROVE  (\A d \in mats' : Kept(d[2])') /\ \A d \in Calls : Fills(d)' => Sound(d)'
  BY DEF Scoped, Empty
<1>1. (\A d \in mats : Kept(d[2])) /\ \A d \in Calls : Fills(d) => Sound(d)
  BY DEF Scoped
<1>2. \A d \in Calls \ {c} : jobs'[d] = jobs[d]
  BY DEF Others
<1>3. \A d \in mats : d[2] \in Leases
  BY DEF TypeOK
<1>4. \A d \in Calls : Fills(d) => jobs[d].lease \in Leases
  BY DEF JobShape, ShapeOf, Fills
<1>5. ASSUME NEW l \in Leases, Kept(l),
             (\E d \in mats : d[2] = l) \/ \E d \in Calls : Fills(d) /\ jobs[d].lease = l
      PROVE  Kept(l)'
  <2>1. l \in leases'
    BY <1>5 DEF Kept
  <2>2. ~Releases(c, l)'
    BY <1>5 DEF Kept
  <2>3. \A r \in Calls \ {c} : ~Releases(r, l)'
    BY <1>2, <1>5 DEF Kept, Releases
  <2> QED BY <2>1, <2>2, <2>3 DEF Kept
<1>6. \A d \in mats' : Kept(d[2])'
  BY <1>1, <1>3, <1>5
<1>7. ASSUME NEW d \in Calls, Fills(d), jobs'[d].lease = jobs[d].lease, Met(d)' => Met(d)
      PROVE  /\ Met(d)' => Kept(jobs[d].lease)'
             /\ jobs'[d].lease \in leases' \/ holder'[jobs'[d].lease] = None
  <2>1. Sound(d) /\ jobs[d].lease \in Leases
    BY <1>1, <1>4, <1>7
  <2>2. Met(d)' => Kept(jobs[d].lease)'
    <3>1. Met(d)' => Kept(jobs[d].lease)
      BY <1>7, <2>1 DEF Sound
    <3>2. Kept(jobs[d].lease) => Kept(jobs[d].lease)'
      BY <1>5, <1>7, <2>1
    <3> QED BY <3>1, <3>2
  <2>3. jobs[d].lease \in leases' \/ holder[jobs[d].lease] = None
    BY <2>1 DEF Sound
  <2> QED BY <1>7, <2>2, <2>3
<1>8. ASSUME NEW d \in Calls, Fills(d), jobs'[d].lease = jobs[d].lease,
             NEW i \in DOMAIN up', NEW j \in DOMAIN up',
             up'[i].call = d, up'[j].call # None, up'[j].what = "release", up'[j].lease = jobs'[d].lease
      PROVE  j < i
  <2>1. CASE UNCHANGED up
    BY <1>1, <1>8, <2>1 DEF Sound, After
  <2>2. CASE ~UNCHANGED up
    <3>1. PICK what \in {"open", "read", "release"} :
            /\ Send(what, c)
            /\ what = "release" => \A e \in Calls : Fills(e) => jobs[e].lease # jobs'[c].lease
      BY <2>2
    <3> DEFINE m == Request(what, c)
    <3>2. m.call = c /\ m.what = what /\ m.lease = jobs'[c].lease
      BY DEF Request
    <3> HIDE DEF m
    <3>3. up' = Append(up, m)
      BY <3>1 DEF Send, m
    <3>4. /\ DOMAIN up' = DOMAIN up \cup {Len(up) + 1}
          /\ \A k \in DOMAIN up : up'[k] = up[k] /\ k \in Nat /\ k < Len(up) + 1
          /\ up'[Len(up) + 1] = m
      BY <3>3 DEF TypeOK
    <3>5. j \in DOMAIN up
      BY <1>8, <3>1, <3>2, <3>4
    <3>6. CASE i \in DOMAIN up
      BY <1>1, <1>8, <3>4, <3>5, <3>6 DEF Sound, After
    <3>7. CASE i = Len(up) + 1
      BY <3>4, <3>5, <3>7
    <3> QED BY <3>4, <3>6, <3>7
  <2> QED BY <2>1, <2>2
<1>9. ASSUME NEW d \in Calls, Fills(d)'
      PROVE  Sound(d)'
  <2>1. CASE Fills(d) /\ jobs'[d].lease = jobs[d].lease /\ (Met(d)' => Met(d))
    <3>1. After(d)'
      BY <1>8, <2>1 DEF After
    <3>2. Met(d)' => Kept(jobs[d].lease)'
      BY <1>7, <2>1
    <3>3. jobs'[d].lease \in leases' \/ holder'[jobs'[d].lease] = None
      BY <1>7, <2>1
    <3> HIDE DEF Met
    <3> QED BY <2>1, <3>1, <3>2, <3>3 DEF Sound, Kept, Releases
  <2>2. CASE d = c /\ jobs[c] = Idle /\ ~Met(c)' /\ UNCHANGED up /\ jobs'[c].lease \in leases
    <3>1. ~Awaits(c)
      BY <2>2 DEF Awaits, Idle, AtClient
    <3>2. \A i \in DOMAIN up : up[i].call # c
      BY <3>1, NoRequest
    <3>3. jobs'[c].lease \in leases' \/ holder'[jobs'[c].lease] = None
      BY <2>2
    <3> QED BY <2>2, <3>2, <3>3 DEF Sound, After
  <2> QED BY <1>2, <1>9, <2>1, <2>2 DEF Fills, Met
<1> QED BY <1>6, <1>9

LEMMA ObeyedKept ==
  ASSUME Obeyed, NEW c \in Calls, Others(c), holder' = holder,
         jobs'[c].kind # "release" \/ jobs'[c].answer # "ok"
  PROVE  Obeyed'
BY DEF Obeyed, Others

\* Only a release that was answered takes a lease from the Host, and what else
\* happens to a call leaves it the lease it handles.
LEMMA AgreementKept ==
  ASSUME TypeOK, Identities, Agreement, NEW c \in Calls, Others(c), UNCHANGED shared, holder' = holder,
         leases' \subseteq Leases,
         UNCHANGED up \/ \E what : Send(what, c),
         Lets(jobs'[c]) => Lets(jobs[c]) /\ jobs'[c].lease = jobs[c].lease,
         Holds(jobs'[c]) => Holds(jobs[c]) /\ jobs'[c].lease = jobs[c].lease,
         jobs'[c].kind = "open" /\ jobs'[c].at = "return" => jobs'[c].lease \in leases',
         \A l \in leases \ leases' : Frees(c, l) /\ holder[l] = None,
         \A l \in leases' \ leases : Undisturbed => holder[l] # None,
         \A l \in leases' : Frees(c, l) => Frees(c, l)',
         \A l \in Leases : Undisturbed /\ Handles(c, l) => (Handles(c, l)' \/ l \in leases' \/ holder[l] = None)
  PROVE  Agreement'
<1> SUFFICES ASSUME Undisturbed
             PROVE  /\ \A i \in DOMAIN up' : up'[i].call # None
                    /\ \A d \in Calls : Lets(jobs'[d]) => holder[jobs'[d].lease] = None
                    /\ \A d \in Calls : Holds(jobs'[d]) => holder[jobs'[d].lease] # None
                    /\ \A d \in Calls : jobs'[d].kind = "open" /\ jobs'[d].at = "return" => jobs'[d].lease \in leases'
                    /\ \A l \in leases' : holder[l] = None => \E r \in Calls : Frees(r, l)'
                    /\ \A l \in OpenThere \ leases' : \E d \in Calls : Handles(d, l)'
  BY DEF Agreement, Undisturbed, shared, OpenThere
<1>1. \A d \in Calls \ {c} : jobs'[d] = jobs[d]
  BY DEF Others
<1>2. \A i \in DOMAIN up' : up'[i].call # None
  <2>1. CASE UNCHANGED up
    BY <2>1 DEF Agreement
  <2>2. CASE ~UNCHANGED up
    <3>1. PICK what : Send(what, c)
      BY <2>2
    <3> DEFINE m == Request(what, c)
    <3>2. m.call = c
      BY DEF Request
    <3> HIDE DEF m
    <3>3. up' = Append(up, m)
      BY <3>1 DEF Send, m
    <3>4. \A i \in DOMAIN up' : up'[i] = m \/ (i \in DOMAIN up /\ up'[i] = up[i])
      BY <3>3 DEF TypeOK
    <3> QED BY <3>2, <3>4, NoneAssumption DEF Agreement
  <2> QED BY <2>1, <2>2
<1>3. \A d \in Calls : Lets(jobs'[d]) => holder[jobs'[d].lease] = None
  BY <1>1 DEF Agreement
<1>4. \A d \in Calls : Holds(jobs'[d]) => holder[jobs'[d].lease] # None
  BY <1>1 DEF Agreement
<1>5. ASSUME NEW d \in Calls, jobs'[d].kind = "open", jobs'[d].at = "return"
      PROVE  jobs'[d].lease \in leases'
  <2>1. CASE d # c
    <3>1. jobs'[d] = jobs[d] /\ jobs[d].lease \in leases
      BY <1>1, <1>5, <2>1 DEF Agreement
    <3>2. jobs[d].lease # None
      BY <3>1, NoneAssumption DEF TypeOK
    <3>3. jobs[c].lease # jobs[d].lease
      BY <1>5, <2>1, <3>1, <3>2 DEF Identities, Fresh
    <3> QED BY <3>1, <3>3 DEF Frees
  <2> QED BY <1>5, <2>1
<1>6. ASSUME NEW l \in leases', holder[l] = None
      PROVE  \E r \in Calls : Frees(r, l)'
  <2>1. PICK r \in Calls : Frees(r, l)
    BY <1>6 DEF Agreement
  <2>2. Frees(r, l)'
    BY <1>1, <2>1 DEF Frees
  <2> QED BY <2>2
<1>7. ASSUME NEW l \in OpenThere \ leases'
      PROVE  \E d \in Calls : Handles(d, l)'
  <2>1. l \in OpenThere \ leases /\ l \in Leases /\ holder[l] # None
    BY <1>7 DEF OpenThere
  <2>2. PICK d \in Calls : Handles(d, l)
    BY <2>1 DEF Agreement
  <2>3. Handles(d, l)'
    BY <1>1, <1>7, <2>1, <2>2 DEF Handles
  <2> QED BY <2>3
<1> QED BY <1>2, <1>3, <1>4, <1>5, <1>6, <1>7

-----------------------------------------------------------------------------
LEMMA CallTypes ==
  ASSUME IInv, NEW c \in Calls
  PROVE  jobs[c] \in Job /\ ShapeOf(jobs[c], c)
BY DEF IInv, TypeOK, JobShape

LEMMA LeasedEnd ==
  ASSUME IInv, Leased, NEW c \in Calls, End(c), ~Awaits(c), jobs[c].kind # "release",
         jobs[c].kind = "open" =>
           (jobs[c].at = "ask" /\ jobs[c].answer = "error") \/ jobs[c].at = "return" \/ Lets(jobs[c]),
         UNCHANGED <<shared, leases, up, client>>, mats' \subseteq mats,
         \/ known' = known
         \/ jobs[c].kind = "open" /\ jobs[c].lease \in Leases /\ known' = known \cup {jobs[c].lease}
         \/ \E x \in Calls \X Leases : known' = known \cup {x}
  PROVE  Leased'
<1>1. TypeOK /\ Posted /\ JobShape /\ Requests /\ Identities /\ Scoped /\ Obeyed /\ Agreement
  BY DEF IInv, Leased
<1>2. Others(c) /\ jobs'[c] = Idle /\ ~Awaits(c)' /\ ~Fills(c)'
  <2>1. Others(c) /\ jobs'[c] = Idle
    BY <1>1, EndFacts
  <2> QED BY <2>1 DEF Awaits, Fills, Idle, AtClient, None
<1>3. Requests'
  BY <1>1, <1>2, RequestsQuiet
<1>4. Identities'
  <2>1. CASE jobs[c].kind = "open" /\ jobs[c].lease \in Leases /\ known' = known \cup {jobs[c].lease}
    BY <1>1, <1>2, <2>1, NoneAssumption, IdentitiesEnd
  <2>2. ASSUME NEW x \in Calls \X Leases, known' = known \cup {x}
        PROVE  Identities'
    <3>1. x \notin Leases
      BY IdentitiesAssumption
    <3> QED BY <1>1, <1>2, <2>2, <3>1, IdentitiesEnd
  <2> QED BY <1>1, <1>2, <2>1, <2>2, IdentitiesEnd
<1>5. Scoped'
  <2>1. \A l \in Leases : ~Releases(c, l)'
    BY <1>2 DEF Releases, Idle, None
  <2> QED BY <1>1, <1>2, <2>1, ScopedKept DEF shared, client
<1>6. Obeyed'
  BY <1>1, <1>2, ObeyedKept DEF client, Idle, None
<1>7. Agreement'
  <2>1. ~Lets(jobs'[c]) /\ ~Holds(jobs'[c]) /\ jobs'[c].kind # "open"
    BY <1>2 DEF Lets, Holds, Idle, None
  <2>2. \A l : ~Frees(c, l)
    BY DEF Frees
  <2>3. ASSUME NEW l \in Leases, Undisturbed, Handles(c, l)
        PROVE  l \in leases' \/ holder[l] = None
    <3>1. jobs[c].lease = l /\ jobs[c].kind = "open" /\ l # None
      BY <2>3, NoneAssumption DEF Handles
    <3>2. CASE jobs[c].at = "ask" /\ jobs[c].answer = "error"
      BY <1>1, <3>1, <3>2 DEF Identities, Knows
    <3>3. CASE jobs[c].at = "return"
      BY <1>1, <2>3, <3>1, <3>3 DEF Agreement
    <3>4. CASE Lets(jobs[c])
      BY <1>1, <2>3, <3>1, <3>4 DEF Agreement
    <3> QED BY <3>1, <3>2, <3>3, <3>4
  <2>4. leases' = leases /\ leases \subseteq Leases
    BY <1>1 DEF TypeOK
  <2> QED BY <1>1, <1>2, <2>1, <2>2, <2>3, <2>4, AgreementKept DEF client
<1> QED BY <1>3, <1>4, <1>5, <1>6, <1>7 DEF Leased

\* A step of a materialization.
LEMMA LeasedFill ==
  ASSUME IInv, Leased, NEW c \in Calls, NEW at \in {"ask", "rename", "discard", "return"}, Moves(c, at),
         jobs[c].kind = "materialize", ~Awaits(c), jobs'[c].answer = jobs[c].answer, UNCHANGED <<shared, leases, known, client>>,
         \/ UNCHANGED up /\ ~Awaits(c)'
         \/ Send("read", c) /\ at = "ask",
         ~Empty /\ Fills(c) /\ Met(c)' => Met(c),
         ~Empty => \A d \in mats' \ mats : Kept(d[2])
  PROVE  Leased'
<1>1. TypeOK /\ Posted /\ JobShape /\ Requests /\ Identities /\ Scoped /\ Obeyed /\ Agreement
  BY DEF IInv, Leased
<1>2. /\ Others(c) /\ jobs'[c].kind = "materialize" /\ jobs'[c].lease = jobs[c].lease
      /\ jobs'[c].at = at /\ jobs'[c].cut = jobs[c].cut
  BY DEF Moves
<1>3. Requests'
  <2>1. "read" = WhatOf(jobs'[c]) \/ at # "ask"
    BY <1>2 DEF WhatOf
  <2> QED BY <1>1, <1>2, <2>1, RequestsQuiet, RequestsSent
<1>4. Identities'
  BY <1>1, <1>2, IdentitiesMove
<1>5. \A r \in Calls, l \in Leases : Releases(r, l)' <=> Releases(r, l)
  BY <1>2 DEF Releases, Others
<1>6. Scoped'
  <2>1. \A d \in mats' \ mats : Kept(d[2]) => Kept(d[2])'
    BY <1>2 DEF Kept, Releases, Others
  <2>2. Fills(c)' => Fills(c)
    BY <1>2 DEF Fills
  <2>3. \A l \in Leases : Releases(c, l)' => Releases(c, l)
    BY <1>5
  <2> QED BY <1>1, <1>2, <2>1, <2>2, <2>3, ScopedKept DEF shared, client
<1>7. Obeyed'
  BY <1>1, <1>2, ObeyedKept DEF client
<1>8. Agreement'
  <2>1. ~Lets(jobs'[c]) /\ ~Holds(jobs'[c]) /\ jobs'[c].kind # "open"
    BY <1>2 DEF Lets, Holds
  <2>2. \A l : ~Frees(c, l) /\ ~Handles(c, l)
    BY <1>2 DEF Frees, Handles, Moves
  <2>3. leases' = leases /\ leases \subseteq Leases
    BY <1>1 DEF TypeOK
  <2> QED BY <1>1, <1>2, <2>1, <2>2, <2>3, AgreementKept DEF client
<1> QED BY <1>3, <1>4, <1>6, <1>7, <1>8 DEF Leased

LEMMA LeasedStaged ==
  ASSUME IInv, Leased, NEW c \in Calls, Staged(c)
  PROVE  Leased'
<1>1. jobs[c].at = "stage" /\ jobs[c].kind = "materialize" /\ jobs[c].answer = None
  BY CallTypes DEF Staged, ShapeOf, Job, Idle
<1>2. ~Awaits(c) /\ mats' = mats /\ UNCHANGED <<shared, leases, known, client>>
  BY <1>1 DEF Staged, Awaits, AtClient
<1>3. CASE jobs[c].cut /\ Step(c, "discard") /\ UNCHANGED up
  <2>1. Moves(c, "discard") /\ jobs'[c].answer = jobs[c].answer
    BY <1>3, StepMoves DEF IInv, Places
  <2>2. ~Awaits(c)' /\ ~Met(c)'
    BY <2>1 DEF Awaits, AtClient, Met, Moves
  <2> QED BY <1>1, <1>2, <1>3, <2>1, <2>2, LeasedFill
<1>4. CASE Step(c, "ask") /\ Send("read", c)
  <2>1. Moves(c, "ask") /\ jobs'[c].answer = jobs[c].answer
    BY <1>4, StepMoves DEF IInv, Places, AtClient
  <2>2. ~Met(c)'
    BY <1>1, <2>1 DEF Met, Moves, None
  <2> QED BY <1>1, <1>2, <1>4, <2>1, <2>2, LeasedFill
<1>5. CASE Empty /\ Step(c, "rename") /\ UNCHANGED up
  <2>1. Moves(c, "rename") /\ jobs'[c].answer = jobs[c].answer
    BY <1>5, StepMoves DEF IInv, Places
  <2>2. ~Awaits(c)'
    BY <2>1 DEF Awaits, AtClient, Moves
  <2> QED BY <1>1, <1>2, <1>5, <2>1, <2>2, LeasedFill
<1> QED BY <1>3, <1>4, <1>5 DEF Staged

LEMMA LeasedFilled ==
  ASSUME IInv, Leased, NEW c \in Calls, Filled(c)
  PROVE  Leased'
<1>1. /\ jobs[c].kind = "materialize" /\ jobs[c].at = "ask" /\ ~Awaits(c)
      /\ mats' = mats /\ UNCHANGED <<shared, leases, known, up, client>>
  BY DEF Filled, Awaits, files
<1>2. CASE Step(c, "discard")
  <2>1. Moves(c, "discard") /\ jobs'[c].answer = jobs[c].answer
    BY <1>2, StepMoves DEF IInv, Places
  <2>2. ~Awaits(c)' /\ ~Met(c)'
    BY <2>1 DEF Awaits, AtClient, Met, Moves
  <2> QED BY <1>1, <2>1, <2>2, LeasedFill
<1>3. CASE jobs[c].answer = "ok" /\ Step(c, "rename")
  <2>1. Moves(c, "rename") /\ jobs'[c].answer = jobs[c].answer
    BY <1>3, StepMoves DEF IInv, Places
  <2>2. ~Awaits(c)' /\ Met(c)
    BY <1>1, <1>3, <2>1 DEF Awaits, AtClient, Met, Moves
  <2> QED BY <1>1, <2>1, <2>2, LeasedFill
<1> QED BY <1>2, <1>3 DEF Filled

LEMMA LeasedRenamed ==
  ASSUME IInv, Leased, NEW c \in Calls, Renamed(c)
  PROVE  Leased'
<1>1. jobs[c].at = "rename" /\ jobs[c].kind = "materialize" /\ jobs[c].dir = <<c, jobs[c].lease>>
  BY CallTypes DEF Renamed, ShapeOf, Job, Idle
<1>2. ~Awaits(c) /\ UNCHANGED <<shared, leases, known, up, client>>
  BY <1>1 DEF Renamed, Awaits, AtClient
<1>3. CASE jobs[c].cut /\ Step(c, "discard") /\ UNCHANGED mats
  <2>1. Moves(c, "discard") /\ jobs'[c].answer = jobs[c].answer
    BY <1>3, StepMoves DEF IInv, Places
  <2>2. ~Awaits(c)' /\ ~Met(c)'
    BY <2>1 DEF Awaits, AtClient, Met, Moves
  <2> QED BY <1>1, <1>2, <1>3, <2>1, <2>2, LeasedFill
<1>4. CASE ~jobs[c].cut /\ mats' = mats \cup {jobs[c].dir} /\ Step(c, "return")
  <2>1. Moves(c, "return") /\ jobs'[c].answer = jobs[c].answer
    BY <1>4, StepMoves DEF IInv, Places
  <2>2. ~Awaits(c)' /\ ~Met(c)'
    BY <2>1 DEF Awaits, AtClient, Met, Moves
  <2>3. bound
    BY <1>1, <1>4 DEF IInv, Ended, None
  <2>4. ~Empty => Kept(jobs[c].lease)
    BY <1>1, <1>4, <2>3 DEF Leased, Scoped, Sound, Fills, Met
  <2>5. ~Empty => \A d \in mats' \ mats : Kept(d[2])
    BY <1>1, <1>4, <2>4
  <2> QED BY <1>1, <1>2, <2>1, <2>2, <2>5, LeasedFill
<1> QED BY <1>3, <1>4 DEF Renamed

LEMMA LeasedOthersEnd ==
  ASSUME IInv, Leased, NEW c \in Calls, GivenUp(c) \/ ReadDone(c) \/ Discarded(c) \/ Removed(c) \/ Return(c)
  PROVE  Leased'
<1>1. jobs[c] \in Job /\ ShapeOf(jobs[c], c)
  BY CallTypes
<1>2. CASE GivenUp(c)
  BY <1>1, <1>2, LeasedEnd DEF GivenUp, Awaits, Lets, files, ShapeOf
<1>3. CASE ReadDone(c)
  BY <1>1, <1>3, LeasedEnd DEF ReadDone, Awaits, files
<1>4. CASE Discarded(c)
  BY <1>1, <1>4, LeasedEnd DEF Discarded, Awaits, AtClient, ShapeOf
<1>5. CASE Removed(c)
  <2>1. jobs[c].kind = "remove"
    BY <1>1, <1>5 DEF Removed, ShapeOf, Job, Idle
  <2> QED BY <1>5, <2>1, LeasedEnd DEF Removed, Awaits, AtClient
<1>6. CASE Return(c)
  <2>1. jobs[c].at = "return" /\ jobs[c].kind \in {"open", "materialize"} /\ mats' = mats
    BY <1>1, <1>6 DEF Return, ShapeOf, Job, Idle, files
  <2>2. jobs[c].lease \in Leases /\ (jobs[c].kind = "materialize" => jobs[c].dir \in Calls \X Leases)
    BY <1>1, <2>1 DEF ShapeOf
  <2> QED BY <1>6, <2>1, <2>2, LeasedEnd DEF Return, Awaits, AtClient
<1> QED BY <1>2, <1>3, <1>4, <1>5, <1>6

LEMMA LeasedReleased ==
  ASSUME IInv, Leased, NEW c \in Calls, Released(c)
  PROVE  Leased'
<1>1. TypeOK /\ Posted /\ JobShape /\ Requests /\ Identities /\ Scoped /\ Obeyed /\ Agreement
  BY DEF IInv, Leased
<1>2. /\ jobs[c].kind = "release" /\ jobs[c].answer # None /\ ~Awaits(c)
      /\ leases' = IF jobs[c].answer = "ok" THEN leases \ {jobs[c].lease} ELSE leases
      /\ UNCHANGED <<shared, files, known, up, client>>
  BY DEF Released, Awaits
<1>3. Others(c) /\ jobs'[c] = Idle
  BY <1>1, EndFacts DEF Released
<1>4. ~Awaits(c)' /\ ~Fills(c)'
  BY <1>3 DEF Awaits, Fills, Idle, AtClient, None
<1>5. Requests'
  BY <1>1, <1>2, <1>3, <1>4, RequestsQuiet
<1>6. Identities'
  BY <1>1, <1>2, <1>3, IdentitiesEnd
<1>7. \A l \in leases \ leases' : Frees(c, l) /\ holder[l] = None /\ Releases(c, l)
  BY <1>1, <1>2 DEF Obeyed, Frees, Releases
<1>8. Scoped'
  <2>1. \A l \in Leases : ~Releases(c, l)'
    BY <1>3 DEF Releases, Idle, None
  <2>2. mats' = mats
    BY <1>2 DEF files
  <2> QED BY <1>1, <1>2, <1>3, <1>4, <1>7, <2>1, <2>2, ScopedKept DEF shared, client
<1>9. Obeyed'
  BY <1>1, <1>2, <1>3, ObeyedKept DEF client, Idle, None
<1>10. Agreement'
  <2>1. ~Lets(jobs'[c]) /\ ~Holds(jobs'[c]) /\ jobs'[c].kind # "open"
    BY <1>3 DEF Lets, Holds, Idle, None
  <2>2. \A l \in leases' : ~Frees(c, l)
    BY <1>2 DEF Frees
  <2>3. ASSUME NEW l \in Leases, Undisturbed, Handles(c, l)
        PROVE  holder[l] = None
    BY <1>1, <1>2, <2>3 DEF Handles, Agreement, Lets
  <2>4. leases' \subseteq leases /\ leases \subseteq Leases
    BY <1>1, <1>2 DEF TypeOK
  <2> QED BY <1>1, <1>2, <1>3, <1>7, <2>1, <2>2, <2>3, <2>4, AgreementKept DEF client
<1> QED BY <1>5, <1>6, <1>8, <1>9, <1>10 DEF Leased

\* An opening goes on: to the pages of its manifest, to give up, or to its end.
LEMMA LeasedOpening ==
  ASSUME IInv, Leased, NEW c \in Calls, NEW at \in {"page", "giveUp", "return"}, Moves(c, at),
         jobs[c].kind = "open", Holds(jobs[c]), jobs[c].at # "return", ~Awaits(c), jobs[c].lease \in Leases,
         UNCHANGED <<shared, files, known, client>>,
         \/ /\ at = "return" /\ leases' = leases \cup {jobs[c].lease} /\ UNCHANGED up
         \/ /\ at = "page" /\ leases' = leases /\ Send("read", c)
         \/ /\ at = "giveUp" /\ leases' = leases /\ Send("release", c) /\ jobs'[c].answer = None
         \/ /\ at = "giveUp" /\ leases' = leases /\ UNCHANGED up /\ jobs'[c].answer = "error" /\ ~bound
  PROVE  Leased'
<1>1. TypeOK /\ Posted /\ JobShape /\ Requests /\ Identities /\ Scoped /\ Obeyed /\ Agreement
  BY DEF IInv, Leased
<1>2. /\ Others(c) /\ jobs'[c].kind = "open" /\ jobs'[c].lease = jobs[c].lease /\ jobs'[c].at = at
  BY DEF Moves
<1>3. Requests'
  <2>1. CASE UNCHANGED up /\ (at = "return" \/ (at = "giveUp" /\ jobs'[c].answer = "error"))
    <3>1. ~Awaits(c)'
      BY <1>2, <2>1 DEF Awaits, AtClient, None
    <3> QED BY <1>1, <1>2, <2>1, <3>1, RequestsQuiet
  <2>2. CASE at = "page" /\ Send("read", c)
    BY <1>1, <1>2, <2>2, RequestsSent DEF WhatOf
  <2>3. CASE at = "giveUp" /\ Send("release", c)
    BY <1>1, <1>2, <2>3, RequestsSent DEF WhatOf
  <2> QED BY <2>1, <2>2, <2>3
<1>4. Identities'
  <2>1. /\ jobs'[c].lease = jobs[c].lease /\ jobs'[c].kind = jobs[c].kind
        /\ jobs[c].at # "return" /\ jobs'[c].at # "ask"
        /\ \/ leases' \subseteq leases /\ jobs'[c].at # "return"
           \/ leases' = leases \cup {jobs[c].lease} /\ jobs'[c].at = "return"
    BY <1>2
  <2> QED BY <1>1, <1>2, <2>1, IdentitiesMove
<1>5. \A d \in Calls : Fills(d) => jobs[d].lease # jobs'[c].lease
  BY <1>1, <1>2, NoneAssumption DEF Identities, Fresh, Fills
<1>6. Scoped'
  <2>1. \A l \in Leases : ~Releases(c, l)'
    BY <1>2 DEF Releases
  <2>2. ~Fills(c)' /\ mats' = mats /\ leases \subseteq leases'
    BY <1>2 DEF Fills, files
  <2>3. UNCHANGED up \/ Send("read", c) \/ Send("release", c)
    OBVIOUS
  <2>4. \/ UNCHANGED up
        \/ \E what \in {"open", "read", "release"} :
             /\ Send(what, c)
             /\ what = "release" => \A d \in Calls : Fills(d) => jobs[d].lease # jobs'[c].lease
    BY <1>5, <2>3
  <2> QED BY <1>1, <1>2, <2>1, <2>2, <2>4, ScopedKept DEF shared, client
<1>7. Obeyed'
  BY <1>1, <1>2, ObeyedKept DEF client
<1>8. Agreement'
  <2>1. CASE ~bound
    BY <2>1 DEF Agreement, Undisturbed, shared
  <2>2. CASE bound
    <3>1. ~Lets(jobs'[c]) /\ Holds(jobs[c])
      BY <1>2, <2>2 DEF Lets
    <3>2. jobs'[c].kind = "open" /\ jobs'[c].at = "return" => jobs'[c].lease \in leases'
      BY <1>2
    <3>3. leases \subseteq leases' /\ leases' \subseteq leases \cup {jobs[c].lease} /\ leases' \subseteq Leases
      BY <1>1 DEF TypeOK
    <3>4. \A l \in leases' \ leases : Undisturbed => holder[l] # None
      BY <1>1, <3>3 DEF Agreement
    <3>5. \A l : ~Frees(c, l) /\ (Handles(c, l) => Handles(c, l)')
      BY <1>2 DEF Frees, Handles
    <3>6. UNCHANGED up \/ \E what : Send(what, c)
      OBVIOUS
    <3> QED BY <1>1, <1>2, <3>1, <3>2, <3>3, <3>4, <3>5, <3>6, AgreementKept DEF client
  <2> QED BY <2>1, <2>2
<1> QED BY <1>3, <1>4, <1>6, <1>7, <1>8 DEF Leased

LEMMA LeasedCommits ==
  ASSUME IInv, Leased, NEW c \in Calls, Commits(c), jobs[c].kind = "open", Holds(jobs[c]),
         jobs[c].at # "return", ~Awaits(c), jobs[c].lease \in Leases, UNCHANGED <<shared, files, known, client>>
  PROVE  Leased'
<1>1. Moves(c, "return")
  BY StepMoves DEF IInv, Commits, Places
<1> QED BY <1>1, LeasedOpening DEF Commits

LEMMA LeasedGivesUp ==
  ASSUME IInv, Leased, NEW c \in Calls, GivesUp(c), jobs[c].kind = "open", Holds(jobs[c]),
         jobs[c].at # "return", ~Awaits(c), jobs[c].lease \in Leases, UNCHANGED <<shared, files, known, client>>
  PROVE  Leased'
<1>1. CASE bound
  <2>1. Asking(c, "giveUp") /\ Send("release", c) /\ leases' = leases
    BY <1>1 DEF GivesUp
  <2>2. Moves(c, "giveUp") /\ jobs'[c].answer = None
    BY <2>1, AskingMoves DEF IInv, Places, AtClient
  <2> QED BY <2>1, <2>2, LeasedOpening
<1>2. CASE ~bound
  <2> DEFINE job == [[jobs[c] EXCEPT !.at = "giveUp"] EXCEPT !.answer = "error"]
  <2>1. jobs' = [jobs EXCEPT ![c] = job] /\ UNCHANGED up /\ leases' = leases
    BY <1>2 DEF GivesUp, IInv, TypeOK, Job
  <2>2. jobs[c] \in Job
    BY CallTypes
  <2>3. /\ job \in Job /\ job.at = "giveUp" /\ job.kind = jobs[c].kind /\ job.cut = jobs[c].cut
        /\ job.lease = jobs[c].lease /\ job.dir = jobs[c].dir /\ job.answer = "error"
    BY <2>2 DEF Job, AtClient, None
  <2> HIDE DEF job
  <2>4. Moves(c, "giveUp") /\ jobs'[c].answer = "error"
    BY <2>1, <2>3 DEF IInv, TypeOK, Moves, Others
  <2> QED BY <1>2, <2>1, <2>4, LeasedOpening
<1> QED BY <1>1, <1>2

LEMMA LeasedOpened ==
  ASSUME IInv, Leased, NEW c \in Calls, Opened(c)
  PROVE  Leased'
<1>1. /\ jobs[c].kind = "open" /\ jobs[c].at = "ask" /\ jobs[c].answer # None /\ ~Awaits(c)
      /\ UNCHANGED <<shared, files, known, client, budget>>
  BY DEF Opened, Awaits
<1>2. CASE jobs[c].answer = "error" /\ End(c) /\ UNCHANGED <<leases, up>>
  BY <1>1, <1>2, LeasedEnd DEF files
<1>3. CASE jobs[c].answer = "ok"
  <2>1. jobs[c].lease \in Leases /\ Holds(jobs[c])
    BY <1>1, <1>3, CallTypes DEF ShapeOf, Holds
  <2>2. CASE GivesUp(c)
    BY <1>1, <2>1, <2>2, LeasedGivesUp
  <2>3. CASE Commits(c)
    BY <1>1, <2>1, <2>3, LeasedCommits
  <2>4. CASE Asking(c, "page") /\ Send("read", c) /\ UNCHANGED leases
    <3>1. Moves(c, "page")
      BY <2>4, AskingMoves DEF IInv, Places, AtClient
    <3> QED BY <1>1, <2>1, <2>4, <3>1, LeasedOpening
  <2> QED BY <1>3, <2>2, <2>3, <2>4 DEF Opened
<1> QED BY <1>2, <1>3 DEF Opened

LEMMA LeasedManifestRead ==
  ASSUME IInv, Leased, NEW c \in Calls, ManifestRead(c)
  PROVE  Leased'
<1>1. jobs[c].at = "page" /\ jobs[c].answer # None /\ UNCHANGED <<shared, files, known, client>>
  BY DEF ManifestRead
<1>2. jobs[c].kind = "open" /\ jobs[c].lease \in Leases
  BY <1>1, CallTypes DEF ShapeOf, Job, Idle
<1>3. Holds(jobs[c]) /\ ~Awaits(c)
  BY <1>1, <1>2 DEF Holds, Awaits
<1> QED BY <1>1, <1>2, <1>3, LeasedGivesUp, LeasedCommits DEF ManifestRead

-----------------------------------------------------------------------------
\* A call begins, with a request to the client or without.
LEMMA LeasedBegins ==
  ASSUME IInv, Leased, NEW c \in Calls, Others(c), jobs[c] = Idle, jobs'[c].answer = None,
         \/ jobs'[c].kind = "open" /\ jobs'[c].lease = None /\ jobs'[c].at = "ask" /\ Send("open", c)
            /\ jobs'[c].turn # None
         \/ /\ jobs'[c].kind = "read" /\ jobs'[c].lease \in known \cap Leases
            /\ jobs'[c].at = "ask" /\ Send("read", c)
         \/ /\ jobs'[c].kind = "release" /\ jobs'[c].lease \in known \cap Leases
            /\ jobs'[c].at = "ask" /\ Send("release", c)
            /\ \A d \in mats : d[2] # jobs'[c].lease
            /\ \A d \in Calls : Fills(d) => jobs[d].lease # jobs'[c].lease
         \/ /\ jobs'[c].kind = "materialize" /\ jobs'[c].lease \in known \cap Leases \cap leases
            /\ jobs'[c].at = "stage" /\ UNCHANGED up
         \/ jobs'[c].kind = "remove" /\ jobs'[c].lease = None /\ jobs'[c].at = "remove" /\ UNCHANGED up,
         UNCHANGED <<shared, leases, files, known, client>>
  PROVE  Leased'
<1>1. TypeOK /\ Posted /\ JobShape /\ Requests /\ Identities /\ Scoped /\ Obeyed /\ Agreement
  BY DEF IInv, Leased
<1>2. ~Awaits(c)
  BY DEF Awaits, Idle, AtClient
<1>3. Requests'
  <2>1. CASE UNCHANGED up /\ jobs'[c].at \in {"stage", "remove"}
    <3>1. ~Awaits(c)'
      BY <2>1 DEF Awaits, AtClient
    <3> QED BY <1>1, <1>2, <2>1, <3>1, RequestsQuiet
  <2>2. ASSUME NEW what \in {"open", "read", "release"}, Send(what, c), jobs'[c].kind = what, jobs'[c].at = "ask",
               what = "open" => jobs'[c].turn # None
        PROVE  Requests'
    <3>1. what = WhatOf(jobs'[c])
      BY <2>2 DEF WhatOf
    <3> QED BY <1>1, <1>2, <2>2, <3>1, RequestsSent
  <2> QED BY <2>1, <2>2
<1>4. Identities'
  BY <1>1, IdentitiesBegin
<1>5. Scoped'
  <2>1. \A l \in Leases : Releases(c, l)' =>
          (\A d \in mats : d[2] # l) /\ \A d \in Calls : Fills(d) => jobs[d].lease # l
    BY DEF Releases
  <2>2. \/ UNCHANGED up
        \/ \E what \in {"open", "read", "release"} :
             /\ Send(what, c)
             /\ what = "release" => \A d \in Calls : Fills(d) => jobs[d].lease # jobs'[c].lease
    OBVIOUS
  <2>3. \/ ~Fills(c)'
        \/ ~Met(c)' /\ UNCHANGED up /\ jobs'[c].lease \in leases
    BY DEF Fills, Met
  <2>4. mats' = mats /\ leases' = leases
    BY DEF files
  <2> QED BY <1>1, <2>1, <2>2, <2>3, <2>4, ScopedKept DEF shared, client
<1>6. Obeyed'
  BY <1>1, ObeyedKept DEF client, None
<1>7. Agreement'
  <2>1. ~Lets(jobs'[c]) /\ ~Holds(jobs'[c]) /\ (jobs'[c].kind = "open" => jobs'[c].at # "return")
    BY DEF Lets, Holds, None
  <2>2. \A l : ~Frees(c, l) /\ ~Handles(c, l)
    BY DEF Frees, Handles, Idle, None
  <2>3. leases' = leases /\ leases \subseteq Leases
    BY <1>1 DEF TypeOK
  <2>4. UNCHANGED up \/ \E what : Send(what, c)
    OBVIOUS
  <2> QED BY <1>1, <2>1, <2>2, <2>3, <2>4, AgreementKept DEF client
<1> QED BY <1>3, <1>4, <1>5, <1>6, <1>7 DEF Leased

LEMMA LeasedOpen ==
  ASSUME IInv, Leased, NEW c \in Calls, NEW t \in Turns, Open(c, t)
  PROVE  Leased'
<1> DEFINE job == [[[Idle EXCEPT !.kind = "open"] EXCEPT !.at = "ask"] EXCEPT !.turn = t]
<1>1. /\ job \in Job /\ job.kind = "open" /\ job.at = "ask" /\ job.answer = None /\ job.lease = None
      /\ job.turn = t
  BY DEF Idle, Job, AtClient, None, NoDir
<1>2. Begin(c, job) /\ Send("open", c) /\ UNCHANGED <<shared, leases, files, known, client>>
  BY DEF Open, Idle
<1>3. t # None
  BY NoneAssumption
<1> HIDE DEF job
<1> QED BY <1>1, <1>2, <1>3, BeginFacts, LeasedBegins DEF IInv

LEMMA LeasedRead ==
  ASSUME IInv, Leased, NEW c \in Calls, NEW l \in Leases, Read(c, l)
  PROVE  Leased'
<1> DEFINE job == [[[Idle EXCEPT !.kind = "read"] EXCEPT !.at = "ask"] EXCEPT !.lease = l]
<1>1. job \in Job /\ job.kind = "read" /\ job.at = "ask" /\ job.answer = None /\ job.lease = l
  BY DEF Idle, Job, AtClient, None, NoDir
<1>2. Begin(c, job) /\ Send("read", c) /\ UNCHANGED <<shared, leases, files, known, client>> /\ l \in known
  BY DEF Read, Idle, Usable
<1> HIDE DEF job
<1> QED BY <1>1, <1>2, BeginFacts, LeasedBegins DEF IInv

LEMMA LeasedRelease ==
  ASSUME IInv, Leased, NEW c \in Calls, NEW l \in Leases, Release(c, l)
  PROVE  Leased'
<1> DEFINE job == [[[Idle EXCEPT !.kind = "release"] EXCEPT !.at = "ask"] EXCEPT !.lease = l]
<1>1. job \in Job /\ job.kind = "release" /\ job.at = "ask" /\ job.answer = None /\ job.lease = l
  BY DEF Idle, Job, AtClient, None, NoDir
<1>2. Begin(c, job) /\ Send("release", c) /\ UNCHANGED <<shared, leases, files, known, client>> /\ l \in known
  BY DEF Release, Idle, Usable
<1>3. \A d \in mats : d[2] # l
  BY DEF Release
<1>4. \A d \in Calls : Fills(d) => jobs[d].lease # l
  BY DEF Release, OperationsOn, On, Awaited, Fills
<1> HIDE DEF job
<1> QED BY <1>1, <1>2, <1>3, <1>4, BeginFacts, LeasedBegins DEF IInv

LEMMA LeasedMaterialize ==
  ASSUME IInv, Leased, NEW c \in Calls, NEW l \in Leases, Materialize(c, l)
  PROVE  Leased'
<1> DEFINE job == [[[[Idle EXCEPT !.kind = "materialize"] EXCEPT !.at = "stage"] EXCEPT !.lease = l]
                     EXCEPT !.dir = <<c, l>>]
<1>1. /\ job \in Job /\ job.kind = "materialize" /\ job.at = "stage" /\ job.answer = None /\ job.lease = l
  BY DEF Idle, Job, AtClient, None, NoDir
<1>2. /\ Begin(c, job) /\ UNCHANGED <<shared, leases, files, known, up, client>>
      /\ l \in known /\ l \in leases
  BY DEF Materialize, Idle, Usable
<1> HIDE DEF job
<1> QED BY <1>1, <1>2, BeginFacts, LeasedBegins DEF IInv

LEMMA LeasedReleaseMaterialization ==
  ASSUME IInv, Leased, NEW c \in Calls, NEW dir \in disk, ReleaseMaterialization(c, dir)
  PROVE  Leased'
<1> DEFINE job == [[[Idle EXCEPT !.kind = "remove"] EXCEPT !.at = "remove"] EXCEPT !.dir = dir]
<1>0. dir \in Calls \X Leases
  BY DEF IInv, TypeOK
<1>1. job \in Job /\ job.kind = "remove" /\ job.at = "remove" /\ job.answer = None /\ job.lease = None
  BY <1>0 DEF Idle, Job, AtClient, None, NoDir
<1>2. Begin(c, job) /\ UNCHANGED <<shared, leases, files, known, up, client>>
  BY DEF ReleaseMaterialization, Idle
<1> HIDE DEF job
<1> QED BY <1>1, <1>2, BeginFacts, LeasedBegins DEF IInv

-----------------------------------------------------------------------------
\* What is left of the requests when the client has handled the first.
LEMMA HeadFacts ==
  ASSUME IInv, Requests, up # <<>>, up' = Tail(up)
  PROVE  LET m == Head(up) IN
         /\ m \in Message /\ 1 \in DOMAIN up /\ m = up[1] /\ m.call \in Calls \cup {None}
         /\ \A i \in DOMAIN up' : i \in Nat /\ i + 1 \in DOMAIN up /\ up'[i] = up[i + 1]
         /\ \A i \in DOMAIN up : i # 1 => \E j \in DOMAIN up' : up'[j] = up[i]
         /\ m.call # None =>
              /\ Awaits(m.call) /\ (\A i \in DOMAIN up' : up'[i].call # m.call)
              /\ m.lease = jobs[m.call].lease /\ m.what = WhatOf(jobs[m.call])
<1> DEFINE m == Head(up)
<1>1. /\ up \in Seq(Message) /\ m \in Message /\ 1 \in DOMAIN up /\ m = up[1]
      /\ \A i \in DOMAIN up' : i \in Nat /\ i + 1 \in DOMAIN up /\ up'[i] = up[i + 1]
  BY DEF IInv, TypeOK
<1>2. ASSUME NEW i \in DOMAIN up, i # 1
      PROVE  \E j \in DOMAIN up' : up'[j] = up[i]
  <2>1. i - 1 \in DOMAIN up' /\ up'[i - 1] = up[i]
    BY <1>1, <1>2
  <2> QED BY <2>1
<1>3. m.call \in Calls \cup {None}
  BY <1>1 DEF Message
<1> HIDE DEF m
<1>4. m.call # None =>
        /\ Awaits(m.call) /\ (\A i \in DOMAIN up' : up'[i].call # m.call)
        /\ m.lease = jobs[m.call].lease /\ m.what = WhatOf(jobs[m.call])
  <2> SUFFICES ASSUME m.call # None
               PROVE  /\ Awaits(m.call) /\ (\A i \in DOMAIN up' : up'[i].call # m.call)
                      /\ m.lease = jobs[m.call].lease /\ m.what = WhatOf(jobs[m.call])
    OBVIOUS
  <2>1. \A i \in DOMAIN up : up[i].call = m.call => i = 1
    BY <1>1 DEF IInv, Posted
  <2>2. \A i \in DOMAIN up' : up'[i].call # m.call
    BY <1>1, <2>1
  <2> QED BY <1>1, <2>2 DEF IInv, Posted, Requests
<1> QED BY <1>1, <1>2, <1>3, <1>4 DEF m

\* A request that was handled leaves the others where they were.
LEMMA RequestsHandled ==
  ASSUME IInv, Requests, up # <<>>, up' = Tail(up),
         \A d \in Calls \ {Head(up).call} : jobs'[d] = jobs[d],
         Head(up).call # None => jobs'[Head(up).call].answer # None
  PROVE  Requests'
<1> DEFINE m == Head(up)
<1>1. /\ m = up[1] /\ 1 \in DOMAIN up /\ m.call \in Calls \cup {None}
      /\ \A i \in DOMAIN up' : i \in Nat /\ i + 1 \in DOMAIN up /\ up'[i] = up[i + 1]
      /\ \A i \in DOMAIN up : i # 1 => \E j \in DOMAIN up' : up'[j] = up[i]
      /\ m.call # None => \A i \in DOMAIN up' : up'[i].call # m.call
  BY HeadFacts
<1>2. \A d \in Calls \ {m.call} : jobs'[d] = jobs[d]
  OBVIOUS
<1>3. m.call # None => jobs'[m.call].answer # None
  OBVIOUS
<1> HIDE DEF m
<1>4. ASSUME NEW d \in Calls, Awaits(d)'
      PROVE  \E i \in DOMAIN up' : up'[i].call = d
  <2>1. d # m.call /\ Awaits(d)
    BY <1>2, <1>3, <1>4, NoneAssumption DEF Awaits
  <2>2. PICK i \in DOMAIN up : up[i].call = d
    BY <2>1 DEF Requests
  <2> QED BY <1>1, <2>1, <2>2
<1>5. ASSUME NEW i \in DOMAIN up', up'[i].call # None
      PROVE  up'[i].lease = jobs'[up'[i].call].lease /\ up'[i].what = WhatOf(jobs'[up'[i].call])
  <2>1. up'[i].call \in Calls \ {m.call}
    <3>1. up'[i].call \in Calls \cup {None}
      BY <1>1, CallsOfMessages DEF IInv
    <3> QED BY <1>1, <1>5, <3>1
  <2>2. jobs'[up'[i].call] = jobs[up'[i].call]
    BY <1>2, <2>1
  <2> QED BY <1>1, <1>5, <2>2 DEF Requests
<1>6. \A i \in DOMAIN up' : up'[i].what = "open" => up'[i].turn # None
  BY <1>1 DEF Requests
<1> QED BY <1>4, <1>5, <1>6 DEF Requests

LEMMA LeaseOf ==
  ASSUME IInv, NEW c \in Calls,
         jobs[c].kind \in {"read", "release", "materialize"} \/ Lets(jobs[c]) \/ Holds(jobs[c])
  PROVE  jobs[c].lease \in Leases
<1>1. jobs[c] \in Job /\ ShapeOf(jobs[c], c)
  BY CallTypes
<1> QED BY <1>1 DEF ShapeOf, Job, Idle, Lets, Holds, None

\* The client draws a lease for whoever asks.
LEMMA LeasedDrawn ==
  ASSUME IInv, Leased, up # <<>>, up' = Tail(up), Head(up).what = "open", NEW l \in Leases, l \notin drawn,
         drawn' = drawn \cup {l}, holder' = [holder EXCEPT ![l] = Head(up).turn], Opens(Head(up).call, l),
         UNCHANGED <<shared, leases, files, known, requested>>
  PROVE  Leased'
<1> DEFINE m == Head(up)
           c == m.call
<1>1. TypeOK /\ Posted /\ JobShape /\ Requests /\ Identities /\ Scoped /\ Obeyed /\ Agreement
  BY DEF IInv, Leased
<1>2. /\ m \in Message /\ 1 \in DOMAIN up /\ m = up[1] /\ c \in Calls \cup {None}
      /\ \A i \in DOMAIN up' : i \in Nat /\ i + 1 \in DOMAIN up /\ up'[i] = up[i + 1]
      /\ c # None => Awaits(c) /\ m.what = WhatOf(jobs[c]) /\ (\A i \in DOMAIN up' : up'[i].call # c)
  BY <1>1, HeadFacts
<1>3. m.turn # None /\ m.turn \in Turns \cup {None}
  BY <1>1, <1>2 DEF Requests, Message
<1>4. c # None => jobs[c].kind = "open" /\ jobs[c].at = "ask" /\ jobs[c].answer = None /\ jobs[c].lease = None
  <2>1. c # None => jobs[c].kind = "open" /\ jobs[c].at = "ask" /\ jobs[c].answer = None
    BY <1>2 DEF WhatOf, Awaits
  <2> QED BY <1>1, <1>2, <2>1 DEF Identities, Knows, None
<1>5. /\ \A d \in Calls \ {c} : jobs'[d] = jobs[d]
      /\ c # None => /\ jobs'[c].kind = "open" /\ jobs'[c].at = "ask"
                     /\ jobs'[c].lease = l /\ jobs'[c].answer = "ok" /\ jobs'[c].cut = jobs[c].cut
  <2>1. CASE c = None
    BY <2>1 DEF Opens
  <2>2. CASE c # None
    BY <1>1, <1>2, <1>4, <2>2, OpensFacts DEF Others
  <2> QED BY <2>1, <2>2
<1>6. holder' = [holder EXCEPT ![l] = m.turn] /\ holder \in [Leases -> Turns \cup {None}]
  BY <1>1 DEF TypeOK
<1>7. Requests'
  BY <1>1, <1>5, RequestsHandled DEF None
<1>0. c = up[1].call
  BY <1>2
<1> HIDE DEF c, m
<1>8. /\ l \notin leases /\ l \notin known /\ (\A d \in Calls : jobs[d].lease # l)
      /\ holder'[l] # None /\ \A k \in Leases \ {l} : holder'[k] = holder[k]
  BY <1>1, <1>3, <1>6, NoneAssumption DEF Identities, Knows
<1>9. Identities'
  <2>1. leases' \subseteq drawn' /\ known' \cap Leases \subseteq drawn'
    BY <1>1 DEF Identities
  <2>2. \A k \in Leases : holder'[k] # None => k \in drawn'
    BY <1>1, <1>6 DEF Identities
  <2>3. ASSUME NEW d \in Calls
        PROVE  Knows(d)' /\ Fresh(d)'
    <3>1. Knows(d) /\ Fresh(d)
      BY <1>1 DEF Identities
    <3>2. CASE d # c
      <4>1. jobs'[d] = jobs[d]
        BY <1>5, <3>2
      <4>2. \A e \in Calls : jobs'[e].lease = jobs[e].lease \/ (e = c /\ jobs'[e].lease = l)
        BY <1>2, <1>5, NoneAssumption
      <4> QED BY <1>8, <3>1, <4>1, <4>2 DEF Knows, Fresh
    <3>3. CASE d = c
      BY <1>5, <1>8, <3>3, NoneAssumption DEF Knows, Fresh
    <3> QED BY <3>2, <3>3
  <2> QED BY <2>1, <2>2, <2>3 DEF Identities
<1>10. \A r \in Calls, k \in Leases : Releases(r, k)' <=> Releases(r, k)
  BY <1>4, <1>5, NoneAssumption DEF Releases
<1>11. Scoped'
  <2> SUFFICES ASSUME bound, ~Empty
               PROVE  (\A d \in mats' : Kept(d[2])') /\ \A d \in Calls : Fills(d)' => Sound(d)'
    BY DEF Scoped, Empty, shared
  <2>1. (\A d \in mats : Kept(d[2])) /\ \A d \in Calls : Fills(d) => Sound(d)
    BY <1>1 DEF Scoped
  <2>2. \A k \in Leases : Kept(k) => Kept(k)'
    BY <1>10 DEF Kept
  <2>3. \A d \in mats' : Kept(d[2])'
    <3>1. mats' = mats /\ \A d \in mats : d[2] \in Leases
      BY <1>1 DEF files, TypeOK
    <3> QED BY <2>1, <2>2, <3>1
  <2>4. ASSUME NEW d \in Calls, Fills(d)'
        PROVE  Sound(d)'
    <3>1. jobs'[d] = jobs[d] /\ Fills(d) /\ Sound(d) /\ jobs[d].lease \in Leases
      <4>1. d # c
        BY <1>5, <2>4, NoneAssumption DEF Fills
      <4>2. jobs'[d] = jobs[d] /\ Fills(d)
        BY <1>5, <2>4, <4>1 DEF Fills
      <4> QED BY <1>1, <2>1, <4>2 DEF Fills, JobShape, ShapeOf
    <3>2. Met(d)' => Kept(jobs[d].lease)'
      <4>1. Met(d) => Kept(jobs[d].lease)
        BY <3>1 DEF Sound
      <4>2. Kept(jobs[d].lease) => \A r \in Calls : ~Releases(r, jobs[d].lease)'
        BY <1>10, <3>1 DEF Kept, Releases
      <4> QED BY <3>1, <4>1, <4>2 DEF Kept, Met
    <3>3. jobs'[d].lease \in leases' \/ holder'[jobs'[d].lease] = None
      BY <1>6, <1>8, <3>1 DEF Sound
    <3>4. After(d)'
      BY <1>2, <3>1 DEF After, Sound
    <3> QED BY <3>2, <3>3, <3>4 DEF Sound
  <2> QED BY <2>3, <2>4
<1>12. Obeyed'
  <2> SUFFICES ASSUME NEW d \in Calls, jobs'[d].kind = "release", jobs'[d].answer = "ok"
               PROVE  holder'[jobs'[d].lease] = None
    BY DEF Obeyed
  <2>1. d # c /\ jobs'[d] = jobs[d]
    BY <1>5, NoneAssumption
  <2>2. jobs[d].lease \in Leases
    BY <2>1, LeaseOf
  <2> QED BY <1>1, <1>8, <2>1, <2>2 DEF Obeyed
<1>13. Agreement'
  <2> SUFFICES ASSUME Undisturbed
               PROVE  Agreement'
    BY DEF Agreement, Undisturbed, shared
  <2>1. c # None /\ c \in Calls
    BY <1>0, <1>1, <1>2 DEF Agreement
  <2>2. \A i \in DOMAIN up' : up'[i].call # None
    BY <1>1, <1>2 DEF Agreement
  <2>3. ASSUME NEW d \in Calls
        PROVE  /\ Lets(jobs'[d]) => holder'[jobs'[d].lease] = None
               /\ Holds(jobs'[d]) => holder'[jobs'[d].lease] # None
               /\ jobs'[d].kind = "open" /\ jobs'[d].at = "return" => jobs'[d].lease \in leases'
               /\ \A k : Frees(d, k) => Frees(d, k)'
               /\ \A k \in Leases : Handles(d, k) => Handles(d, k)'
    <3>1. CASE d = c
      <4>1. ~Lets(jobs'[d]) /\ jobs'[d].at # "return"
        BY <1>5, <2>1, <3>1 DEF Lets
      <4>2. (\A k : ~Frees(d, k)) /\ \A k \in Leases : ~Handles(d, k)
        BY <1>4, <2>1, <3>1, NoneAssumption DEF Frees, Handles
      <4> QED BY <1>5, <1>8, <2>1, <3>1, <4>1, <4>2
    <3>2. CASE d # c
      <4>1. jobs'[d] = jobs[d]
        BY <1>5, <3>2
      <4>2. Lets(jobs[d]) \/ Holds(jobs[d]) => jobs[d].lease \in Leases \ {l}
        BY <1>8, LeaseOf
      <4> QED BY <1>1, <1>8, <4>1, <4>2 DEF Agreement, Frees, Handles
    <3> QED BY <3>1, <3>2
  <2>4. ASSUME NEW k \in leases, holder'[k] = None
        PROVE  \E r \in Calls : Frees(r, k)'
    <3>1. holder[k] = None
      BY <1>1, <1>8, <2>4 DEF TypeOK
    <3>2. PICK r \in Calls : Frees(r, k)
      BY <1>1, <2>4, <3>1 DEF Agreement
    <3> QED BY <2>3, <3>2
  <2>5. ASSUME NEW k \in Leases \ leases, holder'[k] # None
        PROVE  \E d \in Calls : Handles(d, k)'
    <3>1. CASE k = l
      <4>1. PICK d \in Calls : d = c
        BY <2>1
      <4>2. Handles(d, k)'
        BY <1>5, <2>1, <3>1, <4>1 DEF Handles
      <4> QED BY <4>2
    <3>2. CASE k # l
      <4>1. k \in OpenThere \ leases
        BY <1>8, <2>5, <3>2 DEF OpenThere
      <4>2. PICK d \in Calls : Handles(d, k)
        BY <1>1, <4>1 DEF Agreement
      <4> QED BY <2>3, <2>5, <4>2
    <3> QED BY <3>1, <3>2
  <2> QED BY <2>2, <2>3, <2>4, <2>5 DEF Agreement, OpenThere
<1> QED BY <1>7, <1>9, <1>11, <1>12, <1>13 DEF Leased

\* The client answers a request that is not about a new lease, or refuses one that is.
LEMMA LeasedAnswered ==
  ASSUME IInv, Leased, up # <<>>, up' = Tail(up), NEW answer \in {"ok", "error"},
         Answer(Head(up).call, answer),
         \/ Head(up).what = "open" /\ answer = "error" /\ holder' = holder
         \/ /\ Head(up).what # "open" /\ answer = IF holder[Head(up).lease] # None THEN "ok" ELSE "error"
            /\ holder' = IF Head(up).what = "release" THEN [holder EXCEPT ![Head(up).lease] = None] ELSE holder,
         UNCHANGED <<shared, leases, files, known, drawn, requested>>
  PROVE  Leased'
<1> DEFINE m == Head(up)
<1>1. TypeOK /\ Posted /\ JobShape /\ Requests /\ Identities /\ Scoped /\ Obeyed /\ Agreement
  BY DEF IInv, Leased
<1>2. PICK c \in Calls \cup {None} : c = m.call
  BY <1>1, HeadFacts
<1>3. PICK l : l = m.lease
  OBVIOUS
<1>4. /\ 1 \in DOMAIN up /\ c = up[1].call /\ m.what \in {"open", "read", "release"}
      /\ \A i \in DOMAIN up' : i \in Nat /\ i + 1 \in DOMAIN up /\ up'[i] = up[i + 1]
      /\ c # None => /\ Awaits(c) /\ m.what = WhatOf(jobs[c]) /\ jobs[c].lease = l
                     /\ \A i \in DOMAIN up' : up'[i].call # c
  BY <1>1, <1>2, <1>3, HeadFacts DEF Message
<1>5. /\ \A d \in Calls \ {c} : jobs'[d] = jobs[d]
      /\ c # None => /\ jobs'[c].kind = jobs[c].kind /\ jobs'[c].at = jobs[c].at /\ jobs'[c].cut = jobs[c].cut
                     /\ jobs'[c].lease = jobs[c].lease /\ jobs'[c].answer = answer
  <2>1. CASE c = None
    BY <1>2, <2>1 DEF Answer
  <2>2. CASE c # None
    BY <1>1, <1>2, <2>2, AnswerFacts DEF Others, Moves
  <2> QED BY <2>1, <2>2
<1>6. /\ holder \in [Leases -> Turns \cup {None}]
      /\ \A k \in Leases : holder'[k] = holder[k] \/ (m.what = "release" /\ k = l /\ holder'[k] = None)
      /\ m.what = "release" => \A k \in Leases : k = l => holder'[k] = None
      /\ l \in Leases /\ answer = "ok" => holder[l] # None
      /\ l \in Leases /\ holder[l] # None => answer = "ok" \/ m.what = "open"
  BY <1>1, <1>3 DEF TypeOK
<1>7. Requests'
  BY <1>1, <1>2, <1>5, RequestsHandled DEF None
<1>8. c # None =>
        /\ m.what = "open" <=> jobs[c].kind = "open" /\ jobs[c].at = "ask"
        /\ m.what = "open" => answer = "error"
        /\ m.what = "release" <=> jobs[c].kind = "release" \/ jobs[c].at = "giveUp"
        /\ jobs[c].answer = None /\ jobs[c].at \in AtClient
        /\ m.what # "open" => l \in Leases
  <2> SUFFICES ASSUME c # None
               PROVE  /\ m.what = "open" <=> jobs[c].kind = "open" /\ jobs[c].at = "ask"
                      /\ m.what = "open" => answer = "error"
                      /\ m.what = "release" <=> jobs[c].kind = "release" \/ jobs[c].at = "giveUp"
                      /\ jobs[c].answer = None /\ jobs[c].at \in AtClient
                      /\ m.what # "open" => l \in Leases
    OBVIOUS
  <2>1. jobs[c].answer = None /\ jobs[c].at \in AtClient /\ m.what = WhatOf(jobs[c]) /\ jobs[c].lease = l
    BY <1>4 DEF Awaits
  <2>2. jobs[c] \in Job /\ ShapeOf(jobs[c], c)
    BY CallTypes
  <2>3. m.what # "open" => l \in Leases
    BY <2>1, <2>2 DEF ShapeOf, Job, Idle, WhatOf, AtClient, None
  <2> QED BY <2>1, <2>2, <2>3 DEF WhatOf, ShapeOf
<1> HIDE DEF m
<1>9. \A d \in Calls : jobs'[d].lease = jobs[d].lease /\ jobs'[d].kind = jobs[d].kind
                       /\ jobs'[d].cut = jobs[d].cut /\ jobs'[d].at = jobs[d].at
  <2> TAKE d \in Calls
  <2>1. CASE d = c
    <3>1. c # None
      BY <2>1, NoneAssumption
    <3> QED BY <1>5, <2>1, <3>1
  <2>2. CASE d # c
    BY <1>5, <2>2
  <2> QED BY <2>1, <2>2
<1>10. Identities'
  <2>1. ASSUME NEW d \in Calls
        PROVE  Knows(d)' /\ Fresh(d)'
    <3>1. Knows(d) /\ Fresh(d)
      BY <1>1 DEF Identities
    <3>2. jobs'[d].kind = "open" /\ jobs'[d].at = "ask" /\ jobs'[d].answer # "ok" => jobs[d].lease = None
      <4>1. CASE d = c
        BY <1>8, <1>9, <3>1, <4>1, NoneAssumption DEF Knows, None
      <4>2. CASE d # c
        BY <1>5, <3>1, <4>2 DEF Knows
      <4> QED BY <4>1, <4>2
    <3> QED BY <1>9, <3>1, <3>2 DEF Knows, Fresh
  <2>2. \A k \in Leases : holder'[k] # None => k \in drawn
    BY <1>1, <1>6 DEF Identities
  <2> QED BY <1>1, <2>1, <2>2 DEF Identities
<1>11. \A r \in Calls, k \in Leases : Releases(r, k)' => Releases(r, k)
  <2> TAKE r \in Calls, k \in Leases
  <2>1. CASE r = c
    <3>1. jobs[r].answer = None
      BY <1>8, <2>1, NoneAssumption
    <3>2. jobs[r].answer # "error"
      BY <3>1 DEF None
    <3> QED BY <1>9, <3>2 DEF Releases
  <2>2. CASE r # c
    BY <1>5, <2>2 DEF Releases
  <2> QED BY <2>1, <2>2
<1>12. Scoped'
  <2> SUFFICES ASSUME bound, ~Empty
               PROVE  (\A d \in mats' : Kept(d[2])') /\ \A d \in Calls : Fills(d)' => Sound(d)'
    BY DEF Scoped, Empty, shared
  <2>1. (\A d \in mats : Kept(d[2])) /\ \A d \in Calls : Fills(d) => Sound(d)
    BY <1>1 DEF Scoped
  <2>2. \A d \in mats' : Kept(d[2])'
    <3>1. mats' = mats /\ \A d \in mats : d[2] \in Leases
      BY <1>1 DEF files, TypeOK
    <3> QED BY <1>11, <2>1, <3>1 DEF Kept
  <2>3. ASSUME NEW d \in Calls, Fills(d)'
        PROVE  Sound(d)'
    <3>1. Fills(d) /\ Sound(d) /\ jobs'[d].lease = jobs[d].lease /\ jobs[d].lease \in Leases
      BY <1>9, <2>1, <2>3, LeaseOf DEF Fills
    <3>2. ASSUME Met(d)'
          PROVE  Kept(jobs[d].lease)
      <4>1. CASE Met(d)
        BY <3>1, <4>1 DEF Sound
      <4>2. CASE ~Met(d)
        <5>1. d = c /\ answer = "ok" /\ l = jobs[d].lease /\ holder[l] # None
          BY <1>4, <1>5, <1>6, <1>9, <3>1, <3>2, <4>2, NoneAssumption DEF Met
        <5>2. l \in leases
          BY <3>1, <5>1 DEF Sound
        <5>3. ASSUME NEW r \in Calls, Releases(r, l)
              PROVE  FALSE
          <6>1. jobs[r].answer \in {None, "ok", "error"} /\ jobs[r].at = "ask" /\ jobs[r].lease = l
            BY <5>3, CallTypes DEF Releases, Job, ShapeOf
          <6>2. jobs[r].answer = None
            BY <1>1, <5>1, <5>3, <6>1 DEF Releases, Obeyed
          <6>3. PICK j \in DOMAIN up : up[j].call = r
            BY <1>1, <6>1, <6>2 DEF Requests, Awaits, AtClient
          <6>4. r # None
            BY NoneAssumption
          <6>5. up[j].what = "release" /\ up[j].lease = l
            BY <1>1, <5>3, <6>1, <6>3, <6>4 DEF Requests, WhatOf, Releases
          <6>6. j < 1 /\ j \in 1..Len(up)
            BY <1>1, <1>4, <3>1, <5>1, <6>3, <6>4, <6>5 DEF Sound, After, TypeOK
          <6> QED BY <6>6
        <5> QED BY <5>1, <5>2, <5>3 DEF Kept
      <4> QED BY <4>1, <4>2
    <3>3. Met(d)' => Kept(jobs[d].lease)'
      <4>1. Kept(jobs[d].lease) => \A r \in Calls : ~Releases(r, jobs[d].lease)'
        BY <1>11, <3>1 DEF Kept, Releases
      <4> QED BY <3>1, <3>2, <4>1 DEF Kept
    <3>4. jobs'[d].lease \in leases' \/ holder'[jobs'[d].lease] = None
      BY <1>6, <3>1 DEF Sound
    <3>5. After(d)'
      BY <1>4, <3>1 DEF After, Sound
    <3> QED BY <3>3, <3>4, <3>5 DEF Sound
  <2> QED BY <2>2, <2>3
<1>13. Obeyed'
  <2> SUFFICES ASSUME NEW d \in Calls, jobs'[d].kind = "release", jobs'[d].answer = "ok"
               PROVE  holder'[jobs'[d].lease] = None
    BY DEF Obeyed
  <2>1. jobs[d].lease \in Leases
    BY <1>9, LeaseOf
  <2>2. CASE d = c
    BY <1>4, <1>6, <1>8, <1>9, <2>1, <2>2, NoneAssumption
  <2>3. CASE d # c
    BY <1>1, <1>5, <1>6, <2>1, <2>3 DEF Obeyed
  <2> QED BY <2>2, <2>3
<1>14. Agreement'
  <2> SUFFICES ASSUME Undisturbed
               PROVE  Agreement'
    BY DEF Agreement, Undisturbed, shared
  <2>1. c # None /\ c \in Calls
    BY <1>1, <1>2, <1>4 DEF Agreement
  <2>2. \A i \in DOMAIN up' : up'[i].call # None
    BY <1>1, <1>4 DEF Agreement
  <2>3. ASSUME NEW d \in Calls
        PROVE  /\ Lets(jobs'[d]) => holder'[jobs'[d].lease] = None
               /\ Holds(jobs'[d]) => holder'[jobs'[d].lease] # None
               /\ jobs'[d].kind = "open" /\ jobs'[d].at = "return" => jobs'[d].lease \in leases'
    <3>1. CASE d = c
      <4>1. Lets(jobs'[d]) => m.what = "release" /\ l \in Leases /\ jobs'[d].lease = l
        BY <1>4, <1>8, <1>9, <2>1, <3>1 DEF Lets
      <4>2. Holds(jobs'[d]) => m.what = "read" /\ jobs[d].at = "page" /\ jobs'[d].lease = l /\ l \in Leases
        BY <1>4, <1>5, <1>8, <1>9, <2>1, <3>1 DEF Holds, AtClient
      <4>3. Holds(jobs'[d]) => Holds(jobs[d]) /\ holder'[l] = holder[l]
        BY <1>6, <1>9, <4>2 DEF Holds
      <4>4. jobs'[d].at # "return"
        BY <1>8, <1>9, <2>1, <3>1 DEF AtClient
      <4> QED BY <1>1, <1>4, <1>6, <1>9, <2>1, <3>1, <4>1, <4>2, <4>3, <4>4 DEF Agreement
    <3>2. CASE d # c
      <4>1. jobs'[d] = jobs[d]
        BY <1>5, <3>2
      <4>2. Lets(jobs[d]) \/ Holds(jobs[d]) => jobs[d].lease \in Leases
        BY LeaseOf
      <4>3. Holds(jobs[d]) => jobs[d].lease # l
        BY <1>1, <1>4, <2>1, <3>2, <4>2, NoneAssumption DEF Identities, Fresh, Holds
      <4> QED BY <1>1, <1>6, <4>1, <4>2, <4>3 DEF Agreement
    <3> QED BY <3>1, <3>2
  <2>4. ASSUME NEW k \in leases, holder'[k] = None
        PROVE  \E r \in Calls : Frees(r, k)'
    <3>1. CASE holder[k] = None
      <4>1. PICK r \in Calls : Frees(r, k)
        BY <1>1, <2>4, <3>1 DEF Agreement
      <4>2. r # c
        BY <1>8, <2>1, <4>1 DEF Frees, None
      <4>3. Frees(r, k)'
        BY <1>5, <4>1, <4>2 DEF Frees
      <4> QED BY <4>3
    <3>2. CASE holder[k] # None
      <4>1. k = l /\ m.what = "release" /\ answer = "ok" /\ k \in Leases
        BY <1>1, <1>6, <2>4, <3>2 DEF TypeOK
      <4>2. jobs[c].kind = "release"
        <5>1. ~(jobs[c].kind = "open" /\ jobs[c].at # "return")
          BY <1>1, <1>4, <2>1, <2>4, <4>1, NoneAssumption DEF Identities, Fresh
        <5>2. jobs[c].kind = "release" \/ jobs[c].at = "giveUp"
          BY <1>8, <2>1, <4>1
        <5>3. jobs[c].at = "giveUp" => jobs[c].kind = "open"
          BY <2>1, CallTypes DEF ShapeOf, Job, Idle
        <5> QED BY <5>1, <5>2, <5>3
      <4>3. Frees(c, k)'
        BY <1>4, <1>5, <2>1, <4>1, <4>2 DEF Frees
      <4> QED BY <2>1, <4>3
    <3> QED BY <3>1, <3>2
  <2>5. ASSUME NEW k \in Leases \ leases, holder'[k] # None
        PROVE  \E d \in Calls : Handles(d, k)'
    <3>1. k \in OpenThere \ leases
      BY <1>6, <2>5 DEF OpenThere
    <3>2. PICK d \in Calls : Handles(d, k)
      BY <1>1, <3>1 DEF Agreement
    <3>3. Handles(d, k)'
      BY <1>9, <3>2 DEF Handles
    <3> QED BY <3>3
  <2> QED BY <2>2, <2>3, <2>4, <2>5 DEF Agreement, OpenThere
<1> QED BY <1>7, <1>10, <1>12, <1>13, <1>14 DEF Leased

LEMMA LeasedClientHandles ==
  ASSUME IInv, Leased, ClientHandles
  PROVE  Leased'
<1> DEFINE m == Head(up)
<1>1. /\ up # <<>> /\ up' = Tail(up)
      /\ UNCHANGED <<shared, leases, files, known, requested, budget>>
  BY DEF ClientHandles
<1>2. CASE m.what = "open" /\ Accepts(m.turn)
  <2>1. drawn \subseteq Leases /\ drawn # Leases
    BY <1>2 DEF IInv, TypeOK, Accepts
  <2> DEFINE l == CHOOSE l \in Leases : l \notin drawn
  <2>2. l \in Leases /\ l \notin drawn
    BY <2>1
  <2>3. drawn' = drawn \cup {l} /\ holder' = [holder EXCEPT ![l] = m.turn] /\ Opens(m.call, l)
    BY <1>2 DEF ClientHandles
  <2> HIDE DEF l
  <2> QED BY <1>1, <1>2, <2>2, <2>3, LeasedDrawn
<1>3. CASE m.what = "open" /\ ~Accepts(m.turn)
  <2>1. Answer(m.call, "error") /\ UNCHANGED <<drawn, holder>>
    BY <1>3 DEF ClientHandles
  <2> QED BY <1>1, <1>3, <2>1, LeasedAnswered
<1>4. CASE m.what # "open"
  <2> DEFINE answer == IF holder[m.lease] # None THEN "ok" ELSE "error"
  <2>1. /\ Answer(m.call, answer) /\ UNCHANGED drawn
        /\ holder' = IF m.what = "release" THEN [holder EXCEPT ![m.lease] = None] ELSE holder
    BY <1>4 DEF ClientHandles
  <2>2. answer \in {"ok", "error"}
    OBVIOUS
  <2>3. answer = IF holder[m.lease] # None THEN "ok" ELSE "error"
    OBVIOUS
  <2> HIDE DEF answer
  <2> QED BY <1>1, <1>4, <2>1, <2>2, <2>3, LeasedAnswered
<1> QED BY <1>2, <1>3, <1>4

-----------------------------------------------------------------------------
\* A disturbance gives no call a lease, no release an answer that is not an
\* error, and no request another place.
LEMMA DisturbedLeases ==
  ASSUME IInv, Leased, Disturbed, UNCHANGED <<known, drawn>>, leases' \subseteq leases,
         bound' = FALSE \/ UNCHANGED <<bound, shape, leases, mats, holder>>,
         \A l \in Leases : holder'[l] = holder[l] \/ holder'[l] = None,
         \A i \in DOMAIN up' : /\ i \in DOMAIN up /\ up'[i].what = up[i].what /\ up'[i].lease = up[i].lease
                               /\ up'[i].call = up[i].call \/ up'[i].call = None
  PROVE  Identities' /\ Scoped' /\ Obeyed'
<1>1. TypeOK /\ Identities /\ Scoped /\ Obeyed
  BY DEF IInv, Leased
<1>2. \A c \in Calls :
        /\ jobs'[c].at = jobs[c].at /\ jobs'[c].kind = jobs[c].kind /\ (jobs[c].cut => jobs'[c].cut)
        /\ \/ jobs'[c].lease = jobs[c].lease /\ jobs'[c].answer = jobs[c].answer
           \/ /\ jobs'[c].answer = "error"
              /\ jobs'[c].lease = IF jobs[c].kind = "open" /\ jobs[c].at = "ask" THEN None ELSE jobs[c].lease
  BY DEF Disturbed, Disturbs
<1>3. \A c \in Calls : jobs'[c].lease = jobs[c].lease \/ jobs'[c].lease = None
  BY <1>2
<1>4. ASSUME NEW c \in Calls
      PROVE  Knows(c)' /\ Fresh(c)'
  <2>1. Knows(c) /\ Fresh(c)
    BY <1>1 DEF Identities
  <2>2. Knows(c)'
    BY <1>2, <2>1 DEF Knows
  <2>3. Fresh(c)'
    BY <1>2, <1>3, <2>1 DEF Fresh
  <2> QED BY <2>2, <2>3
<1>5. Identities'
  <2>1. \A l \in Leases : holder'[l] # None => l \in drawn'
    BY <1>1 DEF Identities
  <2> QED BY <1>1, <1>4, <2>1 DEF Identities
<1>6. \A r \in Calls, l \in Leases : Releases(r, l)' => Releases(r, l)
  BY <1>2 DEF Releases
<1>7. Scoped'
  <2> SUFFICES ASSUME bound', ~Empty, ~Empty'
               PROVE  (\A d \in mats' : Kept(d[2])') /\ \A c \in Calls : Fills(c)' => Sound(c)'
    BY DEF Scoped, Empty
  <2>1. UNCHANGED <<bound, shape, leases, mats, holder>>
    OBVIOUS
  <2>2. (\A d \in mats : Kept(d[2])) /\ \A c \in Calls : Fills(c) => Sound(c)
    BY <1>1, <2>1 DEF Scoped
  <2>3. \A d \in mats' : Kept(d[2])'
    <3>1. \A d \in mats : d[2] \in Leases
      BY <1>1 DEF TypeOK
    <3> QED BY <1>6, <2>1, <2>2, <3>1 DEF Kept
  <2>4. ASSUME NEW c \in Calls, Fills(c)'
        PROVE  Sound(c)'
    <3>1. Fills(c) /\ Sound(c) /\ jobs'[c].lease = jobs[c].lease /\ jobs[c].lease \in Leases
      BY <1>2, <2>2, <2>4, LeaseOf DEF Fills
    <3>2. Met(c)' => Met(c)
      BY <1>2 DEF Met
    <3>3. Kept(jobs[c].lease) => Kept(jobs[c].lease)'
      <4> SUFFICES ASSUME Kept(jobs[c].lease)
                   PROVE  jobs'[c].lease \in leases' /\ \A r \in Calls : ~Releases(r, jobs[c].lease)'
        BY DEF Kept
      <4>1. PICK l \in Leases : l = jobs[c].lease
        BY <3>1
      <4>2. \A r \in Calls : ~Releases(r, l)'
        BY <1>6, <4>1 DEF Kept
      <4> QED BY <2>1, <3>1, <4>1, <4>2 DEF Kept, Releases
    <3>4. After(c)'
      <4> SUFFICES ASSUME NEW i \in DOMAIN up', NEW j \in DOMAIN up', up'[i].call = c, up'[j].call # None,
                          up'[j].what = "release", up'[j].lease = jobs'[c].lease
                   PROVE  j < i
        BY DEF After
      <4>1. c # None
        BY NoneAssumption
      <4> QED BY <3>1, <4>1 DEF Sound, After
    <3> QED BY <2>1, <3>1, <3>2, <3>3, <3>4 DEF Sound
  <2> QED BY <2>3, <2>4
<1>8. Obeyed'
  <2> SUFFICES ASSUME NEW r \in Calls, jobs'[r].kind = "release", jobs'[r].answer = "ok"
               PROVE  holder'[jobs'[r].lease] = None
    BY DEF Obeyed
  <2>1. /\ jobs[r].kind = "release" /\ jobs[r].answer = "ok" /\ jobs'[r].lease = jobs[r].lease
        /\ jobs[r].lease \in Leases
    BY <1>2, LeaseOf
  <2> QED BY <1>1, <2>1 DEF Obeyed
<1> QED BY <1>5, <1>7, <1>8

LEMMA LeasedCutOff ==
  ASSUME IInv, Leased, NEW c \in Calls, NEW gone \in SUBSET {d \in Calls : Asks(d)}, gone \subseteq {c},
         transport = "remote" => gone = {}, jobs[c].kind # None, CutOff(c, gone)
  PROVE  Leased'
<1>1. up' = Orphaned(gone) /\ UNCHANGED <<shared, leases, files, known, client>>
  BY DEF CutOff
<1>2. PICK received \in SUBSET (Answered \cap gone) :
        jobs' = [Rejected(gone, received) EXCEPT ![c].cut = TRUE]
  BY DEF CutOff
<1> DEFINE rejected == Rejected(gone, received)
<1>4. \A d \in Calls : /\ Disturbs(d, rejected[d])
                       /\ d \in gone \ received => rejected[d].answer = "error"
                       /\ d \notin gone \ received => rejected[d] = jobs[d]
  BY RejectedFacts DEF IInv
<1>5. /\ DOMAIN rejected = Calls
      /\ jobs' = [rejected EXCEPT ![c] = [rejected[c] EXCEPT !.cut = TRUE]]
  BY <1>2 DEF Rejected
<1> HIDE DEF rejected
<1>6. /\ \A d \in Calls : jobs'[d] = IF d = c THEN [rejected[c] EXCEPT !.cut = TRUE] ELSE rejected[d]
      /\ DOMAIN jobs' = Calls /\ jobs' = [d \in Calls |-> jobs'[d]]
  BY <1>5
<1>7. ASSUME NEW d \in Calls
      PROVE  /\ Disturbs(d, jobs'[d])
             /\ jobs'[d].answer = rejected[d].answer /\ jobs'[d].lease = rejected[d].lease
             /\ jobs'[d].kind = jobs[d].kind /\ jobs'[d].at = jobs[d].at
  <2>1. CASE d = c
    <3>1. rejected[c] \in Job
      BY <1>4 DEF Disturbs
    <3>2. /\ [rejected[c] EXCEPT !.cut = TRUE].lease = rejected[c].lease
      BY <3>1 DEF Job
    <3>3. jobs'[c] = [rejected[c] EXCEPT !.cut = TRUE]
      BY <1>6
    <3>4. Disturbs(c, jobs'[c]) /\ jobs'[c].answer = rejected[c].answer
      BY <1>4, <3>3, CutFacts
    <3> QED BY <2>1, <3>2, <3>3, <3>4 DEF Disturbs
  <2>2. CASE d # c
    BY <1>4, <1>6, <2>2 DEF Disturbs
  <2> QED BY <2>1, <2>2
<1>8. Disturbed
  <2>1. \A d \in Calls : jobs'[d] \in Job
    BY <1>7 DEF Disturbs
  <2> QED BY <1>6, <1>7, <2>1 DEF Disturbed
<1>9. /\ DOMAIN up' = DOMAIN up
      /\ \A i \in DOMAIN up : /\ up'[i].what = up[i].what /\ up'[i].lease = up[i].lease
                              /\ up'[i].turn = up[i].turn /\ up[i].call \in Calls \cup {None}
                              /\ up'[i].call = IF up[i].call \in gone THEN None ELSE up[i].call
  BY <1>1, OrphanedFacts, CallsOfMessages DEF IInv
<1>10. \A d \in Calls : d \notin gone =>
         /\ jobs'[d].answer = jobs[d].answer /\ jobs'[d].lease = jobs[d].lease
         /\ jobs'[d].kind = jobs[d].kind /\ jobs'[d].at = jobs[d].at
  BY <1>4, <1>7
<1>11. Requests /\ Agreement
  BY DEF Leased
<1>12. Requests'
  <2>1. ASSUME NEW d \in Calls, Awaits(d)'
        PROVE  \E i \in DOMAIN up' : up'[i].call = d
    <3>1. d \notin gone
      <4> SUFFICES ASSUME d \in gone
                   PROVE  FALSE
        OBVIOUS
      <4>1. CASE d \in received
        BY <1>4, <1>7, <2>1, <4>1 DEF Answered, Awaits
      <4>2. CASE d \notin received
        BY <1>4, <1>7, <2>1, <4>2 DEF Awaits, None
      <4> QED BY <4>1, <4>2
    <3>2. Awaits(d)
      BY <1>10, <2>1, <3>1 DEF Awaits
    <3> QED BY <1>9, <1>11, <3>1, <3>2 DEF Requests
  <2>2. ASSUME NEW i \in DOMAIN up', up'[i].call # None
        PROVE  up'[i].lease = jobs'[up'[i].call].lease /\ up'[i].what = WhatOf(jobs'[up'[i].call])
    <3>1. i \in DOMAIN up /\ up'[i].call = up[i].call /\ up[i].call \in Calls \ gone
      BY <1>9, <2>2
    <3>2. up[i].lease = jobs[up[i].call].lease /\ up[i].what = WhatOf(jobs[up[i].call])
      BY <1>11, <2>2, <3>1 DEF Requests
    <3> QED BY <1>9, <1>10, <3>1, <3>2 DEF WhatOf
  <2>3. \A i \in DOMAIN up' : up'[i].what = "open" => up'[i].turn # None
    BY <1>9, <1>11 DEF Requests
  <2> QED BY <2>1, <2>2, <2>3 DEF Requests
<1>13. Agreement'
  <2> SUFFICES ASSUME Undisturbed
               PROVE  Agreement'
    BY <1>1 DEF Agreement, Undisturbed, shared
  <2>1. gone = {}
    BY DEF Undisturbed
  <2>2. \A i \in DOMAIN up' : up'[i].call # None
    BY <1>9, <1>11, <2>1 DEF Agreement
  <2>3. leases' = leases /\ holder' = holder
    BY <1>1 DEF client
  <2>4. \A d \in Calls : /\ Lets(jobs'[d]) <=> Lets(jobs[d])
                         /\ Holds(jobs'[d]) <=> Holds(jobs[d])
                         /\ jobs'[d].lease = jobs[d].lease
                         /\ jobs'[d].kind = jobs[d].kind /\ jobs'[d].at = jobs[d].at
                         /\ \A l : Frees(d, l)' <=> Frees(d, l)
                         /\ \A l : Handles(d, l)' <=> Handles(d, l)
    BY <1>10, <2>1 DEF Lets, Holds, Frees, Handles
  <2> HIDE DEF Lets, Holds, Frees, Handles
  <2>5. ASSUME NEW l \in leases, holder[l] = None
        PROVE  \E r \in Calls : Frees(r, l)'
    BY <1>11, <2>4, <2>5 DEF Agreement
  <2>6. ASSUME NEW l \in Leases \ leases, holder[l] # None
        PROVE  \E d \in Calls : Handles(d, l)'
    <3>1. l \in OpenThere \ leases
      BY <2>6 DEF OpenThere
    <3> QED BY <1>11, <2>4, <3>1 DEF Agreement
  <2> QED BY <1>11, <2>2, <2>3, <2>4, <2>5, <2>6 DEF Agreement, OpenThere
<1>14. Identities' /\ Scoped' /\ Obeyed'
  BY <1>1, <1>8, <1>9, DisturbedLeases DEF shared, files, client
<1> QED BY <1>12, <1>13, <1>14 DEF Leased

LEMMA LeasedCut ==
  ASSUME IInv, Leased, NEW c \in Calls, Cut(c) \/ CancellationAnswered(c)
  PROVE  Leased'
BY CutIsCutOff, LeasedCutOff

\* A connection that is interrupted or ends leaves no request without an answer.
LEMMA LeasedLost ==
  ASSUME IInv, Leased, NEW received \in SUBSET Answered, Disturbed, up' = <<>>, ~Undisturbed',
         \A c \in Calls : jobs'[c].answer = Rejected({d \in Calls : Asks(d)}, received)[c].answer,
         UNCHANGED <<known, drawn>>, leases' \subseteq leases,
         bound' = FALSE \/ UNCHANGED <<bound, shape, leases, mats, holder>>,
         \A l \in Leases : holder'[l] = holder[l] \/ holder'[l] = None
  PROVE  Leased'
<1>1. \A c \in Calls : ~Awaits(c)'
  <2> SUFFICES ASSUME NEW c \in Calls, Awaits(c)'
               PROVE  FALSE
    OBVIOUS
  <2> DEFINE gone == {d \in Calls : Asks(d)}
             job == Rejected(gone, received)[c]
  <2>1. c \in gone /\ jobs'[c].answer = None
    BY DEF Awaits, Asks, Disturbed, Disturbs
  <2>2. c \in gone \ received => job.answer = "error"
    BY RejectedFacts DEF IInv
  <2>3. c \notin gone \ received => job = jobs[c]
    BY RejectedFacts DEF IInv
  <2>4. c \in received => jobs[c].answer # None
    BY DEF Answered
  <2>5. jobs'[c].answer = job.answer
    OBVIOUS
  <2> HIDE DEF job, gone
  <2> QED BY <2>1, <2>2, <2>3, <2>4, <2>5 DEF None
<1>2. Requests'
  BY <1>1 DEF Requests
<1>3. Agreement'
  BY DEF Agreement
<1>4. \A i \in DOMAIN up' : FALSE
  OBVIOUS
<1>5. Identities' /\ Scoped' /\ Obeyed'
  BY <1>4, DisturbedLeases
<1> QED BY <1>2, <1>3, <1>5 DEF Leased

LEMMA LeasedInterrupt ==
  ASSUME IInv, Leased, Interrupt
  PROVE  Leased'
<1>1. PICK received \in SUBSET Answered : jobs' = Rejected({c \in Calls : Asks(c)}, received)
  BY DEF Interrupt
<1>2. \A c \in Calls : Disturbs(c, jobs'[c])
  BY <1>1, RejectedFacts DEF IInv
<1>3. Disturbed
  <2>1. \A c \in Calls : jobs'[c] \in Job
    BY <1>2 DEF Disturbs
  <2>2. jobs' = [c \in Calls |-> jobs'[c]]
    BY <1>1 DEF Rejected
  <2> QED BY <1>2, <2>1, <2>2 DEF Disturbed
<1>4. /\ up' = <<>> /\ interrupted' = TRUE
      /\ UNCHANGED <<transport, shape, bound, disposed, leases, files, known, client>>
  BY DEF Interrupt
<1>5. ~Undisturbed'
  BY <1>4 DEF Undisturbed
<1>6. \A c \in Calls : jobs'[c].answer = Rejected({d \in Calls : Asks(d)}, received)[c].answer
  BY <1>1
<1> QED BY <1>3, <1>4, <1>5, <1>6, LeasedLost DEF files, client

LEMMA LeasedEnds ==
  ASSUME IInv, Leased, Ends
  PROVE  Leased'
<1>1. /\ bound' = FALSE /\ leases' = {} /\ up' = <<>> /\ holder' = [l \in Leases |-> None]
      /\ UNCHANGED <<known, drawn>>
  BY DEF Ends
<1>2. PICK received \in SUBSET Answered :
        jobs' = [c \in Calls |-> IF jobs[c].kind \in {None, "remove"} THEN jobs[c]
                                 ELSE [Rejected({d \in Calls : Asks(d)}, received)[c] EXCEPT !.cut = TRUE]]
  BY DEF Ends
<1>3. Disturbed
  BY EndsFacts
<1>4. ASSUME NEW c \in Calls
      PROVE  jobs'[c].answer = Rejected({d \in Calls : Asks(d)}, received)[c].answer
  <2> DEFINE gone == {d \in Calls : Asks(d)}
             job == Rejected(gone, received)[c]
  <2>1. Disturbs(c, job) /\ (c \notin gone \ received => job = jobs[c])
    BY RejectedFacts DEF IInv
  <2>2. jobs[c].kind \in {None, "remove"} => c \notin gone
    <3>1. jobs[c] \in Job /\ ShapeOf(jobs[c], c)
      BY CallTypes
    <3> QED BY <3>1 DEF ShapeOf, Asks, AtClient, Idle
  <2>3. jobs'[c] = IF jobs[c].kind \in {None, "remove"} THEN jobs[c] ELSE [job EXCEPT !.cut = TRUE]
    BY <1>2
  <2>4. [job EXCEPT !.cut = TRUE].answer = job.answer
    BY <2>1 DEF Disturbs, Job
  <2>5. jobs'[c].answer = job.answer
    <3> HIDE DEF job, gone
    <3> QED BY <2>1, <2>2, <2>3, <2>4
  <2> QED BY <2>5
<1>5. ~Undisturbed'
  BY <1>1 DEF Undisturbed
<1> QED BY <1>1, <1>2, <1>3, <1>4, <1>5, LeasedLost

LEMMA LeasedInit ==
  ASSUME Init
  PROVE  Leased
<1>1. /\ \A c \in Calls : jobs[c] = Idle
      /\ leases = {} /\ mats = {} /\ known = {} /\ drawn = {} /\ up = <<>> /\ holder = [l \in Leases |-> None]
  BY DEF Init
<1>2. Requests
  BY <1>1 DEF Requests, Awaits, Idle, AtClient
<1>3. Identities
  BY <1>1 DEF Identities, Knows, Fresh, Idle, None
<1>4. Scoped
  BY <1>1 DEF Scoped, Fills, Idle, None
<1>5. Obeyed
  BY <1>1 DEF Obeyed, Idle, None
<1>6. Agreement
  BY <1>1 DEF Agreement, Lets, Holds, OpenThere, Idle, None
<1> QED BY <1>2, <1>3, <1>4, <1>5, <1>6 DEF Leased

LEMMA LeasedKept ==
  ASSUME IInv, Leased, [Next]_vars
  PROVE  Leased'
<1>1. ASSUME NEW c \in Calls, Continue(c)
      PROVE  Leased'
  BY <1>1, LeasedOpened, LeasedManifestRead, LeasedOthersEnd, LeasedStaged, LeasedFilled, LeasedRenamed,
     LeasedReleased DEF Continue
<1>2. ASSUME NEW c \in Calls, NEW l \in Leases, Read(c, l) \/ Materialize(c, l) \/ Release(c, l)
      PROVE  Leased'
  BY <1>2, LeasedRead, LeasedMaterialize, LeasedRelease
<1>3. CASE PublicationReleased \/ UNCHANGED vars
  <2>1. UNCHANGED <<shared, jobs, leases, files, known, up, holder, drawn>>
    BY <1>3 DEF PublicationReleased, vars, client
  <2>2. Requests' /\ Identities' /\ Obeyed'
    BY <2>1 DEF Leased, Requests, Awaits, Identities, Knows, Fresh, Obeyed
  <2>3. Scoped'
    BY <2>1 DEF Leased, Scoped, Empty, Kept, Releases, Fills, Sound, Met, After, shared, files
  <2>4. Agreement'
    BY <2>1 DEF Leased, Agreement, Undisturbed, Frees, Handles, OpenThere, shared
  <2> QED BY <2>2, <2>3, <2>4 DEF Leased
<1> QED BY <1>1, <1>2, <1>3, LeasedCut, LeasedOpen, LeasedReleaseMaterialization, LeasedClientHandles,
           LeasedInterrupt, LeasedEnds DEF Next, Unbind, Dispose

\* A directory that is recorded has its lease, as long as the client is
\* connected and the content has bytes to read: no order of releases, cancelled
\* calls and late answers leaves a file behind its lease.
THEOREM FilesKeepTheirLease == Spec => []FilesHaveTheirLease
<1>1. Init => IInv /\ Leased
  BY InitHolds, LeasedInit
<1>2. IInv /\ Leased /\ [Next]_vars => IInv' /\ Leased'
  BY StepKeeps, LeasedKept
<1>3. IInv /\ Leased => FilesHaveTheirLease
  BY DEF Leased, Scoped, Kept, FilesHaveTheirLease
<1> QED BY <1>1, <1>2, <1>3, PTL DEF Spec

\* Over a connection that waits for its answers and is not interrupted, the
\* Host and the client have the same leases but for those that a call of the
\* Host is opening or releasing, whatever is cancelled.
THEOREM BothSidesAgree == Spec => []LeasesAgree
<1>1. Init => IInv /\ Leased
  BY InitHolds, LeasedInit
<1>2. IInv /\ Leased /\ [Next]_vars => IInv' /\ Leased'
  BY StepKeeps, LeasedKept
<1>3. IInv /\ Leased => LeasesAgree
  <2> SUFFICES ASSUME IInv, Agreement
               PROVE  LeasesAgree
    BY DEF Leased
  <2>1. leases \subseteq Leases
    BY DEF IInv, TypeOK
  <2> QED BY <2>1 DEF Agreement, Frees, Handles, OpenThere, LeasesAgree
<1> QED BY <1>1, <1>2, <1>3, PTL DEF Spec
=============================================================================
