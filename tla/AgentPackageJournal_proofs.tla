---------------------- MODULE AgentPackageJournal_proofs ----------------------
(***************************************************************************)
(* The journal of package operations can be restored, changes packages     *)
(* atomically, keeps the Agent in use alive and leaves nothing behind, for *)
(* any number of operations, revisions, crashes and failures.              *)
(*                                                                         *)
(* The first half is about what is stored (IInv).  The disk is what the    *)
(* process has in memory, except for the states whose commit was refused   *)
(* and which may have got there nevertheless.  Unless an operation has     *)
(* overtaken one that was left open, every state the disk may hold has one *)
(* open transition at most, which starts from or has arrived at what is    *)
(* installed, and leads on from the state that is there by one step of     *)
(* PackageCatalog or none.                                                 *)
(*                                                                         *)
(* The second half is about what a process has made of it (Kept): while no *)
(* operation has overtaken another, the activations of the registry, the   *)
(* Agent and the gate of the Host and the record of the operation agree.   *)
(* The restart establishes it anew, from one open transition at most.      *)
(***************************************************************************)
EXTENDS AgentPackageJournal, SequenceTheorems, TLAPS

Steps ==
  {"idle", "execute", "prepare", "record", "acquire", "drain", "commit", "recordCommitted",
   "catalog", "complete", "restore", "retire", "succeed", "rollback", "fail"}

\* What of the types the journal needs; the disk is what the process has in memory.
Types ==
  /\ request \in [Ops -> Requests \cup {Absent}]
  /\ disk \in States /\ journal = disk /\ refused \subseteq States
  /\ attempted \in [Ops -> {"no", "new", "known"}] /\ retry \in [Ops -> BOOLEAN]
  /\ tail \in Seq(Ops)
  /\ at \in Steps /\ (at # "idle" => tail # <<>>)
  /\ overtaken \in BOOLEAN
  /\ crashes \in 0..MaxCrashes /\ failures \in 0..MaxFailures

Candidates == {disk} \cup refused

\* An operation that has a record, queued or attempted has been asked for.
Asked ==
  /\ \A o \in Ops : Known(o) => request[o] # Absent
  /\ \A state \in Candidates : \A o \in Ops : state.records[o].status # "absent" => Known(o)
  /\ \A i \in DOMAIN tail : Known(tail[i])

Attempts ==
  /\ \A o \in Ops : attempted[o] = "new" => journal.records[o].status = "absent"
  /\ \A o \in Ops : attempted[o] = "known" => refused # {}
  /\ at # "idle" => attempted[Head1] # "new"

\* The phase in which the record of the operation that runs is at each step.
PhaseAt(step) ==
  CASE step \in {"prepare", "record"} -> {"recorded"}
    [] step = "recordCommitted" -> {"activationPrepared"}
    [] step \in {"acquire", "drain", "commit"} -> {"activationPrepared", "activationCommitted"}
    [] step = "catalog" -> {"activationCommitted"}
    [] step \in {"complete", "restore", "retire", "succeed"} -> {"catalogCommitted"}
    [] step \in {"rollback", "fail"} -> Phases \ {"catalogCommitted"}
    [] OTHER -> Phases

Progress ==
  at # "idle" /\ refused = {} =>
    /\ journal.records[Head1].status = "pending"
    /\ journal.records[Head1].phase \in PhaseAt(at)
    /\ at \in {"prepare", "record"} => Catalog!Applicable(request[Head1], journal.installed)

\* One transition is open at most; it starts from, or has arrived at, what is installed.
OneOpen(state) ==
  \A x, y \in Ops : Unresolved(state.records[x]) /\ Unresolved(state.records[y]) => x = y
Sound(state) ==
  /\ OneOpen(state) /\ RestoreAccepts(state)
  /\ \A o \in Open(state) : Catalog!Applicable(request[o], state.records[o].previous)

\* A stored state as a PackageCatalog sees it.
InstalledIn(state) ==
  LET open == {o \in Ops : Unresolved(state.records[o]) /\ state.records[o].phase = "catalogCommitted"}
  IN  IF open = {} THEN state.installed ELSE state.records[CHOOSE o \in open : TRUE].previous
OutcomeIn(state) ==
  [o \in Ops |-> IF state.records[o].status \in {"succeeded", "failed"} THEN state.records[o].status ELSE "open"]

\* To write a state is to leave the PackageCatalog alone, or one of its steps.
Leads(state) ==
  \/ InstalledIn(state) = InstalledIn(disk) /\ OutcomeIn(state) = OutcomeIn(disk)
  \/ \E o \in Ops :
       /\ request[o] # Absent /\ OutcomeIn(disk)[o] = "open"
       /\ \/ /\ Catalog!Applicable(request[o], InstalledIn(disk))
             /\ InstalledIn(state) = request[o].target
             /\ OutcomeIn(state) = [OutcomeIn(disk) EXCEPT ![o] = "succeeded"]
          \/ /\ InstalledIn(state) = InstalledIn(disk)
             /\ OutcomeIn(state) = [OutcomeIn(disk) EXCEPT ![o] = "failed"]

\* A step that asks for nothing writes a state that leads on from the one before.
Advances == request' = request /\ (disk' = disk \/ (~overtaken' => Leads(disk')))

Restorable ==
  ~overtaken =>
    /\ \A state \in Candidates : Sound(state)
    /\ \A state \in refused : Leads(state)

IInv == Types /\ Asked /\ Attempts /\ Progress /\ Restorable

-----------------------------------------------------------------------------
(* Records and stored states. *)

Record == [status : {"absent", "pending", "again", "failed", "succeeded"}, phase : Phases, previous : Targets]

LEMMA RecordsAreTyped ==
  ASSUME Types, NEW o \in Ops
  PROVE  /\ journal.records[o] \in Record /\ Rec(o) \in Record
         /\ request[o] \in Requests \cup {Absent} /\ journal.installed \in Targets
BY DEF Types, States, Record, Rec, Pending, NoRecord, Phases, Targets

LEMMA TargetIsTyped ==
  ASSUME Types, NEW o \in Ops, request[o] # Absent
  PROVE  request[o] \in Requests /\ Target(o) \in Targets
BY DEF Types, Target, Targets, Requests, Catalog!Requests

\* A state in which one record differs from the journal, and perhaps what is installed.
Changes(o, state) ==
  /\ state \in States
  /\ \A x \in Ops \ {o} : state.records[x] = journal.records[x]

LEMMA WithRecordChanges ==
  ASSUME Types, NEW o \in Ops, NEW r \in Record, NEW i \in Targets
  PROVE  /\ Changes(o, WithRecord(o, r))
         /\ WithRecord(o, r).records[o] = r /\ WithRecord(o, r).installed = journal.installed
         /\ Changes(o, [WithRecord(o, r) EXCEPT !.installed = i])
         /\ [WithRecord(o, r) EXCEPT !.installed = i].records[o] = r
         /\ [WithRecord(o, r) EXCEPT !.installed = i].installed = i
BY DEF Types, States, Record, WithRecord, Changes

\* Only the record of o is unresolved, if any is.
Only(o, state) == \A x \in Ops \ {o} : ~Unresolved(state.records[x])

LEMMA OnlyInChange ==
  ASSUME Types, NEW o \in Ops, NEW state, Changes(o, state), Only(o, journal)
  PROVE  Only(o, state)
BY DEF Changes, Only

LEMMA InstalledInOne ==
  ASSUME NEW o \in Ops, NEW state, Only(o, state)
  PROVE  InstalledIn(state) =
           IF Unresolved(state.records[o]) /\ state.records[o].phase = "catalogCommitted"
           THEN state.records[o].previous ELSE state.installed
<1> DEFINE open == {x \in Ops : Unresolved(state.records[x]) /\ state.records[x].phase = "catalogCommitted"}
<1>1. CASE Unresolved(state.records[o]) /\ state.records[o].phase = "catalogCommitted"
  <2>1. open = {o}
    BY <1>1 DEF Only
  <2>2. (CHOOSE x \in open : TRUE) = o
    BY <2>1
  <2> QED BY <1>1, <2>1, <2>2 DEF InstalledIn
<1>2. CASE ~(Unresolved(state.records[o]) /\ state.records[o].phase = "catalogCommitted")
  <2>1. open = {}
    BY <1>2 DEF Only
  <2> QED BY <1>2, <2>1 DEF InstalledIn
<1> QED BY <1>1, <1>2

LEMMA SoundIfOne ==
  ASSUME NEW o \in Ops, NEW state, Only(o, state),
         Unresolved(state.records[o]) /\ state.records[o].phase # "recorded" =>
           /\ state.installed = IF state.records[o].phase = "catalogCommitted" THEN Target(o)
                                ELSE state.records[o].previous
           /\ Catalog!Applicable(request[o], state.records[o].previous)
  PROVE  Sound(state)
BY DEF Only, Sound, OneOpen, RestoreAccepts, Open

LEMMA OutcomeInChange ==
  ASSUME Types, NEW o \in Ops, NEW state, Changes(o, state)
  PROVE  OutcomeIn(state) =
           [OutcomeIn(disk) EXCEPT ![o] = IF state.records[o].status \in {"succeeded", "failed"}
                                          THEN state.records[o].status ELSE "open"]
BY DEF Types, Changes, OutcomeIn

-----------------------------------------------------------------------------
(* What a step does to the stored state. *)

\* One record is written, or its commit is refused.
Writes(o, state) ==
  /\ tail # <<>> /\ o = Head1
  /\ Changes(o, state) /\ state.records[o].status # "absent"
  /\ Commits(state) \/ Refuses(state)
  /\ request' = request /\ crashes' = crashes
  /\ tail' \in {tail, Tail(tail)}
  /\ ~overtaken' => ~overtaken
  /\ ~overtaken' /\ refused = {} => Sound(state) /\ Leads(state)

\* What of the inductive invariant is independent of the step of the operation.
Stored ==
  /\ request \in [Ops -> Requests \cup {Absent}]
  /\ disk \in States /\ journal = disk /\ refused \subseteq States
  /\ tail \in Seq(Ops) /\ crashes \in 0..MaxCrashes /\ failures \in 0..MaxFailures
  /\ Asked /\ Restorable
  /\ \A o \in Ops : attempted[o] = "new" => journal.records[o].status = "absent"
  /\ \A o \in Ops : attempted[o] = "known" => refused # {}

LEMMA HeadIsOp ==
  ASSUME Types, tail # <<>>
  PROVE  Head1 \in Ops /\ Tail(tail) \in Seq(Ops) /\ Head1 = tail[1] /\ 1 \in DOMAIN tail
BY HeadTailProperties, LenProperties, EmptySeq DEF Types, Head1

LEMMA KnownStays ==
  ASSUME Types, NEW o \in Ops, NEW state, Writes(o, state), NEW x \in Ops, Known(x),
         attempted' = attempted \/ (\A y \in Ops \ {o} : attempted'[y] = attempted[y]),
         attempted'[o] # "new", Known(o)'
  PROVE  Known(x)'
BY DEF Writes, Changes, Known, Commits, Refuses, Types

\* Neither depends on what a caller has yet to ask for.
LEMMA SoundStays ==
  ASSUME NEW state, Sound(state), \A x \in Ops : x \in Open(state) => request'[x] = request[x]
  PROVE  Sound(state)'
BY DEF Sound, OneOpen, RestoreAccepts, Open, Target, Unresolved, Catalog!Applicable

LEMMA LeadsStays ==
  ASSUME NEW state, Leads(state), disk' = disk,
         \A x \in Ops : request[x] # Absent => request'[x] = request[x]
  PROVE  Leads(state)'
<1>1. /\ (InstalledIn(state))' = InstalledIn(state) /\ (InstalledIn(disk))' = InstalledIn(disk)
      /\ (OutcomeIn(state))' = OutcomeIn(state) /\ (OutcomeIn(disk))' = OutcomeIn(disk)
  BY DEF InstalledIn, OutcomeIn, Unresolved
<1>2. ASSUME NEW x \in Ops, NEW i, request[x] # Absent, Catalog!Applicable(request[x], i)
      PROVE  Catalog!Applicable(request'[x], i)
  BY <1>2 DEF Catalog!Applicable
<1> QED BY <1>1, <1>2 DEF Leads

LEMMA WriteKeeps ==
  ASSUME IInv, NEW o \in Ops, NEW state, Writes(o, state),
         \A y \in Ops \ {o} : attempted'[y] = attempted[y],
         attempted'[o] # "new", attempted'[o] = "known" => refused' # {}, Known(o), Known(o)'
  PROVE  /\ Stored'
         /\ refused' = {} => refused = {} /\ journal' = state
<1> USE DEF IInv
<1>1. /\ disk' \in States /\ journal' = disk' /\ refused' \subseteq States
      /\ failures' \in 0..MaxFailures /\ Candidates' \subseteq Candidates \cup {state}
      /\ refused' = {} => refused = {} /\ journal' = state
      /\ \A x \in Ops \ {o} : journal'.records[x] = journal.records[x]
  <2>1. CASE Commits(state)
    BY <2>1 DEF Writes, Changes, Types, Commits, Candidates
  <2>2. CASE Refuses(state)
    <3>1. failures' \in 0..MaxFailures
      BY <2>2, BoundsAssumption DEF Types, Refuses, Fails
    <3> QED BY <2>2, <3>1 DEF Writes, Changes, Types, Refuses, Candidates
  <2> QED BY <2>1, <2>2 DEF Writes
<1>2. tail' \in Seq(Ops)
  BY HeadIsOp DEF Writes, Types
<1>3. Asked'
  <2>1. ASSUME NEW x \in Ops PROVE Known(x) <=> Known(x)'
    BY <1>1 DEF Known
  <2>2. ASSUME NEW i \in DOMAIN tail'
        PROVE  tail'[i] \in Ops /\ \E j \in DOMAIN tail : tail'[i] = tail[j]
    <3>1. CASE tail' = tail
      BY <3>1, LenProperties, ElementOfSeq DEF Types
    <3>2. CASE tail' = Tail(tail)
      BY <3>2, HeadTailProperties, LenProperties, EmptySeq, ElementOfSeq DEF Types, Writes
    <3> QED BY <3>1, <3>2 DEF Writes
  <2>3. ASSUME NEW s \in Candidates', NEW x \in Ops, s.records[x].status # "absent" PROVE Known(x)'
    BY <1>1, <2>1, <2>3 DEF Asked, Writes, Changes, Candidates, Types, Known
  <2>4. ASSUME NEW i \in DOMAIN tail' PROVE Known(tail[i])'
    <3>1. PICK j \in DOMAIN tail : tail'[i] = tail[j]
      BY <2>2
    <3>2. Known(tail[j])
      BY DEF Asked
    <3> QED BY <2>1, <2>2, <3>1, <3>2 DEF Known
  <2> QED BY <2>1, <2>3, <2>4 DEF Asked, Writes
<1>4. Restorable'
  <2> SUFFICES ASSUME ~overtaken' PROVE Restorable'
    BY DEF Restorable
  <2>1. CASE refused # {}
    <3>1. UNCHANGED <<disk, refused, journal>>
      BY <2>1 DEF Writes, Commits, Refuses
    <3>2. \A s \in Candidates : Sound(s)'
      BY <3>1, SoundStays DEF Restorable, Writes
    <3>3. \A s \in refused : Leads(s)'
      BY <3>1, LeadsStays DEF Restorable, Writes
    <3> QED BY <3>1, <3>2, <3>3 DEF Restorable, Candidates
  <2>2. CASE refused = {}
    <3>1. ASSUME NEW s \in Candidates' PROVE Sound(s)'
      <4>1. s = state \/ s = disk
        BY <2>2, <1>1 DEF Candidates
      <4>2. Sound(s)
        BY <2>2, <4>1 DEF Restorable, Writes, Candidates
      <4> QED BY <4>2, SoundStays DEF Writes
    <3>2. ASSUME NEW s \in refused' PROVE s = state /\ disk' = disk
      BY <2>2, <3>2 DEF Writes, Commits, Refuses
    <3>3. \A s \in refused' : Leads(s)'
      BY <2>2, <3>2, LeadsStays DEF Writes
    <3> QED BY <3>1, <3>2, <3>3 DEF Restorable, Candidates
  <2> QED BY <2>1, <2>2
<1>5. ASSUME NEW x \in Ops, attempted'[x] = "new" PROVE journal'.records[x].status = "absent"
  BY <1>1, <1>5 DEF Attempts
<1>6. ASSUME NEW x \in Ops, attempted'[x] = "known" PROVE refused' # {}
  BY <1>6, <1>1 DEF Attempts
<1> QED BY <1>1, <1>2, <1>3, <1>4, <1>5, <1>6 DEF Stored, Writes, Types

-----------------------------------------------------------------------------
(* Steps that write nothing, and steps that write the record of the head. *)

Quiet == UNCHANGED <<request, disk, refused, journal, attempted, tail, overtaken, crashes>>

LEMMA QuietStep ==
  ASSUME IInv, Quiet, at' \in Steps, retry' \in [Ops -> BOOLEAN], failures' \in 0..MaxFailures,
         at = "idle" => at' = "idle",
         at' # "idle" /\ refused = {} =>
           /\ journal.records[Head1].phase \in PhaseAt(at')
           /\ at' \in {"prepare", "record"} => Catalog!Applicable(request[Head1], journal.installed)
  PROVE  IInv' /\ Advances
<1> USE DEF IInv, Quiet
<1>1. Types'
  BY DEF Types
<1>2. Asked'
  BY DEF Asked, Candidates, Known
<1>3. Attempts'
  BY DEF Attempts, Head1
<1>4. Progress'
  <2> SUFFICES ASSUME at' # "idle", refused' = {}
               PROVE  /\ journal.records[Head1].status = "pending"
                      /\ journal.records[Head1].phase \in PhaseAt(at')
                      /\ at' \in {"prepare", "record"} => Catalog!Applicable(request[Head1], journal.installed)
    BY DEF Progress, Head1, PhaseAt, Catalog!Applicable
  <2> QED BY DEF Progress
<1>5. Restorable'
  <2>1. ASSUME NEW s, Sound(s) PROVE Sound(s)'
    BY <2>1, SoundStays
  <2>2. ASSUME NEW s, Leads(s) PROVE Leads(s)'
    BY <2>2, LeadsStays
  <2> QED BY <2>1, <2>2 DEF Restorable, Candidates
<1> QED BY <1>1, <1>2, <1>3, <1>4, <1>5 DEF Advances

LEMMA FailsIsTyped ==
  ASSUME Types, Fails \/ UNCHANGED failures
  PROVE  failures' \in 0..MaxFailures
BY BoundsAssumption DEF Types, Fails

LEMMA WriteStep ==
  ASSUME IInv, NEW o \in Ops, NEW state, Writes(o, state), at # "idle",
         attempted' = attempted, retry' = retry,
         at' \in Steps \ {"prepare", "record"}, overtaken' = overtaken,
         at' # "idle" => tail' = tail,
         at' # "idle" /\ refused' = {} =>
           state.records[o].status = "pending" /\ state.records[o].phase \in PhaseAt(at')
  PROVE  IInv' /\ Advances
<1> USE DEF IInv
<1>1. attempted[o] # "new" /\ Known(o)
  BY HeadIsOp DEF Writes, Attempts, Asked
<1>2. Known(o)'
  BY <1>1 DEF Writes, Known, Attempts, Commits, Refuses
<1>3. attempted'[o] = "known" => refused' # {}
  BY DEF Attempts, Writes, Commits, Refuses
<1>4. Stored' /\ (refused' = {} => refused = {} /\ journal' = state)
  BY <1>1, <1>2, <1>3, WriteKeeps
<1>5. Types'
  BY <1>4 DEF Types, Stored, Writes
<1>6. Attempts'
  BY <1>1, <1>4 DEF Attempts, Stored, Writes, Head1
<1>7. Progress'
  BY <1>4 DEF Progress, Writes, Head1, PhaseAt
<1>8. Advances
  <2>1. disk' = disk \/ (refused = {} /\ disk' = state)
    BY DEF Writes, Commits, Refuses
  <2> QED BY <2>1 DEF Writes, Advances
<1> QED BY <1>4, <1>5, <1>6, <1>7, <1>8 DEF Stored

-----------------------------------------------------------------------------
(* Each step of an operation keeps the inductive invariant. *)

\* While an operation runs, nothing else is open, unless it has overtaken another.
LEMMA OnlyHead ==
  ASSUME IInv, at # "idle", refused = {}, ~overtaken
  PROVE  Only(Head1, journal)
BY HeadIsOp DEF IInv, Types, Progress, Restorable, Candidates, Sound, OneOpen, Only, Unresolved

\* A write that the PackageCatalog does not notice.
LEMMA WriteStutters ==
  ASSUME Types, NEW o \in Ops, NEW state, Changes(o, state), Only(o, journal),
         state.records[o].status \notin {"succeeded", "failed"},
         journal.records[o].status \notin {"succeeded", "failed"},
         (IF Unresolved(state.records[o]) /\ state.records[o].phase = "catalogCommitted"
          THEN state.records[o].previous ELSE state.installed)
         = (IF Unresolved(journal.records[o]) /\ journal.records[o].phase = "catalogCommitted"
            THEN journal.records[o].previous ELSE journal.installed)
  PROVE  Leads(state)
<1>1. disk = journal
  BY DEF Types
<1>2. InstalledIn(state) = InstalledIn(disk)
  BY <1>1, OnlyInChange, InstalledInOne
<1>3. OutcomeIn(state) = OutcomeIn(disk)
  <2>1. OutcomeIn(disk)[o] = "open"
    BY <1>1 DEF OutcomeIn
  <2>2. OutcomeIn(state) = [OutcomeIn(disk) EXCEPT ![o] = "open"]
    BY OutcomeInChange
  <2>3. OutcomeIn(disk) = [OutcomeIn(disk) EXCEPT ![o] = OutcomeIn(disk)[o]]
    BY DEF OutcomeIn
  <2> QED BY <2>1, <2>2, <2>3
<1> QED BY <1>2, <1>3 DEF Leads

LEMMA BeginKeeps == ASSUME IInv, Begin PROVE IInv' /\ Advances
<1> USE DEF IInv
<1>0. PICK o \in Ops : o = Head1
  BY HeadIsOp DEF Begin
<1> DEFINE record == [Rec(o) EXCEPT !.status = "pending"]
           state == WithRecord(o, record)
<1>1. tail # <<>> /\ at = "idle" /\ Known(o) /\ Known(o)'
  <2>1. tail # <<>> /\ at = "idle" /\ Known(o)
    BY <1>0, HeadIsOp DEF Begin, Running, Asked
  <2>2. journal'.records[o].status # "absent" \/ attempted'[o] = "known"
    BY <1>0 DEF Begin, Types
  <2> QED BY <2>1, <2>2 DEF Known
<1>2. /\ \A y \in Ops \ {o} : attempted'[y] = attempted[y]
      /\ attempted'[o] \in {"no", "known"} /\ attempted' \in [Ops -> {"no", "new", "known"}]
      /\ attempted'[o] = "known" => journal'.records[o].status = "absent"
  BY <1>0 DEF Begin, Types
<1>3. /\ Rec(o) \in Record /\ record \in Record /\ record.status = "pending"
      /\ record.phase = Rec(o).phase /\ record.previous = Rec(o).previous
  BY RecordsAreTyped DEF Record
<1> HIDE DEF record
<1>4. Changes(o, state) /\ state.records[o] = record /\ state.installed = journal.installed
  <2>1. journal.installed \in Targets
    BY RecordsAreTyped
  <2> QED BY <1>3, <2>1, WithRecordChanges
<1>9. ~overtaken' => ~overtaken /\ Only(o, journal)
  BY <1>0 DEF Begin, Begun, Only, Known, Rec, Attempts, Pending, NoRecord, Unresolved, Types
<1>5. CASE attempted[o] # "new" /\ Rec(o).status = "pending" /\ at' = "execute"
           /\ UNCHANGED <<disk, refused, journal, tail, run, failures>>
  <2>1. UNCHANGED <<request, retry, crashes>> /\ overtaken' \in BOOLEAN
    BY DEF Begin, Types
  <2>2. attempted[o] = "known" \/ journal'.records[o].status # "absent"
    BY <1>1, <1>5 DEF Types, Known
  <2>3. Types'
    BY <1>1, <1>2, <1>5, <2>1 DEF Types, Steps
  <2>4. Asked'
    <3>1. ASSUME NEW x \in Ops, Known(x) PROVE Known(x)'
      BY <1>1, <1>2, <1>5, <3>1 DEF Known
    <3>2. ASSUME NEW i \in DOMAIN tail PROVE Known(tail[i])'
      <4>1. Known(tail[i]) /\ tail[i] \in Ops
        BY LenProperties, ElementOfSeq DEF Asked, Types
      <4> QED BY <3>1, <4>1, <1>5 DEF Known
    <3>3. ASSUME NEW x \in Ops, Known(x)' PROVE request'[x] # Absent
      BY <1>1, <1>2, <1>5, <2>1, <3>3 DEF Asked, Known
    <3>4. Candidates' = Candidates
      BY <1>5 DEF Candidates
    <3> QED BY <1>5, <3>1, <3>2, <3>3, <3>4 DEF Asked
  <2>5. Attempts'
    BY <1>0, <1>2, <1>5, <2>2 DEF Attempts, Head1
  <2>6. Progress'
    <3>1. ASSUME refused = {} PROVE journal.records[o].status = "pending" /\ journal.records[o].phase \in Phases
      <4>1. Rec(o) = journal.records[o]
        BY <1>2, <1>5, <2>2, <3>1 DEF Attempts, Rec
      <4> QED BY <1>3, <1>5, <4>1 DEF Record
    <3> QED BY <1>0, <1>5, <3>1 DEF Progress, Head1, PhaseAt
  <2>7. Restorable'
    <3>1. ASSUME NEW s, Sound(s) PROVE Sound(s)'
      BY <3>1, <2>1, SoundStays
    <3>2. ASSUME NEW s, Leads(s) PROVE Leads(s)'
      BY <3>2, <1>5, <2>1, LeadsStays
    <3> QED BY <3>1, <3>2, <1>5, <1>9 DEF Restorable, Candidates
  <2> QED BY <1>5, <2>1, <2>3, <2>4, <2>5, <2>6, <2>7 DEF Advances
<1>6. CASE /\ attempted[o] = "new" \/ Rec(o).status = "again"
           /\ Commits(state) \/ Refuses(state)
  <2>1. /\ UNCHANGED <<request, retry, crashes>> /\ tail' \in {tail, Tail(tail)} /\ overtaken' \in BOOLEAN
        /\ at' \in {"execute", "fail", "idle"} /\ (at' # "idle" => tail' = tail)
    BY <1>6 DEF Begin, Leaves, Types
  <2>2. ASSUME ~overtaken', attempted[o] = "new" \/ Rec(o).status = "again"
        PROVE  Sound(state) /\ Leads(state)
    <3>1. Rec(o) = journal.records[o] \/ (journal.records[o].status = "absent" /\ Rec(o) = Pending)
      BY DEF Rec
    <3>2. journal.records[o].status \notin {"succeeded", "failed"}
      BY <2>2, <3>1 DEF Attempts
    <3>3. Leads(state)
      <4>1. /\ Unresolved(record)
            /\ Unresolved(journal.records[o]) => journal.records[o].phase = record.phase
                                                /\ journal.records[o].previous = record.previous
            /\ ~Unresolved(journal.records[o]) => record.phase = "recorded"
        BY <1>3, <2>2, <3>1, <3>2 DEF Unresolved, Pending, NoRecord, Record, Attempts, Rec
      <4> QED BY <1>3, <1>4, <1>9, <2>2, <3>2, <4>1, WriteStutters
    <3>4. Only(o, state)
      BY <1>4, <1>9, <2>2, OnlyInChange
    <3>5. Sound(journal)
      BY <1>9, <2>2 DEF Restorable, Candidates, Types
    <3>6. Sound(state)
      <4> SUFFICES ASSUME state.records[o].phase # "recorded"
          PROVE /\ state.installed = IF state.records[o].phase = "catalogCommitted" THEN Target(o)
                                     ELSE state.records[o].previous
                /\ Catalog!Applicable(request[o], state.records[o].previous)
        BY <3>4, SoundIfOne
      <4>1. Rec(o) = journal.records[o] /\ Rec(o).status = "again"
        BY <1>3, <1>4, <2>2, <3>1 DEF Attempts, Pending, NoRecord, Rec
      <4>2. o \in Open(journal)
        BY <1>3, <1>4, <4>1 DEF Open, Unresolved
      <4> QED BY <1>3, <1>4, <3>5, <4>1, <4>2 DEF Sound, RestoreAccepts
    <3> QED BY <3>3, <3>6
  <2>4. Writes(o, state)
    BY <1>0, <1>1, <1>3, <1>4, <1>6, <1>9, <2>1, <2>2 DEF Writes
  <2>5. attempted'[o] = "known" => refused' # {}
    BY <1>2, <1>3, <1>4, <1>6 DEF Commits, Refuses
  <2>6. Stored' /\ (refused' = {} => refused = {} /\ journal' = state)
    BY <1>1, <1>2, <2>4, <2>5, WriteKeeps
  <2>7. Types'
    BY <1>1, <1>2, <2>1, <2>6 DEF Types, Stored, Steps
  <2>8. Attempts'
    BY <1>0, <1>2, <2>1, <2>6 DEF Attempts, Stored, Head1
  <2>9. Progress'
    <3> SUFFICES ASSUME at' # "idle", refused' = {} PROVE Progress'
      BY DEF Progress
    <3>1. at' = "execute"
      BY <1>0, <1>6 DEF Begin, Refuses, Commits, Leaves
    <3>2. record.phase \in Phases
      BY <1>3 DEF Record
    <3> QED BY <1>0, <1>3, <1>4, <2>1, <2>6, <3>1, <3>2 DEF Progress, Head1, PhaseAt
  <2>10. Advances
    <3>1. disk' = disk \/ (refused = {} /\ disk' = state)
      BY <1>6 DEF Commits, Refuses
    <3> QED BY <1>6, <2>1, <2>2, <3>1 DEF Advances
  <2> QED BY <2>6, <2>7, <2>8, <2>9, <2>10 DEF Stored
<1> QED BY <1>0, <1>5, <1>6 DEF Begin, Leaves, record

LEMMA ExecuteKeeps == ASSUME IInv, Execute PROVE IInv' /\ Advances
<1>1. Quiet /\ at' \in {"retire", "fail", "prepare", "acquire"} /\ at # "idle"
      /\ retry' \in [Ops -> BOOLEAN] /\ failures' = failures
  BY DEF Execute, Running, Quiet, IInv, Types
<1>2. ASSUME refused = {}
      PROVE  /\ journal.records[Head1].phase \in PhaseAt(at')
             /\ at' \in {"prepare", "record"} => Catalog!Applicable(request[Head1], journal.installed)
  <2>1. Rec(Head1) = journal.records[Head1] /\ Head1 \in Ops
    BY <1>1, <1>2, HeadIsOp DEF IInv, Types, Progress, Rec
  <2>2. Rec(Head1).phase \in Phases
    BY <2>1, RecordsAreTyped DEF IInv, Record
  <2> QED BY <2>1, <2>2 DEF Execute, PhaseAt, Phases, Inapplicable
<1> QED BY <1>1, <1>2, QuietStep DEF Steps, IInv, Types

LEMMA PrepareKeeps == ASSUME IInv, Prepare PROVE IInv' /\ Advances
<1>1. Quiet /\ at' \in {"record", "rollback"} /\ at = "prepare" /\ retry' = retry
  BY DEF Prepare, Running, Quiet
<1>2. failures' \in 0..MaxFailures
  BY FailsIsTyped DEF Prepare, IInv
<1> QED BY <1>1, <1>2, QuietStep DEF Steps, IInv, Types, Progress, PhaseAt, Phases

LEMMA AcquireKeeps == ASSUME IInv, Acquire PROVE IInv' /\ Advances
<1>1. Quiet /\ at' \in {"drain", "rollback"} /\ at = "acquire" /\ retry' = retry
  BY DEF Acquire, Running, Quiet
<1>2. failures' \in 0..MaxFailures
  BY FailsIsTyped DEF Acquire, IInv
<1> QED BY <1>1, <1>2, QuietStep DEF Steps, IInv, Types, Progress, PhaseAt, Phases

LEMMA DrainKeeps == ASSUME IInv, Drain PROVE IInv' /\ Advances
<1>1. Quiet /\ at' \in {"commit", "rollback"} /\ at = "drain" /\ retry' = retry
  BY DEF Drain, Running, Quiet
<1>2. failures' \in 0..MaxFailures
  BY FailsIsTyped DEF Drain, IInv
<1> QED BY <1>1, <1>2, QuietStep DEF Steps, IInv, Types, Progress, PhaseAt, Phases

LEMMA CommitKeeps == ASSUME IInv, Commit PROVE IInv' /\ Advances
<1>1. Quiet /\ at' \in {"catalog", "recordCommitted", "rollback"} /\ at = "commit"
      /\ retry' \in [Ops -> BOOLEAN] /\ failures' = failures
  BY DEF Commit, Running, Quiet, IInv, Types
<1>2. ASSUME refused = {}
      PROVE  journal.records[Head1].phase \in PhaseAt(at')
  <2>1. Rec(Head1) = journal.records[Head1]
    BY <1>1, <1>2 DEF IInv, Progress, Rec
  <2> QED BY <1>1, <1>2, <2>1 DEF Commit, PhaseAt, Phases
<1> QED BY <1>1, <1>2, QuietStep DEF Steps, IInv, Types

LEMMA CompleteKeeps == ASSUME IInv, Complete PROVE IInv' /\ Advances
<1>1. Quiet /\ at' \in {"retire", "restore"} /\ at = "complete" /\ retry' = retry
  BY DEF Complete, Running, Quiet
<1>2. failures' \in 0..MaxFailures
  BY FailsIsTyped DEF Complete, IInv
<1> QED BY <1>1, <1>2, QuietStep DEF Steps, IInv, Types, Progress, PhaseAt, Phases

LEMMA RetireKeeps == ASSUME IInv, Retire PROVE IInv' /\ Advances
<1>1. Quiet /\ at' = "succeed" /\ at = "retire" /\ retry' = retry /\ failures' = failures
  BY DEF Retire, Running, Quiet
<1> QED BY <1>1, QuietStep DEF Steps, IInv, Types, Progress, PhaseAt, Phases

LEMMA RollbackKeeps == ASSUME IInv, Rollback PROVE IInv' /\ Advances
<1>1. Quiet /\ at' = "fail" /\ at = "rollback"
  BY DEF Rollback, Running, Quiet
<1>2. failures' \in 0..MaxFailures /\ retry' \in [Ops -> BOOLEAN]
  BY FailsIsTyped DEF Rollback, IInv, Types, RetryRequired
<1> QED BY <1>1, <1>2, QuietStep DEF Steps, IInv, Types, Progress, PhaseAt, Phases

LEMMA StartKeeps == ASSUME IInv, Start PROVE IInv' /\ Advances
<1>1. Quiet /\ at' = at /\ failures' = failures /\ retry' \in [Ops -> BOOLEAN]
  BY DEF Start, Quiet, Unresolved
<1>2. at' # "idle" /\ refused = {} =>
           /\ journal.records[Head1].phase \in PhaseAt(at')
           /\ at' \in {"prepare", "record"} => Catalog!Applicable(request[Head1], journal.installed)
  BY <1>1 DEF IInv, Progress
<1> QED BY <1>1, <1>2, QuietStep DEF IInv, Types

\* The head and its record while the store takes commits.
LEMMA HeadRecord ==
  ASSUME IInv, NEW o \in Ops, o = Head1, at # "idle"
  PROVE  /\ Rec(o) \in Record /\ journal.installed \in Targets /\ request[o] # Absent
         /\ refused = {} => /\ Rec(o) = journal.records[o] /\ Rec(o).status = "pending"
                            /\ Rec(o).phase \in PhaseAt(at)
         /\ refused = {} /\ ~overtaken => /\ Only(o, journal) /\ Sound(journal)
                                          /\ o \in Open(journal) <=> Rec(o).phase # "recorded"
<1> USE DEF IInv
<1>1. Rec(o) \in Record /\ journal.installed \in Targets
  BY RecordsAreTyped
<1>2. request[o] # Absent
  BY HeadIsOp DEF Asked, Types
<1>3. refused = {} => /\ Rec(o) = journal.records[o] /\ Rec(o).status = "pending"
                      /\ Rec(o).phase \in PhaseAt(at)
  BY DEF Progress, Rec
<1>4. refused = {} /\ ~overtaken => Only(o, journal) /\ Sound(journal)
  BY OnlyHead DEF Restorable, Candidates, Types
<1> QED BY <1>1, <1>2, <1>3, <1>4 DEF Open, Unresolved

LEMMA RecordPreparedKeeps == ASSUME IInv, RecordPhase("record", "activationPrepared", "acquire") PROVE IInv' /\ Advances
<1> USE DEF IInv
<1>0. PICK o \in Ops : o = Head1
  BY HeadIsOp DEF RecordPhase, Running, Types
<1> DEFINE record == [status |-> "pending", phase |-> "activationPrepared", previous |-> journal.installed]
           state == WithRecord(o, record)
<1>1. at = "record" /\ tail # <<>>
  BY DEF RecordPhase, Running, Types
<1>2. /\ record \in Record /\ record.status = "pending"
      /\ record.phase = "activationPrepared" /\ record.previous = journal.installed
  BY <1>0, <1>1, HeadRecord DEF Record, Phases
<1> HIDE DEF record
<1>3. Changes(o, state) /\ state.records[o] = record /\ state.installed = journal.installed
  BY <1>0, <1>1, <1>2, HeadRecord, WithRecordChanges
<1>4. /\ \/ Commits(state) /\ at' = "acquire"
         \/ Refuses(state) /\ at' = "rollback"
      /\ UNCHANGED <<request, attempted, retry, tail, overtaken, crashes>>
  BY <1>0 DEF RecordPhase, record
<1>5. ASSUME ~overtaken, refused = {} PROVE Sound(state) /\ Leads(state)
  <2>1. Only(o, journal) /\ Rec(o) = journal.records[o] /\ Rec(o).status = "pending" /\ Rec(o).phase = "recorded"
    BY <1>0, <1>1, <1>5, HeadRecord DEF PhaseAt
  <2>2. Only(o, state)
    BY <1>3, <2>1, OnlyInChange
  <2>3. Catalog!Applicable(request[o], journal.installed)
    BY <1>0, <1>1, <1>5 DEF Progress
  <2>4. Sound(state)
    BY <1>2, <1>3, <2>2, <2>3, SoundIfOne
  <2>5. Leads(state)
    BY <1>2, <1>3, <2>1, WriteStutters
  <2> QED BY <2>4, <2>5
<1>6. Writes(o, state)
  BY <1>0, <1>1, <1>2, <1>3, <1>4, <1>5 DEF Writes
<1>7. at' # "idle" /\ refused' = {} =>
           state.records[o].status = "pending" /\ state.records[o].phase \in PhaseAt(at')
  BY <1>2, <1>3, <1>4 DEF PhaseAt, Phases, Refuses
<1> QED BY <1>0, <1>1, <1>4, <1>6, <1>7, WriteStep DEF Steps

LEMMA RecordCommittedKeeps ==
  ASSUME IInv, RecordPhase("recordCommitted", "activationCommitted", "catalog") PROVE IInv' /\ Advances
<1> USE DEF IInv
<1>0. PICK o \in Ops : o = Head1
  BY HeadIsOp DEF RecordPhase, Running, Types
<1> DEFINE record == [status |-> "pending", phase |-> "activationCommitted", previous |-> Rec(o).previous]
           state == WithRecord(o, record)
<1>1. at = "recordCommitted" /\ tail # <<>>
  BY DEF RecordPhase, Running, Types
<1>2. /\ record \in Record /\ record.status = "pending"
      /\ record.phase = "activationCommitted" /\ record.previous = Rec(o).previous
  BY <1>0, <1>1, HeadRecord DEF Record, Phases
<1> HIDE DEF record
<1>3. Changes(o, state) /\ state.records[o] = record /\ state.installed = journal.installed
  BY <1>0, <1>1, <1>2, HeadRecord, WithRecordChanges
<1>4. /\ \/ Commits(state) /\ at' = "catalog"
         \/ Refuses(state) /\ at' = "rollback"
      /\ UNCHANGED <<request, attempted, retry, tail, overtaken, crashes>>
  BY <1>0 DEF RecordPhase, record
<1>5. ASSUME ~overtaken, refused = {} PROVE Sound(state) /\ Leads(state)
  <2>1. /\ Only(o, journal) /\ Rec(o) = journal.records[o] /\ Rec(o).status = "pending"
        /\ Rec(o).phase = "activationPrepared" /\ Sound(journal) /\ o \in Open(journal)
    BY <1>0, <1>1, <1>5, HeadRecord DEF PhaseAt
  <2>2. Only(o, state)
    BY <1>3, <2>1, OnlyInChange
  <2>3. journal.installed = Rec(o).previous /\ Catalog!Applicable(request[o], Rec(o).previous)
    BY <2>1 DEF Sound, RestoreAccepts
  <2>4. Sound(state)
    BY <1>2, <1>3, <2>2, <2>3, SoundIfOne
  <2>5. Leads(state)
    BY <1>2, <1>3, <2>1, WriteStutters
  <2> QED BY <2>4, <2>5
<1>6. Writes(o, state)
  BY <1>0, <1>1, <1>2, <1>3, <1>4, <1>5 DEF Writes
<1>7. at' # "idle" /\ refused' = {} =>
           state.records[o].status = "pending" /\ state.records[o].phase \in PhaseAt(at')
  BY <1>2, <1>3, <1>4 DEF PhaseAt, Phases, Refuses
<1> QED BY <1>0, <1>1, <1>4, <1>6, <1>7, WriteStep DEF Steps

LEMMA CommitCatalogKeeps == ASSUME IInv, CommitCatalog PROVE IInv' /\ Advances
<1> USE DEF IInv
<1>0. PICK o \in Ops : o = Head1
  BY HeadIsOp DEF CommitCatalog, Running, Types
<1> DEFINE record == [Rec(o) EXCEPT !.phase = "catalogCommitted"]
           state == [WithRecord(o, record) EXCEPT !.installed = Target(o)]
<1>1. at = "catalog" /\ tail # <<>>
  BY DEF CommitCatalog, Running, Types
<1>2. record \in Record /\ record.phase = "catalogCommitted"
      /\ record.previous = Rec(o).previous /\ record.status = Rec(o).status
  BY <1>0, <1>1, HeadRecord DEF Record, Phases
<1> HIDE DEF record
<1>3. Changes(o, state) /\ state.records[o] = record /\ state.installed = Target(o)
  BY <1>0, <1>1, <1>2, HeadRecord, TargetIsTyped, WithRecordChanges
<1>4. /\ \/ Commits(state) /\ at' = "complete"
         \/ Refuses(state) /\ at' = "rollback"
      /\ UNCHANGED <<request, attempted, retry, tail, overtaken, crashes>>
  BY <1>0 DEF CommitCatalog, record
<1>5. ASSUME ~overtaken, refused = {} PROVE Sound(state) /\ Leads(state)
  <2>1. /\ Only(o, journal) /\ Rec(o) = journal.records[o] /\ Rec(o).status = "pending"
        /\ Rec(o).phase = "activationCommitted" /\ Sound(journal) /\ o \in Open(journal)
    BY <1>0, <1>1, <1>5, HeadRecord DEF PhaseAt
  <2>2. Only(o, state)
    BY <1>3, <2>1, OnlyInChange
  <2>3. journal.installed = Rec(o).previous /\ Catalog!Applicable(request[o], Rec(o).previous)
    BY <2>1 DEF Sound, RestoreAccepts
  <2>4. Sound(state)
    BY <1>2, <1>3, <2>2, <2>3, SoundIfOne
  <2>5. Leads(state)
    BY <1>2, <1>3, <2>1, <2>3, WriteStutters DEF Unresolved
  <2> QED BY <2>4, <2>5
<1>6. Writes(o, state)
  <2>1. record.status # "absent"
    BY <1>0, <1>1, <1>2, HeadRecord DEF Rec, Pending, NoRecord
  <2> QED BY <1>0, <1>1, <1>3, <1>4, <1>5, <2>1 DEF Writes
<1>7. at' # "idle" /\ refused' = {} =>
           state.records[o].status = "pending" /\ state.records[o].phase \in PhaseAt(at')
  BY <1>0, <1>1, <1>2, <1>3, <1>4, HeadRecord DEF PhaseAt, Phases, Refuses, Commits
<1> QED BY <1>0, <1>1, <1>4, <1>6, <1>7, WriteStep DEF Steps

LEMMA RestorePreviousKeeps == ASSUME IInv, RestorePrevious PROVE IInv' /\ Advances
<1> USE DEF IInv
<1>0. PICK o \in Ops : o = Head1
  BY HeadIsOp DEF RestorePrevious, Running, Types
<1> DEFINE record == [Rec(o) EXCEPT !.phase = "activationCommitted"]
           state == PreviousState(o)
<1>1. at = "restore" /\ tail # <<>>
  BY DEF RestorePrevious, Running, Types
<1>2. record \in Record /\ record.phase = "activationCommitted"
      /\ record.previous = Rec(o).previous /\ record.status = Rec(o).status
  BY <1>0, <1>1, HeadRecord DEF Record, Phases
<1>3. Changes(o, state) /\ state.records[o] = record /\ state.installed = Rec(o).previous
  <2>1. Rec(o).previous \in Targets
    BY <1>0, <1>1, HeadRecord DEF Record
  <2>2. state = [WithRecord(o, record) EXCEPT !.installed = Rec(o).previous]
    BY DEF PreviousState
  <2> HIDE DEF record, state
  <2> QED BY <1>2, <2>1, <2>2, WithRecordChanges
<1>4. /\ \/ Commits(state) /\ at' = "rollback"
         \/ Refuses(state) /\ at' = "fail"
      /\ UNCHANGED <<request, attempted, retry, tail, overtaken, crashes>>
  BY <1>0 DEF RestorePrevious
<1> HIDE DEF record, state
<1>5. ASSUME ~overtaken, refused = {} PROVE Sound(state) /\ Leads(state)
  <2>1. /\ Only(o, journal) /\ Rec(o) = journal.records[o] /\ Rec(o).status = "pending"
        /\ Rec(o).phase = "catalogCommitted" /\ Sound(journal) /\ o \in Open(journal)
    BY <1>0, <1>1, <1>5, HeadRecord DEF PhaseAt
  <2>2. Only(o, state)
    BY <1>3, <2>1, OnlyInChange
  <2>3. Catalog!Applicable(request[o], Rec(o).previous)
    BY <2>1 DEF Sound
  <2>4. Sound(state)
    BY <1>2, <1>3, <2>2, <2>3, SoundIfOne
  <2>5. Leads(state)
    BY <1>2, <1>3, <2>1, <2>3, WriteStutters DEF Unresolved
  <2> QED BY <2>4, <2>5
<1>6. Writes(o, state)
  <2>1. record.status # "absent"
    BY <1>0, <1>1, <1>2, HeadRecord DEF Rec, Pending, NoRecord
  <2> QED BY <1>0, <1>1, <1>3, <1>4, <1>5, <2>1 DEF Writes
<1>7. at' # "idle" /\ refused' = {} =>
           state.records[o].status = "pending" /\ state.records[o].phase \in PhaseAt(at')
  BY <1>0, <1>1, <1>2, <1>3, <1>4, HeadRecord DEF PhaseAt, Phases, Refuses, Commits
<1> QED BY <1>0, <1>1, <1>4, <1>6, <1>7, WriteStep DEF Steps

LEMMA SucceedKeeps == ASSUME IInv, Succeed PROVE IInv' /\ Advances
<1> USE DEF IInv
<1>0. PICK o \in Ops : o = Head1
  BY HeadIsOp DEF Succeed, Running, Types
<1> DEFINE record == [NoRecord EXCEPT !.status = "succeeded"]
           state == WithRecord(o, record)
<1>1. at = "succeed" /\ tail # <<>>
  BY DEF Succeed, Running, Types
<1>2. record \in Record /\ record.status = "succeeded"
  BY RevisionsAssumption DEF NoRecord, Record, Phases, Targets
<1> HIDE DEF record
<1>3. Changes(o, state) /\ state.records[o] = record /\ state.installed = journal.installed
  <2>1. journal.installed \in Targets
    BY <1>0, <1>1, HeadRecord
  <2> QED BY <1>2, <2>1, WithRecordChanges
<1>4. /\ \/ Commits(state) /\ at' = "idle" /\ tail' = Tail(tail)
         \/ Refuses(state) /\ at' = "fail" /\ tail' = tail
      /\ UNCHANGED <<request, attempted, retry, overtaken, crashes>>
  BY <1>0 DEF Succeed, Leaves, record
<1>5. ASSUME ~overtaken, refused = {} PROVE Sound(state) /\ Leads(state)
  <2>1. /\ Only(o, journal) /\ Rec(o) = journal.records[o] /\ Rec(o).status = "pending"
        /\ Rec(o).phase = "catalogCommitted" /\ Sound(journal) /\ o \in Open(journal)
    BY <1>0, <1>1, <1>5, HeadRecord DEF PhaseAt
  <2>2. Only(o, state)
    BY <1>3, <2>1, OnlyInChange
  <2>3. Catalog!Applicable(request[o], Rec(o).previous) /\ journal.installed = request[o].target
    BY <2>1 DEF Sound, RestoreAccepts, Target
  <2>4. Sound(state)
    BY <1>2, <1>3, <2>2, SoundIfOne DEF Unresolved
  <2>5. InstalledIn(disk) = Rec(o).previous /\ InstalledIn(state) = journal.installed
    BY <1>2, <1>3, <2>1, <2>2, InstalledInOne DEF Unresolved, Types
  <2>6. OutcomeIn(disk)[o] = "open" /\ OutcomeIn(state) = [OutcomeIn(disk) EXCEPT ![o] = "succeeded"]
    <3>1. OutcomeIn(state) = [OutcomeIn(disk) EXCEPT ![o] = "succeeded"]
      BY <1>2, <1>3, OutcomeInChange
    <3>2. OutcomeIn(disk)[o] = "open"
      BY <2>1 DEF OutcomeIn, Types
    <3> QED BY <3>1, <3>2
  <2>7. request[o] # Absent
    BY <1>0, <1>1, HeadRecord
  <2>8. Leads(state)
    BY <2>3, <2>5, <2>6, <2>7 DEF Leads
  <2> QED BY <2>4, <2>8
<1>6. Writes(o, state)
  BY <1>0, <1>1, <1>2, <1>3, <1>4, <1>5 DEF Writes
<1>7. at' # "idle" /\ refused' = {} =>
           state.records[o].status = "pending" /\ state.records[o].phase \in PhaseAt(at')
  BY <1>4 DEF Refuses
<1> QED BY <1>0, <1>1, <1>4, <1>6, <1>7, WriteStep DEF Steps

LEMMA FailKeeps == ASSUME IInv, Fail PROVE IInv' /\ Advances
<1> USE DEF IInv
<1>0. PICK o \in Ops : o = Head1
  BY HeadIsOp DEF Fail, Running, Types
<1> DEFINE record == [Rec(o) EXCEPT !.status = IF retry[o] THEN "again" ELSE "failed"]
           state == WithRecord(o, record)
<1>1. at = "fail" /\ tail # <<>>
  BY DEF Fail, Running, Types
<1>2. record \in Record /\ record.phase = Rec(o).phase
      /\ record.previous = Rec(o).previous /\ record.status \in {"again", "failed"}
  BY <1>0, <1>1, HeadRecord DEF Record, Phases
<1> HIDE DEF record
<1>3. Changes(o, state) /\ state.records[o] = record /\ state.installed = journal.installed
  <2>1. journal.installed \in Targets
    BY <1>0, <1>1, HeadRecord
  <2> QED BY <1>2, <2>1, WithRecordChanges
<1>4. /\ Commits(state) \/ Refuses(state)
      /\ at' = "idle" /\ tail' = Tail(tail)
      /\ UNCHANGED <<request, attempted, retry, overtaken, crashes>>
  BY <1>0 DEF Fail, Leaves, record
<1>5. ASSUME ~overtaken, refused = {} PROVE Sound(state) /\ Leads(state)
  <2>1. /\ Only(o, journal) /\ Rec(o) = journal.records[o] /\ Rec(o).status = "pending"
        /\ Rec(o).phase # "catalogCommitted" /\ Sound(journal)
        /\ o \in Open(journal) <=> Rec(o).phase # "recorded"
    BY <1>0, <1>1, <1>5, HeadRecord DEF PhaseAt
  <2>2. Only(o, state)
    BY <1>3, <2>1, OnlyInChange
  <2>3. Sound(state)
    BY <1>2, <1>3, <2>1, <2>2, SoundIfOne DEF Sound, RestoreAccepts
  <2>4. CASE record.status = "again"
    <3>1. Leads(state)
      BY <1>2, <1>3, <2>1, <2>4, WriteStutters
    <3> QED BY <2>3, <3>1
  <2>5. CASE record.status = "failed"
    <3>1. InstalledIn(disk) = journal.installed /\ InstalledIn(state) = journal.installed
      BY <1>2, <1>3, <2>1, <2>2, InstalledInOne DEF Types
    <3>2. OutcomeIn(state) = [OutcomeIn(disk) EXCEPT ![o] = "failed"]
      BY <1>3, <2>5, OutcomeInChange
    <3>3. OutcomeIn(disk)[o] = "open"
      BY <2>1 DEF OutcomeIn, Types
    <3>4. request[o] # Absent
      BY <1>0, <1>1, HeadRecord
    <3>5. Leads(state)
      BY <3>1, <3>2, <3>3, <3>4 DEF Leads
    <3> QED BY <2>3, <3>5
  <2> QED BY <1>2, <2>4, <2>5
<1>6. Writes(o, state)
  BY <1>0, <1>1, <1>2, <1>3, <1>4, <1>5 DEF Writes
<1> QED BY <1>0, <1>1, <1>4, <1>6, WriteStep DEF Steps

\* A caller asks under an identity that has no record, in memory or on the disk.
LEMMA SubmitKeeps == ASSUME IInv, NEW o \in Ops, Submit(o) PROVE IInv'
<1> USE DEF IInv
<1>1. /\ UNCHANGED <<disk, refused, journal, at, overtaken, crashes, failures>>
      /\ tail' = Append(tail, o) /\ attempted' = [attempted EXCEPT ![o] = "new"]
      /\ retry' \in [Ops -> BOOLEAN] /\ ~Known(o)
  BY DEF Submit, Types
<1>2. /\ request' \in [Ops -> Requests \cup {Absent}] /\ request'[o] # Absent
      /\ \A x \in Ops : request[x] # Absent => request'[x] = request[x]
  <2>1. CASE request[o] = Absent
    <3>1. PICK q \in Requests : request' = [request EXCEPT ![o] = q]
      BY <2>1 DEF Submit
    <3>2. q # Absent
      BY RevisionsAssumption
    <3> QED BY <2>1, <3>1, <3>2 DEF Types
  <2>2. CASE request[o] # Absent
    BY <2>2 DEF Submit, Types
  <2> QED BY <2>1, <2>2
<1>3. /\ tail' \in Seq(Ops) /\ tail' # <<>> /\ (tail # <<>> => Head(tail') = Head(tail))
      /\ \A i \in DOMAIN tail' : tail'[i] = o \/ (i \in DOMAIN tail /\ tail'[i] = tail[i])
  BY <1>1, AppendProperties, HeadTailAppend, LenProperties DEF Types
<1>4. Types'
  BY <1>1, <1>2, <1>3 DEF Types
<1>5. \A x \in Ops : Known(x)' <=> Known(x) \/ x = o
  BY <1>1 DEF Known, Types
<1>6. Asked'
  <2>1. ASSUME NEW x \in Ops, Known(x)' PROVE request'[x] # Absent
    BY <1>2, <1>5, <2>1 DEF Asked
  <2>2. ASSUME NEW i \in DOMAIN tail' PROVE tail'[i] \in Ops
    BY <1>3, LenProperties, ElementOfSeq
  <2>3. ASSUME NEW i \in DOMAIN tail' PROVE Known(tail[i])'
    <3>1. tail'[i] = o \/ Known(tail'[i])
      BY <1>3 DEF Asked
    <3>2. PICK x \in Ops : x = tail'[i]
      BY <2>2
    <3>3. Known(x)'
      BY <1>5, <3>1, <3>2
    <3> QED BY <3>2, <3>3 DEF Known
  <2>4. Candidates' = Candidates
    BY <1>1 DEF Candidates
  <2> QED BY <1>5, <2>1, <2>3, <2>4 DEF Asked
<1>7. Attempts'
  <2>1. at # "idle" => Head1' = Head1 /\ Head1 # o
    BY <1>1, <1>3, HeadIsOp DEF Head1, Types, Asked
  <2>2. journal.records[o].status = "absent"
    BY <1>1 DEF Known
  <2>3. at # "idle" => Head1 \in Ops
    BY HeadIsOp DEF Types
  <2> QED BY <1>1, <2>1, <2>2, <2>3 DEF Attempts, Types
<1>8. Progress'
  <2>1. ASSUME at # "idle"
        PROVE  Head1' = Head1 /\ request'[Head1] = request[Head1]
    <3>1. Head1' = Head1 /\ Head1 \in Ops
      BY <1>1, <1>3, <2>1, HeadIsOp DEF Head1, Types
    <3>2. request[Head1] # Absent
      BY <2>1, HeadIsOp DEF Asked, Types
    <3> QED BY <1>2, <3>1, <3>2
  <2> QED BY <1>1, <2>1 DEF Progress, PhaseAt, Catalog!Applicable
<1>9. Restorable'
  <2>1. ASSUME NEW s \in Candidates, Sound(s) PROVE Sound(s)'
    <3>1. \A x \in Ops : x \in Open(s) => request[x] # Absent
      BY DEF Asked, Open, Unresolved
    <3> QED BY <1>2, <2>1, <3>1, SoundStays
  <2>2. ASSUME NEW s, Leads(s) PROVE Leads(s)'
    BY <1>1, <1>2, <2>2, LeadsStays
  <2> QED BY <1>1, <2>1, <2>2 DEF Restorable, Candidates
<1> QED BY <1>4, <1>6, <1>7, <1>8, <1>9

LEMMA RepeatKeeps == ASSUME IInv, NEW o \in Ops, Repeat(o) PROVE IInv' /\ Advances
<1> USE DEF IInv
<1>1. /\ UNCHANGED <<request, disk, refused, journal, attempted, retry, at, overtaken, crashes, failures>>
      /\ tail' = Append(tail, o) /\ Known(o)
  BY DEF Repeat, LeftOpen
<1>3. /\ tail' \in Seq(Ops) /\ tail' # <<>> /\ (tail # <<>> => Head(tail') = Head(tail))
      /\ \A i \in DOMAIN tail' : tail'[i] = o \/ (i \in DOMAIN tail /\ tail'[i] = tail[i])
  BY <1>1, AppendProperties, HeadTailAppend, LenProperties DEF Types
<1>4. Types'
  BY <1>1, <1>3 DEF Types
<1>5. \A x \in Ops : Known(x)' <=> Known(x)
  BY <1>1 DEF Known, Types
<1>6. Asked'
  <2>1. ASSUME NEW i \in DOMAIN tail' PROVE Known(tail[i])'
    <3>1. Known(tail'[i])
      BY <1>1, <1>3 DEF Asked
    <3>2. PICK x \in Ops : x = tail'[i]
      BY <1>3, LenProperties, ElementOfSeq
    <3>3. Known(x)'
      BY <1>5, <3>1, <3>2
    <3> QED BY <3>2, <3>3 DEF Known
  <2>2. Candidates' = Candidates
    BY <1>1 DEF Candidates
  <2> QED BY <1>1, <1>5, <2>1, <2>2 DEF Asked
<1>7. Attempts'
  BY <1>1, <1>3 DEF Attempts, Head1, Types
<1>8. Progress'
  <2>1. ASSUME at # "idle" PROVE Head1' = Head1
    BY <1>1, <1>3, <2>1 DEF Head1, Types
  <2> QED BY <1>1, <2>1 DEF Progress, PhaseAt, Catalog!Applicable
<1>9. Restorable'
  <2>1. ASSUME NEW s, Sound(s) PROVE Sound(s)'
    BY <1>1, <2>1, SoundStays
  <2>2. ASSUME NEW s, Leads(s) PROVE Leads(s)'
    BY <1>1, <2>2, LeadsStays
  <2> QED BY <1>1, <2>1, <2>2 DEF Restorable, Candidates
<1> QED BY <1>1, <1>4, <1>6, <1>7, <1>8, <1>9 DEF Advances

\* The next process finds what was written, or what was refused.
LEMMA CrashKeeps == ASSUME IInv, Crash PROVE IInv' /\ Advances
<1> USE DEF IInv
<1>1. PICK state \in Candidates : disk' = state /\ journal' = state
  BY DEF Crash, Candidates
<1>2. /\ refused' = {} /\ tail' = <<>> /\ at' = "idle" /\ request' = request /\ overtaken' = overtaken
      /\ attempted' = [o \in Ops |-> "no"] /\ retry' = [o \in Ops |-> FALSE] /\ failures' = failures
      /\ crashes' \in 0..MaxCrashes
  BY BoundsAssumption DEF Crash, Types
<1>3. Types'
  BY <1>1, <1>2, EmptySeq DEF Types, Candidates, Steps
<1>4. Asked'
  BY <1>1, <1>2 DEF Asked, Candidates, Known
<1>5. Attempts' /\ Progress'
  BY <1>2 DEF Attempts, Progress
<1>6. Restorable'
  <2>1. ~overtaken => Sound(state)'
    BY <1>1, <1>2, SoundStays DEF Restorable
  <2>2. \A s \in Candidates' : s = state
    BY <1>1, <1>2 DEF Candidates
  <2> QED BY <1>2, <2>1, <2>2 DEF Restorable
<1>7. Advances
  BY <1>1, <1>2 DEF Advances, Restorable, Candidates
<1> QED BY <1>3, <1>4, <1>5, <1>6, <1>7

LEMMA InitIInv == Init => IInv
<1> SUFFICES ASSUME Init PROVE IInv
  OBVIOUS
<1> USE DEF Init
<1>1. /\ disk \in States /\ journal = disk /\ refused = {} /\ disk.records = [o \in Ops |-> NoRecord]
      /\ request = [o \in Ops |-> Absent] /\ attempted = [o \in Ops |-> "no"]
  BY DEF States, NoRecord, Phases, Targets
<1>2. Types
  <2>1. tail \in Seq(Ops) /\ crashes \in 0..MaxCrashes /\ failures \in 0..MaxFailures
    BY EmptySeq, BoundsAssumption
  <2> QED BY <1>1, <2>1 DEF Types, Steps
<1>3. \A o \in Ops : ~Known(o) /\ disk.records[o].status = "absent"
  BY <1>1 DEF Known, NoRecord
<1>4. Asked /\ Attempts /\ Progress
  BY <1>1, <1>3 DEF Asked, Attempts, Progress, Candidates
<1>5. Restorable
  BY <1>1, <1>3 DEF Restorable, Candidates, Sound, OneOpen, RestoreAccepts, Open, Unresolved
<1> QED BY <1>2, <1>4, <1>5 DEF IInv

LEMMA StepAdvances ==
  ASSUME IInv, [Next]_vars
  PROVE  /\ IInv'
         /\ Advances \/ \E o \in Ops : Submit(o)
<1>1. CASE Step
  BY <1>1, BeginKeeps, ExecuteKeeps, PrepareKeeps, RecordPreparedKeeps, AcquireKeeps, DrainKeeps,
     CommitKeeps, RecordCommittedKeeps, CommitCatalogKeeps, CompleteKeeps, RestorePreviousKeeps,
     RetireKeeps, SucceedKeeps, RollbackKeeps, FailKeeps DEF Step
<1>2. CASE UNCHANGED vars
  <2>1. Quiet /\ at' = at /\ retry' = retry /\ failures' = failures
    BY <1>2 DEF vars, Quiet
  <2> QED BY <2>1, QuietStep DEF IInv, Types, Progress
<1> QED BY <1>1, <1>2, StartKeeps, CrashKeeps, SubmitKeeps, RepeatKeeps DEF Next

LEMMA SeenByCatalog ==
  /\ Installed = InstalledIn(disk) /\ Outcome = OutcomeIn(disk)
  /\ Installed' = InstalledIn(disk') /\ Outcome' = OutcomeIn(disk')
BY DEF Installed, Outcome, InstalledIn, OutcomeIn

\* To ask, to leave the stored state alone and to write one that leads on are
\* steps of the PackageCatalog, or none.
LEMMA CatalogStep ==
  ASSUME IInv, [Next]_vars
  PROVE  [~overtaken' => Catalog!Next]_(Catalog!vars)
<1> SUFFICES ASSUME ~overtaken' PROVE [Catalog!Next]_(Catalog!vars)
  OBVIOUS
<1>1. CASE request' = request /\ disk' = disk
  BY <1>1, SeenByCatalog DEF Catalog!vars
<1>2. CASE request' = request /\ Leads(disk')
  <2>1. CASE InstalledIn(disk') = InstalledIn(disk) /\ OutcomeIn(disk') = OutcomeIn(disk)
    BY <1>2, <2>1, SeenByCatalog DEF Catalog!vars
  <2>2. CASE \E o \in Ops :
       /\ request[o] # Absent /\ OutcomeIn(disk)[o] = "open"
       /\ \/ /\ Catalog!Applicable(request[o], InstalledIn(disk))
             /\ InstalledIn(disk') = request[o].target
             /\ OutcomeIn(disk') = [OutcomeIn(disk) EXCEPT ![o] = "succeeded"]
          \/ /\ InstalledIn(disk') = InstalledIn(disk)
             /\ OutcomeIn(disk') = [OutcomeIn(disk) EXCEPT ![o] = "failed"]
    <3>1. \E o \in Ops : Catalog!Succeed(o) \/ Catalog!Fail(o)
      BY <1>2, <2>2, SeenByCatalog DEF Catalog!Succeed, Catalog!Fail
    <3> QED BY <3>1 DEF Catalog!Next
  <2> QED BY <1>2, <2>1, <2>2 DEF Leads
<1>3. ASSUME NEW o \in Ops, Submit(o) PROVE [Catalog!Next]_(Catalog!vars)
  <2>1. disk' = disk
    BY <1>3 DEF Submit
  <2>2. request' = request \/ (request[o] = Absent /\ \E q \in Requests : request' = [request EXCEPT ![o] = q])
    BY <1>3 DEF Submit
  <2>3. request' = request \/ Catalog!Ask(o)
    BY <2>1, <2>2, SeenByCatalog DEF Catalog!Ask, Requests
  <2> QED BY <1>1, <2>1, <2>3 DEF Catalog!Next
<1> QED BY <1>1, <1>2, <1>3, StepAdvances DEF Advances

-----------------------------------------------------------------------------

\* What the disk may hold is sound and leads on from what it holds, and each
\* step of an operation finds its record in the phase it was left in.
THEOREM InductiveInvariant == Spec => []IInv
<1>1. IInv /\ [Next]_vars => IInv'
  BY StepAdvances
<1> QED BY <1>1, InitIInv, PTL DEF Spec

\* Whatever the disk may hold if the process ends now, restoreActivationState
\* accepts it, unless an operation has overtaken one that was left open.
THEOREM JournalIsRestorable == Spec => []JournalCanBeRestored
<1>1. IInv => JournalCanBeRestored
  BY DEF IInv, Restorable, Candidates, Sound, JournalCanBeRestored
<1> QED BY <1>1, InductiveInvariant, PTL

\* Through every refused commit, compensation and end of the process the stored
\* state implements PackageCatalog: success and the change of what is installed
\* are one step, and failure changes nothing.
THEOREM ChangesAreAtomic == Spec => PackageChangesAreAtomic
<1>1. Init => Catalog!Init
  <2> SUFFICES ASSUME Init PROVE Catalog!Init
    OBVIOUS
  <2>1. /\ disk.installed \in Targets /\ disk.records = [o \in Ops |-> NoRecord]
        /\ request = [o \in Ops |-> Absent]
    BY DEF Init
  <2>2. Installed = disk.installed
    BY <2>1 DEF Installed, NoRecord, Unresolved
  <2>3. Outcome = [o \in Ops |-> "open"]
    BY <2>1 DEF Outcome, NoRecord
  <2> QED BY <2>1, <2>2, <2>3 DEF Catalog!Init, Targets
<1>2. IInv /\ [Next]_vars => [~overtaken' => Catalog!Next]_(Catalog!vars)
  BY CatalogStep
<1> QED BY <1>1, <1>2, InductiveInvariant, PTL DEF Spec, PackageChangesAreAtomic

-----------------------------------------------------------------------------
(* The restart builds the registry by a fold, over one transition at most. *)

Base(state) ==
  LET installed == InstalledEndpoint(state)
  IN  IF installed = None THEN NoRegistry
      ELSE [Publish(NoRegistry, installed) EXCEPT !.active = installed, !.alive = {installed}]

LEMMA RestoredOfNone ==
  ASSUME NEW state, Open(state) = {}
  PROVE  RestoredRegistry(state) = Base(state)
<1> DEFINE F[s \in SUBSET {}] ==
             IF s = {} THEN Base(state) ELSE LET x == CHOOSE x \in s : TRUE IN Resume(state, x, F[s \ {x}])
           G == [s \in SUBSET {} |-> Base(state)]
<1>1. G = [s \in SUBSET {} |->
             IF s = {} THEN Base(state) ELSE LET x == CHOOSE x \in s : TRUE IN Resume(state, x, G[s \ {x}])]
  OBVIOUS
<1>2. F = [s \in SUBSET {} |->
             IF s = {} THEN Base(state) ELSE LET x == CHOOSE x \in s : TRUE IN Resume(state, x, F[s \ {x}])]
  <2> HIDE DEF G
  <2> QED BY <1>1
<1>3. F[{}] = Base(state)
  <2> HIDE DEF F
  <2> QED BY <1>2
<1>4. RestoredRegistry(state) = F[{}]
  BY DEF RestoredRegistry, FoldSet, MapThenFoldSet, Base
<1> QED BY <1>3, <1>4

LEMMA RestoredOfOne ==
  ASSUME NEW state, NEW o, Open(state) = {o}
  PROVE  RestoredRegistry(state) = Resume(state, o, Base(state))
<1> DEFINE F[s \in SUBSET {o}] ==
             IF s = {} THEN Base(state) ELSE LET x == CHOOSE x \in s : TRUE IN Resume(state, x, F[s \ {x}])
           G == [s \in SUBSET {o} |-> IF s = {} THEN Base(state) ELSE Resume(state, o, Base(state))]
<1>0. \A s \in SUBSET {o} : s = {} \/ (s = {o} /\ (CHOOSE x \in s : TRUE) = o /\ s \ {o} = {})
  OBVIOUS
<1>1. G = [s \in SUBSET {o} |->
             IF s = {} THEN Base(state) ELSE LET x == CHOOSE x \in s : TRUE IN Resume(state, x, G[s \ {x}])]
  <2>1. G[{}] = Base(state)
    OBVIOUS
  <2>2. \A s \in SUBSET {o} :
          (IF s = {} THEN Base(state) ELSE Resume(state, o, Base(state)))
          = (IF s = {} THEN Base(state) ELSE LET x == CHOOSE x \in s : TRUE IN Resume(state, x, G[s \ {x}]))
    <3> HIDE DEF G
    <3> QED BY <1>0, <2>1
  <2> QED BY <2>2
<1>2. F = [s \in SUBSET {o} |->
             IF s = {} THEN Base(state) ELSE LET x == CHOOSE x \in s : TRUE IN Resume(state, x, F[s \ {x}])]
  <2> HIDE DEF G
  <2> QED BY <1>1
<1>3. F[{}] = Base(state) /\ F[{o}] = Resume(state, o, Base(state))
  <2> HIDE DEF F
  <2>1. F[{}] = Base(state)
    BY <1>2
  <2>2. F[{o}] = Resume(state, CHOOSE x \in {o} : TRUE, F[{o} \ {CHOOSE x \in {o} : TRUE}])
    BY <1>2
  <2>3. (CHOOSE x \in {o} : TRUE) = o /\ {o} \ {o} = {}
    OBVIOUS
  <2> QED BY <2>1, <2>2, <2>3
<1>4. RestoredRegistry(state) = F[{o}]
  BY DEF RestoredRegistry, FoldSet, MapThenFoldSet, Base
<1> QED BY <1>3, <1>4

-----------------------------------------------------------------------------
(* What the functions of the activation registry do to its fields. *)

Registries ==
  [active : Endpoints, resolved : [Revisions -> Endpoints], staged : [Revisions -> Ops \cup {Absent}],
   ops : [Ops -> Activations], alive : SUBSET Endpoints]

LEMMA EndpointFacts ==
  /\ None \in Endpoints /\ None.revision = Absent /\ None.by = Restored
  /\ \A e \in Endpoints : e.revision \in Revisions \/ e = None
  /\ \A e \in Endpoints : e.revision = Absent => e = None
  /\ \A e \in Endpoints : e = Endpoint(e.revision, e.by)
  /\ \A r \in Revisions, x \in Ops \cup {Restored} :
       Endpoint(r, x) \in Endpoints \ {None} /\ Endpoint(r, x).revision = r /\ Endpoint(r, x).by = x
BY RevisionsAssumption DEF Endpoints, None, Endpoint

LEMMA PublishFields ==
  ASSUME NEW reg \in Registries, NEW e \in Endpoints
  PROVE  /\ Publish(reg, e) \in Registries
         /\ Publish(reg, e).active = reg.active /\ Publish(reg, e).ops = reg.ops
         /\ Publish(reg, e).staged = reg.staged /\ Publish(reg, e).alive = reg.alive
         /\ \A r \in Revisions : Publish(reg, e).resolved[r] =
              IF e # None /\ r = e.revision THEN e ELSE reg.resolved[r]
<1> HIDE DEF None
<1> QED BY EndpointFacts DEF Publish, Registries

LEMMA UnpublishFields ==
  ASSUME NEW reg \in Registries, NEW e \in Endpoints
  PROVE  /\ Unpublish(reg, e) \in Registries
         /\ Unpublish(reg, e).active = reg.active /\ Unpublish(reg, e).ops = reg.ops
         /\ Unpublish(reg, e).staged = reg.staged /\ Unpublish(reg, e).alive = reg.alive
         /\ \A r \in Revisions : Unpublish(reg, e).resolved[r] =
              IF e # None /\ r = e.revision /\ reg.resolved[r] = e THEN None ELSE reg.resolved[r]
BY EndpointFacts DEF Unpublish, Registries

LEMMA DisposeFields ==
  ASSUME NEW reg \in Registries, NEW e \in Endpoints
  PROVE  /\ DisposeOf(reg, e) \in Registries
         /\ DisposeOf(reg, e).active = reg.active /\ DisposeOf(reg, e).ops = reg.ops
         /\ DisposeOf(reg, e).staged = reg.staged /\ DisposeOf(reg, e).alive = reg.alive \ {e}
         /\ \A r \in Revisions : DisposeOf(reg, e).resolved[r] =
              IF e # None /\ r = e.revision /\ reg.resolved[r] = e THEN None ELSE reg.resolved[r]
<1> DEFINE u == Unpublish(reg, e)
<1>1. /\ u \in Registries /\ u.active = reg.active /\ u.ops = reg.ops
      /\ u.staged = reg.staged /\ u.alive = reg.alive
      /\ \A r \in Revisions : u.resolved[r] =
           IF e # None /\ r = e.revision /\ reg.resolved[r] = e THEN None ELSE reg.resolved[r]
  BY UnpublishFields
<1>2. DisposeOf(reg, e) = [u EXCEPT !.alive = @ \ {e}]
  BY DEF DisposeOf
<1> HIDE DEF u
<1> QED BY <1>1, <1>2 DEF Registries

LEMMA UnstageFields ==
  ASSUME NEW reg \in Registries, NEW o \in Ops, NEW e \in Endpoints
  PROVE  /\ Unstage(reg, o, e) \in Registries
         /\ Unstage(reg, o, e).active = reg.active /\ Unstage(reg, o, e).ops = reg.ops
         /\ Unstage(reg, o, e).resolved = reg.resolved /\ Unstage(reg, o, e).alive = reg.alive
         /\ \A r \in Revisions : Unstage(reg, o, e).staged[r] =
              IF e # None /\ r = e.revision /\ reg.staged[r] = o THEN Absent ELSE reg.staged[r]
BY EndpointFacts DEF Unstage, Registries

LEMMA NoActivationTyped ==
  /\ NoActivation \in Activations /\ NoActivation.state = "none"
  /\ \A s \in {"none", "retired", "rolledBack"} :
       /\ [NoActivation EXCEPT !.state = s] \in Activations /\ [NoActivation EXCEPT !.state = s].state = s
       /\ [NoActivation EXCEPT !.state = s].next = None /\ [NoActivation EXCEPT !.state = s].previous = None
BY EndpointFacts DEF NoActivation, Activations

\* One operation's activation is replaced.
LEMMA ReplacedFields ==
  ASSUME NEW reg \in Registries, NEW o \in Ops, NEW it \in Activations
  PROVE  /\ [reg EXCEPT !.ops[o] = it] \in Registries
         /\ [reg EXCEPT !.ops[o] = it].active = reg.active
         /\ [reg EXCEPT !.ops[o] = it].resolved = reg.resolved
         /\ [reg EXCEPT !.ops[o] = it].staged = reg.staged
         /\ [reg EXCEPT !.ops[o] = it].alive = reg.alive
         /\ \A x \in Ops : [reg EXCEPT !.ops[o] = it].ops[x] = IF x = o THEN it ELSE reg.ops[x]
BY DEF Registries

LEMMA CommitFields ==
  ASSUME NEW reg \in Registries, NEW o \in Ops
  PROVE  LET it == reg.ops[o]
             new == CommitActivation(reg, o)
         IN  /\ new \in Registries
             /\ new.active = reg.active /\ new.staged = reg.staged /\ new.alive = reg.alive
             /\ \A x \in Ops : x # o => new.ops[x] = reg.ops[x]
             /\ new.ops[o].state = "committed" /\ new.ops[o].next = it.next /\ new.ops[o].previous = it.previous
             /\ it.next = None => new.resolved = reg.resolved
             /\ it.next # None => new.resolved[it.next.revision] = it.next
<1> DEFINE it == reg.ops[o]
           swapped == IF it.next = None THEN reg ELSE Publish(Unpublish(reg, it.previous), it.next)
           done == [it EXCEPT !.state = "committed"]
<1>1. it \in Activations /\ it.next \in Endpoints /\ it.previous \in Endpoints
  BY DEF Registries, Activations
<1>2. done \in Activations /\ done.state = "committed" /\ done.next = it.next /\ done.previous = it.previous
  BY <1>1 DEF Activations
<1>3. /\ swapped \in Registries /\ swapped.active = reg.active /\ swapped.ops = reg.ops
      /\ swapped.staged = reg.staged /\ swapped.alive = reg.alive
      /\ it.next = None => swapped.resolved = reg.resolved
      /\ it.next # None => swapped.resolved[it.next.revision] = it.next
  <2>1. CASE it.next = None
    BY <2>1
  <2>2. CASE it.next # None
    <3> DEFINE un == Unpublish(reg, it.previous)
    <3>1. /\ un \in Registries /\ un.active = reg.active /\ un.ops = reg.ops
          /\ un.staged = reg.staged /\ un.alive = reg.alive
      BY <1>1, UnpublishFields
    <3>2. swapped = Publish(un, it.next) /\ it.next.revision \in Revisions
      BY <1>1, <2>2, EndpointFacts
    <3> HIDE DEF un, swapped, it
    <3> QED BY <1>1, <2>2, <3>1, <3>2, PublishFields
  <2> QED BY <2>1, <2>2
<1>4. CommitActivation(reg, o) = [swapped EXCEPT !.ops[o] = done]
  <2>1. CommitActivation(reg, o) = [swapped EXCEPT !.ops[o].state = "committed"]
    BY DEF CommitActivation
  <2>2. swapped.ops[o] = it
    BY <1>3
  <2> HIDE DEF swapped, it
  <2> QED BY <2>1, <2>2
<1> HIDE DEF swapped, done
<1>5. /\ CommitActivation(reg, o) \in Registries
      /\ CommitActivation(reg, o).active = swapped.active /\ CommitActivation(reg, o).resolved = swapped.resolved
      /\ CommitActivation(reg, o).staged = swapped.staged /\ CommitActivation(reg, o).alive = swapped.alive
      /\ \A x \in Ops : CommitActivation(reg, o).ops[x] = IF x = o THEN done ELSE swapped.ops[x]
  BY <1>2, <1>3, <1>4 DEF Registries
<1> DEFINE new == CommitActivation(reg, o)
<1>6. /\ new \in Registries /\ new.active = reg.active /\ new.staged = reg.staged /\ new.alive = reg.alive
      /\ \A x \in Ops : x # o => new.ops[x] = reg.ops[x]
      /\ new.ops[o] = done
      /\ it.next = None => new.resolved = reg.resolved
      /\ it.next # None => new.resolved[it.next.revision] = it.next
  <2> HIDE DEF new
  <2> QED BY <1>3, <1>5 DEF new
<1> QED BY <1>2, <1>6

LEMMA RetireFields ==
  ASSUME registry \in Registries, NEW o \in Ops
  PROVE  LET it == registry.ops[o]
             new == RetirePrevious(o)
         IN  /\ new \in Registries
             /\ new.active = it.next
             /\ new.alive = (IF it.previous # it.next THEN registry.alive \ {it.previous} ELSE registry.alive)
             /\ \A x \in Ops : x # o => new.ops[x] = registry.ops[x]
             /\ new.ops[o].state = "retired" /\ new.ops[o].next = None /\ new.ops[o].previous = None
             /\ \A r \in Revisions : new.staged[r] =
                  IF it.next # None /\ r = it.next.revision /\ registry.staged[r] = o THEN Absent ELSE registry.staged[r]
             /\ \A r \in Revisions : registry.resolved[r] # it.previous => new.resolved[r] = registry.resolved[r]
             /\ it.previous = it.next => new.resolved = registry.resolved
<1> DEFINE it == registry.ops[o]
           kept == IF it.previous # it.next THEN DisposeOf(registry, it.previous) ELSE registry
           un == Unstage(kept, o, it.next)
           done == [NoActivation EXCEPT !.state = "retired"]
<1>1. it \in Activations /\ it.next \in Endpoints /\ it.previous \in Endpoints
  BY DEF Registries, Activations
<1>2. done \in Activations /\ done.state = "retired" /\ done.next = None /\ done.previous = None
  BY NoActivationTyped
<1>3. /\ kept \in Registries /\ kept.ops = registry.ops /\ kept.staged = registry.staged
      /\ kept.alive = (IF it.previous # it.next THEN registry.alive \ {it.previous} ELSE registry.alive)
      /\ \A r \in Revisions : registry.resolved[r] # it.previous => kept.resolved[r] = registry.resolved[r]
      /\ it.previous = it.next => kept.resolved = registry.resolved
  <2>1. CASE it.previous = it.next
    BY <2>1
  <2>2. CASE it.previous # it.next
    <3>1. kept = DisposeOf(registry, it.previous)
      BY <2>2
    <3> HIDE DEF it, kept
    <3> QED BY <1>1, <2>2, <3>1, DisposeFields
  <2> QED BY <2>1, <2>2
<1>4. RetirePrevious(o) = [un EXCEPT !.active = it.next, !.ops[o] = done]
  BY DEF RetirePrevious
<1> HIDE DEF kept, done, it
<1>5. /\ un \in Registries /\ un.ops = kept.ops /\ un.resolved = kept.resolved /\ un.alive = kept.alive
      /\ \A r \in Revisions : un.staged[r] =
              IF it.next # None /\ r = it.next.revision /\ kept.staged[r] = o THEN Absent ELSE kept.staged[r]
  BY <1>1, <1>3, UnstageFields
<1> HIDE DEF un
<1>6. /\ RetirePrevious(o) \in Registries /\ RetirePrevious(o).active = it.next
      /\ RetirePrevious(o).resolved = un.resolved /\ RetirePrevious(o).staged = un.staged
      /\ RetirePrevious(o).alive = un.alive
      /\ \A x \in Ops : RetirePrevious(o).ops[x] = IF x = o THEN done ELSE un.ops[x]
  <2> DEFINE acting == [un EXCEPT !.active = it.next]
  <2>1. /\ acting \in Registries /\ acting.active = it.next /\ acting.ops = un.ops
        /\ acting.resolved = un.resolved /\ acting.staged = un.staged /\ acting.alive = un.alive
    BY <1>1, <1>5 DEF Registries
  <2>2. RetirePrevious(o) = [acting EXCEPT !.ops[o] = done]
    BY <1>4
  <2> HIDE DEF acting
  <2> QED BY <1>2, <2>1, <2>2, ReplacedFields
<1> DEFINE new == RetirePrevious(o)
<1>7. /\ new \in Registries /\ new.active = it.next
      /\ new.alive = (IF it.previous # it.next THEN registry.alive \ {it.previous} ELSE registry.alive)
      /\ \A x \in Ops : x # o => new.ops[x] = registry.ops[x]
      /\ new.ops[o] = done
      /\ \A r \in Revisions : new.staged[r] =
           IF it.next # None /\ r = it.next.revision /\ registry.staged[r] = o THEN Absent ELSE registry.staged[r]
      /\ \A r \in Revisions : registry.resolved[r] # it.previous => new.resolved[r] = registry.resolved[r]
      /\ it.previous = it.next => new.resolved = registry.resolved
  <2> HIDE DEF new
  <2> QED BY <1>3, <1>5, <1>6 DEF new
<1> QED BY <1>2, <1>7 DEF it

LEMMA RollbackFields ==
  ASSUME registry \in Registries, NEW o \in Ops
  PROVE  LET it == registry.ops[o]
             new == RollbackActivation(o)
             undone == it.state # "rolledBack"
             away == undone /\ it.next # None /\ it.next # it.previous
         IN  /\ new \in Registries /\ new.active = registry.active
             /\ new.alive = (IF away THEN registry.alive \ {it.next} ELSE registry.alive)
             /\ \A x \in Ops : x # o => new.ops[x] = registry.ops[x]
             /\ undone => new.ops[o].state = "rolledBack" /\ new.ops[o].next = None /\ new.ops[o].previous = None
             /\ ~undone => new = registry
             /\ \A r \in Revisions : new.staged[r] =
                  IF away /\ r = it.next.revision /\ registry.staged[r] = o THEN Absent ELSE registry.staged[r]
             /\ undone /\ it.previous # None => new.resolved[it.previous.revision] = it.previous
<1> DEFINE it == registry.ops[o]
           away == it.next # None /\ it.next # it.previous
           un == Unstage(registry, o, it.next)
           without == WithoutNext(o, it)
           back == Publish(without, it.previous)
           done == [NoActivation EXCEPT !.state = "rolledBack"]
<1>1. it \in Activations /\ it.next \in Endpoints /\ it.previous \in Endpoints
  BY DEF Registries, Activations
<1>2. done \in Activations /\ done.state = "rolledBack" /\ done.next = None /\ done.previous = None
  BY NoActivationTyped
<1>3. /\ un \in Registries /\ un.active = registry.active /\ un.ops = registry.ops /\ un.alive = registry.alive
      /\ \A r \in Revisions : un.staged[r] =
              IF it.next # None /\ r = it.next.revision /\ registry.staged[r] = o THEN Absent ELSE registry.staged[r]
  BY <1>1, UnstageFields
<1>4. without = IF away THEN DisposeOf(un, it.next) ELSE registry
  BY DEF WithoutNext
<1> HIDE DEF un, without, it
<1>5. /\ without \in Registries /\ without.active = registry.active /\ without.ops = registry.ops
      /\ without.alive = (IF away THEN registry.alive \ {it.next} ELSE registry.alive)
      /\ \A r \in Revisions : without.staged[r] =
              IF away /\ r = it.next.revision /\ registry.staged[r] = o THEN Absent ELSE registry.staged[r]
  <2>1. CASE away
    <3>1. without = DisposeOf(un, it.next) /\ it.next # None
      BY <1>4, <2>1
    <3>2. DisposeOf(un, it.next).staged = un.staged
      BY <1>1, <1>3, DisposeFields
    <3> HIDE DEF away
    <3> QED BY <1>1, <1>3, <2>1, <3>1, <3>2, DisposeFields
  <2>2. CASE ~away
    BY <1>4, <2>2
  <2> QED BY <2>1, <2>2
<1>6. /\ back \in Registries /\ back.active = without.active /\ back.ops = without.ops
      /\ back.staged = without.staged /\ back.alive = without.alive
      /\ it.previous # None => back.resolved[it.previous.revision] = it.previous
  <2> HIDE DEF away, None
  <2>1. it.previous # None => it.previous.revision \in Revisions
    BY <1>1, EndpointFacts
  <2> QED BY <1>1, <1>5, <2>1, PublishFields
<1>7. RollbackActivation(o) = IF it.state = "rolledBack" THEN registry ELSE [back EXCEPT !.ops[o] = done]
  BY DEF RollbackActivation, it, without
<1> HIDE DEF back, done, away
<1>8. LET new == [back EXCEPT !.ops[o] = done]
      IN  /\ new \in Registries /\ new.active = back.active /\ new.resolved = back.resolved
          /\ new.staged = back.staged /\ new.alive = back.alive
          /\ \A x \in Ops : new.ops[x] = IF x = o THEN done ELSE back.ops[x]
  BY <1>1, <1>2, <1>6, ReplacedFields
<1>9. CASE it.state = "rolledBack"
  BY <1>7, <1>9 DEF it
<1>10. CASE it.state # "rolledBack"
  BY <1>2, <1>5, <1>6, <1>7, <1>8, <1>10 DEF it, away
<1> QED BY <1>9, <1>10

LEMMA PrepareFields ==
  ASSUME registry \in Registries, NEW o \in Ops, Target(o) \in Targets, registry.ops[o].state # "prepared"
  PROVE  LET next == IF Target(o) = Absent THEN None ELSE Endpoint(Target(o), o)
             new == PrepareActivation(o)
         IN  /\ new \in Registries /\ new.active = registry.active /\ new.resolved = registry.resolved
             /\ new.alive = (IF next = None THEN registry.alive ELSE registry.alive \cup {next})
             /\ \A x \in Ops : x # o => new.ops[x] = registry.ops[x]
             /\ new.ops[o].state = "prepared" /\ new.ops[o].next = next /\ new.ops[o].previous = registry.active
             /\ \A r \in Revisions : new.staged[r] =
                  IF next # None /\ r = next.revision THEN o ELSE registry.staged[r]
<1> DEFINE next == IF Target(o) = Absent THEN None ELSE Endpoint(Target(o), o)
           it == [state |-> "prepared", previous |-> registry.active, next |-> next]
           made == [registry EXCEPT !.ops[o] = it]
<1>1. next \in Endpoints /\ (next # None => next.revision \in Revisions)
  BY EndpointFacts DEF Targets
<1> HIDE DEF next
<1>2. it \in Activations /\ it.state = "prepared" /\ it.next = next /\ it.previous = registry.active
  BY <1>1 DEF Activations, Registries
<1> HIDE DEF it
<1>3. /\ made \in Registries /\ made.active = registry.active /\ made.resolved = registry.resolved
      /\ made.staged = registry.staged /\ made.alive = registry.alive
      /\ \A x \in Ops : made.ops[x] = (IF x = o THEN it ELSE registry.ops[x])
  BY <1>1, <1>2, ReplacedFields
<1>4. PrepareActivation(o) = IF next = None THEN made
                             ELSE [made EXCEPT !.staged[next.revision] = o, !.alive = @ \cup {next}]
  BY DEF PrepareActivation, next, it
<1> HIDE DEF made
<1> DEFINE new == PrepareActivation(o)
<1>5. /\ new \in Registries /\ new.active = registry.active /\ new.resolved = registry.resolved
      /\ new.alive = (IF next = None THEN registry.alive ELSE registry.alive \cup {next})
      /\ \A x \in Ops : new.ops[x] = IF x = o THEN it ELSE registry.ops[x]
      /\ \A r \in Revisions : new.staged[r] = IF next # None /\ r = next.revision THEN o ELSE registry.staged[r]
  <2>1. CASE next = None
    BY <1>3, <1>4, <2>1
  <2>2. CASE next # None
    <3>1. new = [made EXCEPT !.staged[next.revision] = o, !.alive = @ \cup {next}]
      BY <1>4, <2>2
    <3> HIDE DEF new
    <3> QED BY <1>1, <1>3, <2>2, <3>1 DEF Registries
  <2> QED BY <2>1, <2>2
<1> HIDE DEF new
<1> QED BY <1>2, <1>5 DEF new, next

LEMMA AcknowledgeFields ==
  ASSUME registry \in Registries, NEW o \in Ops
  PROVE  LET new == Acknowledge(o)
         IN  /\ new \in Registries /\ new.active = registry.active /\ new.resolved = registry.resolved
             /\ new.staged = registry.staged /\ new.alive = registry.alive
             /\ \A x \in Ops : x # o => new.ops[x] = registry.ops[x]
             /\ new.ops[o] = IF registry.ops[o].state \in {"retired", "rolledBack"} THEN NoActivation ELSE registry.ops[o]
<1>1. CASE registry.ops[o].state \in {"retired", "rolledBack"}
  <2>1. Acknowledge(o) = [registry EXCEPT !.ops[o] = NoActivation] /\ NoActivation \in Activations
    BY <1>1, NoActivationTyped DEF Acknowledge
  <2> QED BY <1>1, <2>1, ReplacedFields
<1>2. CASE registry.ops[o].state \notin {"retired", "rolledBack"}
  BY <1>2 DEF Acknowledge
<1> QED BY <1>1, <1>2

-----------------------------------------------------------------------------
(* What the registry, the Host and the journal agree on. *)

Live(x) == registry.ops[x].state \in {"prepared", "committed"}
NextOf(x) == registry.ops[x].next
Owed(x) == Unresolved(journal.records[x])
Owned(x) == Owed(x) /\ journal.records[x].phase # "recorded"
Arrived(x) == journal.records[x].phase = "catalogCommitted"
Holding == {"drain", "commit", "recordCommitted", "catalog", "complete", "restore"}

Fielded ==
  /\ registry \in Registries
  /\ host \in [agent : Endpoints, gate : Ops \cup {Absent}]
  /\ run \in [mutation : BOOLEAN, staged : BOOLEAN] /\ up \in BOOLEAN

\* The operation that runs is the only one that is open, its record is in the
\* phase its step expects, and it has the gate once it has drained.
InOrder ==
  /\ ~up => at = "idle"
  /\ at \notin {"idle", "fail"} => Rec(Head1).status = "pending" /\ Rec(Head1).phase \in PhaseAt(at)
  /\ at = "prepare" => Catalog!Applicable(request[Head1], journal.installed)
  /\ at \in {"complete", "restore"} => refused = {}
  /\ run.mutation => at \in Holding \cup {"rollback", "fail", "retire", "succeed"}
  /\ at \in Holding => run.mutation
  /\ at \in Holding \cup {"rollback"} /\ run.mutation => host.gate = Head1
  /\ refused # {} => \E o \in Ops : Known(o) /\ Unresolved(Rec(o))
Alone == at # "idle" => Only(Head1, journal)

\* An endpoint that was made for an operation is staged for it.
Made(x) ==
  /\ Known(x) /\ attempted[x] # "new"
  /\ NextOf(x) = None <=> Target(x) = Absent
  /\ NextOf(x) # None =>
       /\ NextOf(x).revision = Target(x) /\ NextOf(x).by \in {x, Restored}
       /\ NextOf(x) # registry.ops[x].previous /\ registry.staged[Target(x)] = x
  /\ registry.ops[x].state = "prepared" /\ NextOf(x) # None => NextOf(x).by = x
Placed ==
  /\ None \notin registry.alive
  /\ \A x \in Ops : IF Live(x) THEN Made(x) ELSE NextOf(x) = None
  /\ \A r \in Revisions : registry.staged[r] # Absent =>
       Live(registry.staged[r]) /\ NextOf(registry.staged[r]).revision = r
  /\ at \in {"commit", "recordCommitted", "catalog", "complete"} /\ Target(Head1) # Absent =>
       registry.staged[Target(Head1)] = Head1

\* The Agent that the Host calls is alive and of the revision that is installed,
\* or will be again when the commit is taken back.
Calls(revision) == host.agent.revision = revision /\ (host.agent # None => host.agent \in registry.alive)
Serves ==
  /\ at \in {"complete", "restore"} => Calls(Rec(Head1).previous)
  /\ at \notin {"complete", "restore"} /\ (host.gate = Absent \/ (run.mutation /\ at \in Holding \cup {"rollback"})) =>
       Calls(journal.installed)
  /\ \A x \in Ops : Owned(x) /\ Arrived(x) /\ host.gate = Absent /\ Live(x) => NextOf(x) = host.agent

\* While no commit was refused: who has an activation, and where the Host's
\* Agent is in it.
Ahead(x) == registry.ops[x].state = "committed" /\ NextOf(x) \notin {None, host.agent}
Owners ==
  \A x \in Ops :
    /\ registry.ops[x].state = "committed" => Owned(x)
    /\ registry.ops[x].state = "prepared" => Owned(x) \/ x \in residue \/ (at = "record" /\ x = Head1)
    /\ Owned(x) /\ Live(x) /\ journal.records[x].phase # "activationPrepared" => registry.ops[x].state = "committed"
    /\ registry.ops[x].state = "retired" => at = "succeed" /\ x = Head1
Sides ==
  \A x \in Ops : Live(x) =>
    /\ Owed(x) /\ (Arrived(x) => at \in {"complete", "restore"}) => registry.ops[x].previous = registry.active
    /\ Owed(x) /\ Arrived(x) /\ at \in {"idle", "execute"} => registry.ops[x].previous = None /\ NextOf(x) = host.agent
    /\ registry.ops[x].state = "committed" /\ NextOf(x) # None => registry.resolved[Target(x)] = NextOf(x)
    /\ NextOf(x) # None => NextOf(x) \in registry.alive
    /\ registry.ops[x].state = "prepared" /\ NextOf(x) # None => NextOf(x) \notin {registry.active, host.agent}
Undone ==
  /\ \A x \in Ops : Owned(x) /\ journal.records[x].phase = "activationCommitted" /\ Target(x) = Absent =>
       /\ host.gate # Absent /\ at \in {"idle", "execute", "acquire"} => ~Live(x)
       /\ at = "rollback" /\ ~run.mutation /\ x = Head1 => ~Live(x)
  /\ at = "fail" /\ Owned(Head1) => ~Live(Head1)
  /\ at = "record" => Live(Head1)
  /\ at = "recordCommitted" => registry.ops[Head1].state = "committed"
  /\ at = "succeed" => ~Live(Head1)
Uses ==
  /\ at # "retire" => registry.active = host.agent
  /\ at = "retire" /\ Live(Head1) =>
       /\ NextOf(Head1) = host.agent
       /\ \/ registry.ops[Head1].previous = registry.active
          \/ registry.active = host.agent /\ registry.ops[Head1].previous = None
  /\ \A e \in registry.alive : e \in {host.agent, registry.active} \/ \E x \in Ops : Live(x) /\ e = NextOf(x)
  /\ host.agent # None =>
       registry.resolved[host.agent.revision] = host.agent \/ \E x \in Ops : Ahead(x)
Gates ==
  host.gate # Absent => host.gate \in stuck \/ (run.mutation /\ at \in Holding \cup {"rollback"})

Settling == Owners /\ Sides /\ Undone /\ Uses /\ Gates
Agreed == Alone /\ (up => Placed /\ Serves /\ (refused = {} => Settling))
Kept == IInv /\ Fielded /\ InOrder /\ (~overtaken => Agreed)

-----------------------------------------------------------------------------
(* What the steps of an operation have in common. *)

LEMMA HeadFacts ==
  ASSUME IInv, at # "idle"
  PROVE  /\ Head1 \in Ops /\ tail # <<>> /\ Known(Head1) /\ attempted[Head1] # "new"
         /\ request[Head1] \in Requests /\ Target(Head1) \in Targets /\ Rec(Head1) \in Record
         /\ refused = {} => Rec(Head1) = journal.records[Head1]
<1> USE DEF IInv
<1>1. Head1 \in Ops /\ tail # <<>>
  BY HeadIsOp DEF Types
<1>2. Known(Head1) /\ attempted[Head1] # "new" /\ request[Head1] # Absent
  BY <1>1, HeadIsOp DEF Asked, Attempts, Types
<1> QED BY <1>1, <1>2, HeadRecord, TargetIsTyped

\* An operation that is owed and installs a revision starts from another one.
LEMMA OwnedFacts ==
  ASSUME IInv, ~overtaken, NEW x \in Ops, Owned(x)
  PROVE  /\ request[x] \in Requests /\ Known(x)
         /\ journal.records[x].phase = "catalogCommitted" =>
              journal.installed = Target(x) /\ journal.records[x].previous # Target(x)
         /\ journal.records[x].phase # "catalogCommitted" =>
              journal.installed = journal.records[x].previous /\ journal.installed # Target(x)
<1>1. x \in Open(journal) /\ Sound(journal)
  BY DEF IInv, Types, Restorable, Candidates, Owned, Owed, Open
<1>2. journal.records[x].status # "absent"
  BY DEF Owned, Owed, Unresolved
<1>3. Known(x) /\ request[x] \in Requests
  BY <1>2 DEF IInv, Types, Asked, Known
<1>4. Catalog!Applicable(request[x], journal.records[x].previous)
  BY <1>1 DEF Sound
<1>5. journal.records[x].previous # Target(x)
  <2>1. request[x].kind \in {"install", "update", "uninstall"}
        /\ (request[x].kind = "install" => request[x].target \in Revisions)
        /\ (request[x].kind = "uninstall" => request[x].target = Absent)
    BY <1>3 DEF Requests, Catalog!Requests
  <2> QED BY <1>4, <2>1, RevisionsAssumption DEF Target, Catalog!Applicable
<1> QED BY <1>1, <1>3, <1>5 DEF Sound, RestoreAccepts

\* The record of an operation that installs nothing yet.
LEMMA HeadOwned ==
  ASSUME IInv, InOrder, at \notin {"idle", "fail"}
  PROVE  /\ Rec(Head1).phase # "recorded" =>
              journal.records[Head1] = Rec(Head1) /\ Owned(Head1)
         /\ at \in {"acquire", "drain", "commit", "recordCommitted", "catalog"} =>
              Owned(Head1) /\ ~Arrived(Head1)
         /\ at \in {"complete", "restore", "retire", "succeed"} => Owned(Head1) /\ Arrived(Head1)
         /\ refused = {} => Owed(Head1)
<1>1. Rec(Head1).status = "pending" /\ Rec(Head1).phase \in PhaseAt(at)
  BY DEF InOrder
<1>2. Rec(Head1).phase # "recorded" => journal.records[Head1] = Rec(Head1)
  BY DEF Rec, Pending, NoRecord
<1>3. refused = {} => Rec(Head1) = journal.records[Head1]
  BY HeadFacts
<1> QED BY <1>1, <1>2, <1>3 DEF Owned, Owed, Unresolved, Arrived, PhaseAt

\* While the head runs, no other operation is owed.
LEMMA OnlyHeadOwed ==
  ASSUME Alone, at # "idle", NEW x \in Ops, Owed(x) \/ Owned(x)
  PROVE  x = Head1
BY DEF Alone, Only, Owed, Owned

LEMMA Same ==
  ASSUME UNCHANGED <<request, journal, attempted, tail>>
  PROVE  /\ Head1' = Head1 /\ Only(Head1, journal)' = Only(Head1, journal)
         /\ \A x \in Ops :
              /\ Known(x)' = Known(x) /\ Rec(x)' = Rec(x) /\ Target(x)' = Target(x) /\ Owed(x)' = Owed(x)
              /\ Owned(x)' = Owned(x) /\ Arrived(x)' = Arrived(x)
BY DEF Head1, Only, Known, Rec, Target, Owed, Owned, Arrived, Unresolved

LEMMA SameRegistry ==
  ASSUME registry' = registry
  PROVE  \A x \in Ops : Live(x)' = Live(x) /\ NextOf(x)' = NextOf(x)
BY DEF Live, NextOf

LEMMA LiveIsMade ==
  ASSUME Fielded, Placed, NEW x \in Ops
  PROVE  /\ Live(x) => Made(x)
         /\ ~Live(x) => NextOf(x) = None
         /\ registry.ops[x] \in Activations /\ NextOf(x) \in Endpoints /\ registry.ops[x].previous \in Endpoints
<1>1. registry.ops[x] \in Activations
  BY DEF Fielded, Registries
<1> QED BY <1>1 DEF Placed, NextOf, Activations

LEMMA PlacedStays ==
  ASSUME Placed, registry' = registry,
         \A x \in Ops : Live(x) => Known(x)' /\ attempted'[x] # "new" /\ Target(x)' = Target(x),
         at' \in {"commit", "recordCommitted", "catalog", "complete"} /\ (Target(Head1))' # Absent =>
           registry.staged[(Target(Head1))'] = Head1'
  PROVE  Placed'
<1>1. ASSUME NEW x \in Ops, Live(x) PROVE Made(x)'
  <2>1. Made(x)
    BY <1>1 DEF Placed
  <2> QED BY <1>1, <2>1, SameRegistry DEF Made
<1> QED BY <1>1, SameRegistry DEF Placed, Live, NextOf

LEMMA UsesStays ==
  ASSUME Uses, registry' = registry, host.agent' = host.agent, at # "retire", at' # "retire"
  PROVE  Uses'
<1>1. \A x \in Ops : Live(x)' = Live(x) /\ NextOf(x)' = NextOf(x) /\ Ahead(x)' = Ahead(x)
  BY SameRegistry DEF Ahead
<1> QED BY <1>1 DEF Uses

-----------------------------------------------------------------------------
(* Each step of an operation keeps what is agreed. *)

\* A step that writes nothing keeps the order of the operation.
LEMMA QuietOrder ==
  ASSUME Kept, Quiet, IInv', at # "idle", up' = up, at' # "idle",
         at' # "fail" => Rec(Head1).status = "pending" /\ Rec(Head1).phase \in PhaseAt(at'),
         at' = "prepare" => Catalog!Applicable(request[Head1], journal.installed),
         at' \in {"complete", "restore"} => refused = {},
         run'.mutation => at' \in Holding \cup {"rollback", "fail", "retire", "succeed"},
         at' \in Holding => run'.mutation,
         at' \in Holding \cup {"rollback"} /\ run'.mutation => host'.gate = Head1
  PROVE  InOrder' /\ up /\ (~overtaken => Alone /\ Alone')
<1>1. up /\ (~overtaken => Alone)
  BY DEF Kept, InOrder, Agreed
<1>2. Head1' = Head1 /\ Rec(Head1)' = Rec(Head1) /\ Only(Head1, journal)' = Only(Head1, journal)
  BY Same, HeadFacts DEF Kept, Quiet
<1>3. refused' # {} => \E o \in Ops : Known(o)' /\ Unresolved(Rec(o)')
  BY Same DEF Quiet, Kept, InOrder
<1>4. Catalog!Applicable(request'[Head1], journal'.installed) <=> Catalog!Applicable(request[Head1], journal.installed)
  BY DEF Quiet, Catalog!Applicable
<1>5. (PhaseAt(at))' = PhaseAt(at')
  BY DEF PhaseAt
<1>6. InOrder'
  BY <1>1, <1>2, <1>3, <1>4, <1>5 DEF InOrder, Quiet, Kept, Unresolved
<1> QED BY <1>1, <1>2, <1>6 DEF Alone

LEMMA ExecuteAgrees == ASSUME Kept, Execute PROVE Kept'
<1> DEFINE o == Head1
<1>1. /\ Quiet /\ at = "execute" /\ UNCHANGED <<run, registry, host, up, residue, stuck, failures>>
      /\ \/ Rec(o).phase = "catalogCommitted" /\ at' = "retire"
         \/ Rec(o).phase # "catalogCommitted" /\ at' = IF Inapplicable(o) THEN "fail" ELSE IF Rec(o).phase = "recorded" THEN "prepare" ELSE "acquire"
  BY DEF Execute, Running, Quiet
<1>2. IInv'
  BY ExecuteKeeps DEF Kept
<1>3. Fielded'
  BY <1>1 DEF Kept, Fielded
<1>4. Rec(o).status = "pending" /\ Rec(o).phase \in Phases
  BY <1>1, HeadFacts DEF Kept, InOrder, Record
<1>5. ~run.mutation
  BY <1>1 DEF Kept, InOrder, Holding
<1>6. InOrder' /\ up /\ (~overtaken => Alone /\ Alone')
  <2>1. at' # "fail" => Rec(o).phase \in PhaseAt(at')
    BY <1>1, <1>4 DEF PhaseAt, Phases
  <2>2. at' = "prepare" => Catalog!Applicable(request[o], journal.installed)
    BY <1>1 DEF Inapplicable
  <2> QED BY <1>1, <1>2, <1>4, <1>5, <2>1, <2>2, QuietOrder DEF Holding
<1>7. ASSUME ~overtaken PROVE Placed' /\ Serves' /\ (refused' = {} => Settling')
  <2>1. Alone /\ Placed /\ Serves /\ (refused = {} => Settling)
    BY <1>6, <1>7 DEF Kept, Agreed
  <2>2. /\ o' = o /\ \A x \in Ops :
             /\ Known(x)' = Known(x) /\ Rec(x)' = Rec(x) /\ Target(x)' = Target(x) /\ Owed(x)' = Owed(x)
             /\ Owned(x)' = Owned(x) /\ Arrived(x)' = Arrived(x)
    BY <1>1, Same DEF Quiet
  <2>3. \A x \in Ops : Live(x)' = Live(x) /\ NextOf(x)' = NextOf(x)
    BY <1>1, SameRegistry
  <2>4. Placed'
    <3>1. \A x \in Ops : Live(x) => Known(x)' /\ attempted'[x] # "new" /\ Target(x)' = Target(x)
      BY <1>1, <2>1, <2>2 DEF Placed, Made, Quiet
    <3> QED BY <1>1, <2>1, <3>1, PlacedStays
  <2>5. Serves'
    <3>1. at' \notin {"complete", "restore"} /\ journal' = journal /\ ~run'.mutation
      BY <1>1, <1>5 DEF Quiet
    <3> QED BY <1>1, <2>1, <2>2, <2>3, <3>1 DEF Serves, Calls
  <2>6. ASSUME refused' = {} PROVE Settling'
    <3>1. Settling /\ refused = {} /\ Rec(o) = journal.records[o] /\ o \in Ops
      BY <1>1, <2>1, <2>6, HeadFacts DEF Quiet, Kept
    <3>2. Owners'
      BY <1>1, <2>2, <2>3, <3>1 DEF Settling, Owners, Quiet
    <3>3. Sides'
      BY <1>1, <2>2, <2>3, <3>1 DEF Settling, Sides, Quiet
    <3>4. Undone'
      <4>1. at' = "fail" => ~Owned(o)
        <5> SUFFICES ASSUME at' = "fail", Owned(o) PROVE FALSE
          OBVIOUS
        <5>1. Rec(o).phase \in {"activationPrepared", "activationCommitted"}
          BY <1>1, <1>4, <3>1 DEF Owned, Phases
        <5>2. Target(o) = Absent /\ journal.installed = Absent
          BY <1>1, <5>1 DEF Inapplicable
        <5> QED BY <1>7, <3>1, <5>1, <5>2, OwnedFacts DEF Kept
      <4>2. at' \notin {"rollback", "record", "recordCommitted", "succeed", "idle"}
        BY <1>1
      <4>3. ASSUME NEW x \in Ops, Owned(x)', journal'.records[x].phase = "activationCommitted", Target(x)' = Absent,
                   host'.gate # Absent
            PROVE  ~Live(x)'
        <5>1. Owned(x) /\ journal.records[x].phase = "activationCommitted" /\ Target(x) = Absent /\ host.gate # Absent
          BY <1>1, <2>2, <4>3 DEF Quiet
        <5> QED BY <1>1, <2>3, <3>1, <5>1 DEF Settling, Undone
      <4>4. ~(at' = "fail" /\ Owned(Head1)')
        BY <2>2, <3>1, <4>1
      <4> QED BY <4>2, <4>3, <4>4 DEF Undone
    <3>5. Uses'
      <4>1. CASE at' # "retire"
        BY <1>1, <3>1, <4>1, UsesStays DEF Settling
      <4>2. CASE at' = "retire"
        <5>1. Owed(o) /\ Arrived(o)
          BY <1>1, <1>4, <3>1, <4>2 DEF Owed, Arrived, Unresolved
        <5>2. Live(o) => registry.ops[o].previous = None /\ NextOf(o) = host.agent
          BY <1>1, <3>1, <5>1 DEF Settling, Sides
        <5>3. registry.active = host.agent
          BY <1>1, <3>1 DEF Settling, Uses
        <5>4. \A x \in Ops : Ahead(x)' = Ahead(x)
          BY <1>1, <2>3 DEF Ahead
        <5> QED BY <1>1, <2>2, <2>3, <3>1, <5>2, <5>3, <5>4 DEF Settling, Uses
      <4> QED BY <4>1, <4>2
    <3>6. Gates'
      BY <1>1, <1>5, <3>1 DEF Settling, Gates
    <3> QED BY <3>2, <3>3, <3>4, <3>5, <3>6 DEF Settling
  <2> QED BY <2>4, <2>5, <2>6
<1> QED BY <1>1, <1>2, <1>3, <1>6, <1>7 DEF Kept, Agreed, Quiet

LEMMA DrainAgrees == ASSUME Kept, Drain PROVE Kept'
<1> DEFINE o == Head1
<1>1. /\ Quiet /\ at = "drain" /\ UNCHANGED <<run, registry, host, up, residue, stuck>>
      /\ at' \in {"commit", "rollback"}
      /\ at' = "commit" /\ Target(o) # Absent => registry.staged[Target(o)] = o
  BY DEF Drain, Running, Quiet
<1>2. IInv'
  BY DrainKeeps DEF Kept
<1>3. Fielded'
  BY <1>1 DEF Kept, Fielded
<1>4. Rec(o).status = "pending" /\ Rec(o).phase \in {"activationPrepared", "activationCommitted"} /\ o \in Ops
  BY <1>1, HeadFacts DEF Kept, InOrder, PhaseAt
<1>5. run.mutation /\ host.gate = o
  BY <1>1 DEF Kept, InOrder, Holding
<1>6. InOrder' /\ up /\ (~overtaken => Alone /\ Alone')
  BY <1>1, <1>2, <1>4, <1>5, QuietOrder DEF Holding, PhaseAt, Phases
<1>7. ASSUME ~overtaken PROVE Placed' /\ Serves' /\ (refused' = {} => Settling')
  <2>1. Alone /\ Placed /\ Serves /\ (refused = {} => Settling)
    BY <1>6, <1>7 DEF Kept, Agreed
  <2>2. /\ o' = o /\ \A x \in Ops :
             /\ Known(x)' = Known(x) /\ Rec(x)' = Rec(x) /\ Target(x)' = Target(x) /\ Owed(x)' = Owed(x)
             /\ Owned(x)' = Owned(x) /\ Arrived(x)' = Arrived(x)
    BY <1>1, Same DEF Quiet
  <2>3. \A x \in Ops : Live(x)' = Live(x) /\ NextOf(x)' = NextOf(x)
    BY <1>1, SameRegistry
  <2>4. Placed'
    <3>1. \A x \in Ops : Live(x) => Known(x)' /\ attempted'[x] # "new" /\ Target(x)' = Target(x)
      BY <1>1, <2>1, <2>2 DEF Placed, Made, Quiet
    <3> QED BY <1>1, <1>4, <2>1, <2>2, <3>1, PlacedStays
  <2>5. Serves'
    BY <1>1, <1>5, <2>1, <2>2, <2>3 DEF Serves, Calls, Quiet, Holding
  <2>6. ASSUME refused' = {} PROVE Settling'
    <3>1. Settling /\ refused = {}
      BY <1>1, <2>1, <2>6 DEF Quiet
    <3>2. Owners'
      BY <1>1, <2>2, <2>3, <3>1 DEF Settling, Owners, Quiet
    <3>3. Sides'
      BY <1>1, <2>2, <2>3, <3>1 DEF Settling, Sides, Quiet
    <3>4. Undone'
      BY <1>1, <1>5, <2>2, <2>3, <3>1 DEF Settling, Undone, Quiet
    <3>5. Uses'
      BY <1>1, <3>1, UsesStays DEF Settling
    <3>6. Gates'
      BY <1>1, <1>5, <3>1 DEF Settling, Gates, Holding
    <3> QED BY <3>2, <3>3, <3>4, <3>5, <3>6 DEF Settling
  <2> QED BY <2>4, <2>5, <2>6
<1> QED BY <1>1, <1>2, <1>3, <1>6, <1>7 DEF Kept, Agreed, Quiet

LEMMA AcquireAgrees == ASSUME Kept, Acquire PROVE Kept'
<1> DEFINE o == Head1
<1>1. /\ Quiet /\ at = "acquire" /\ UNCHANGED <<registry, up, residue, stuck>>
      /\ \/ at' = "rollback" /\ UNCHANGED <<run, host>> /\ (host.gate # Absent \/ Target(o) # Absent)
         \/ at' = "drain" /\ host.gate = Absent
            /\ host' = [host EXCEPT !.gate = o] /\ run' = [run EXCEPT !.mutation = TRUE]
  BY DEF Acquire, Running, Quiet
<1>2. IInv'
  BY AcquireKeeps DEF Kept
<1>3. Rec(o).status = "pending" /\ Rec(o).phase \in {"activationPrepared", "activationCommitted"} /\ o \in Ops /\ o # Absent
  BY <1>1, HeadFacts, OpsAssumption DEF Kept, InOrder, PhaseAt
<1>4. /\ host'.agent = host.agent /\ Fielded'
      /\ at' = "rollback" => run' = run /\ host'.gate = host.gate
      /\ at' = "drain" => run'.mutation /\ host'.gate = o
  BY <1>1, <1>3 DEF Kept, Fielded
<1>5. ~run.mutation
  BY <1>1 DEF Kept, InOrder, Holding
<1>6. InOrder' /\ up /\ (~overtaken => Alone /\ Alone')
  BY <1>1, <1>2, <1>3, <1>4, <1>5, QuietOrder DEF Holding, PhaseAt, Phases
<1>7. ASSUME ~overtaken PROVE Placed' /\ Serves' /\ (refused' = {} => Settling')
  <2>1. Alone /\ Placed /\ Serves /\ (refused = {} => Settling)
    BY <1>6, <1>7 DEF Kept, Agreed
  <2>2. /\ o' = o /\ \A x \in Ops :
             /\ Known(x)' = Known(x) /\ Rec(x)' = Rec(x) /\ Target(x)' = Target(x) /\ Owed(x)' = Owed(x)
             /\ Owned(x)' = Owned(x) /\ Arrived(x)' = Arrived(x)
    BY <1>1, Same DEF Quiet
  <2>3. \A x \in Ops : Live(x)' = Live(x) /\ NextOf(x)' = NextOf(x)
    BY <1>1, SameRegistry
  <2>4. Placed'
    <3>1. \A x \in Ops : Live(x) => Known(x)' /\ attempted'[x] # "new" /\ Target(x)' = Target(x)
      BY <1>1, <2>1, <2>2 DEF Placed, Made, Quiet
    <3> QED BY <1>1, <2>1, <3>1, PlacedStays
  <2>5. Serves'
    BY <1>1, <1>3, <1>4, <1>5, <2>1, <2>2, <2>3 DEF Serves, Calls, Quiet, Holding
  <2>6. ASSUME refused' = {} PROVE Settling'
    <3>1. Settling /\ refused = {}
      BY <1>1, <2>1, <2>6 DEF Quiet
    <3>2. Owners'
      BY <1>1, <2>2, <2>3, <3>1 DEF Settling, Owners, Quiet
    <3>3. Sides'
      BY <1>1, <1>4, <2>2, <2>3, <3>1 DEF Settling, Sides, Quiet
    <3>4. Undone'
      BY <1>1, <1>4, <1>5, <2>2, <2>3, <3>1 DEF Settling, Undone, Quiet
    <3>5. Uses'
      BY <1>1, <1>4, <3>1, UsesStays DEF Settling
    <3>6. Gates'
      BY <1>1, <1>4, <1>5, <3>1 DEF Settling, Gates, Holding
    <3> QED BY <3>2, <3>3, <3>4, <3>5, <3>6 DEF Settling
  <2> QED BY <2>4, <2>5, <2>6
<1> QED BY <1>1, <1>2, <1>4, <1>6, <1>7 DEF Kept, Agreed, Quiet

\* Two operations do not share an endpoint.
LEMMA Apart ==
  ASSUME Fielded, Placed, NEW x \in Ops, NEW y \in Ops, x # y,
         registry.ops[x].state = "prepared", NextOf(x) # None
  PROVE  NextOf(x) # NextOf(y)
<1>1. Live(x) /\ Made(x)
  BY LiveIsMade DEF Live
<1>2. NextOf(x).by = x /\ x # Restored
  BY <1>1, OpsAssumption DEF Made
<1>3. NextOf(y) = None \/ NextOf(y).by \in {y, Restored}
  BY LiveIsMade DEF Made
<1> QED BY <1>2, <1>3

LEMMA CommitAgrees == ASSUME Kept, Commit PROVE Kept'
<1> DEFINE o == Head1
<1>1. /\ Quiet /\ at = "commit" /\ UNCHANGED <<run, host, up, residue, stuck, failures>>
      /\ \/ Rec(o).phase = "activationCommitted" /\ at' = "catalog" /\ registry' = registry
         \/ Rec(o).phase = "activationPrepared" /\ at' = "rollback" /\ registry' = registry
         \/ /\ Rec(o).phase = "activationPrepared" /\ at' = "recordCommitted"
            /\ \/ registry.ops[o].state = "committed" /\ registry' = registry
               \/ registry.ops[o].state = "prepared" /\ registry' = CommitActivation(registry, o)
  BY DEF Commit, Running, Quiet, CommitAccepted
<1>2. IInv'
  BY CommitKeeps DEF Kept
<1>3. Rec(o).status = "pending" /\ o \in Ops
  BY <1>1, HeadFacts DEF Kept, InOrder
<1>4. run.mutation /\ host.gate = o
  BY <1>1 DEF Kept, InOrder, Holding
<1>5. InOrder' /\ up /\ (~overtaken => Alone /\ Alone')
  BY <1>1, <1>2, <1>3, <1>4, QuietOrder DEF Holding, PhaseAt, Phases
<1>6. registry \in Registries
  BY DEF Kept, Fielded
<1>7. /\ o' = o /\ \A x \in Ops :
           /\ Known(x)' = Known(x) /\ Rec(x)' = Rec(x) /\ Target(x)' = Target(x) /\ Owed(x)' = Owed(x)
           /\ Owned(x)' = Owned(x) /\ Arrived(x)' = Arrived(x)
  BY <1>1, Same DEF Quiet
<1>8. CASE registry' = registry /\ (at' = "recordCommitted" => registry.ops[o].state = "committed")
  <2>1. Fielded'
    BY <1>1, <1>8 DEF Kept, Fielded
  <2>2. ASSUME ~overtaken PROVE Placed' /\ Serves' /\ (refused' = {} => Settling')
    <3>1. Alone /\ Placed /\ Serves /\ (refused = {} => Settling)
      BY <1>5, <2>2 DEF Kept, Agreed
    <3>2. \A x \in Ops : Live(x)' = Live(x) /\ NextOf(x)' = NextOf(x)
      BY <1>8, SameRegistry
    <3>3. Placed'
      <4>1. \A x \in Ops : Live(x) => Known(x)' /\ attempted'[x] # "new" /\ Target(x)' = Target(x)
        BY <1>1, <1>7, <3>1 DEF Placed, Made, Quiet
      <4>2. Target(o) # Absent => registry.staged[Target(o)] = o
        BY <1>1, <3>1 DEF Placed
      <4> QED BY <1>3, <1>7, <1>8, <3>1, <4>1, <4>2, PlacedStays
    <3>4. Serves'
      BY <1>1, <1>4, <1>7, <1>8, <3>1, <3>2 DEF Serves, Calls, Quiet, Holding
    <3>5. ASSUME refused' = {} PROVE Settling'
      <4>1. Settling /\ refused = {}
        BY <1>1, <3>1, <3>5 DEF Quiet
      <4>2. Owners'
        BY <1>1, <1>7, <1>8, <3>2, <4>1 DEF Settling, Owners, Quiet
      <4>3. Sides'
        BY <1>1, <1>7, <1>8, <3>2, <4>1 DEF Settling, Sides, Quiet
      <4>4. Undone'
        BY <1>1, <1>4, <1>7, <1>8 DEF Undone
      <4>5. Uses'
        BY <1>1, <1>8, <4>1, UsesStays DEF Settling
      <4>6. Gates'
        BY <1>1, <1>4, <4>1 DEF Settling, Gates, Holding
      <4> QED BY <4>2, <4>3, <4>4, <4>5, <4>6 DEF Settling
    <3> QED BY <3>3, <3>4, <3>5
  <2> QED BY <1>1, <1>2, <1>5, <2>1, <2>2 DEF Kept, Agreed, Quiet
<1>9. CASE registry.ops[o].state = "prepared" /\ registry' = CommitActivation(registry, o)
                /\ at' = "recordCommitted" /\ Rec(o).phase = "activationPrepared"
  <2> DEFINE next == registry.ops[o].next
  <2>1. /\ registry' \in Registries
        /\ registry'.active = registry.active /\ registry'.staged = registry.staged /\ registry'.alive = registry.alive
        /\ \A x \in Ops : x # o => registry'.ops[x] = registry.ops[x]
        /\ registry'.ops[o].state = "committed" /\ registry'.ops[o].next = next
        /\ registry'.ops[o].previous = registry.ops[o].previous
        /\ next = None => registry'.resolved = registry.resolved
        /\ next # None => registry'.resolved[next.revision] = next
    BY <1>3, <1>6, <1>9, CommitFields
  <2>2. Fielded'
    BY <1>1, <2>1 DEF Kept, Fielded
  <2>3. /\ \A x \in Ops : Live(x)' = Live(x) /\ NextOf(x)' = NextOf(x)
        /\ \A x \in Ops : registry'.ops[x].previous = registry.ops[x].previous
        /\ Live(o)
    BY <1>9, <2>1 DEF Live, NextOf
  <2>4. ASSUME ~overtaken PROVE Placed' /\ Serves' /\ (refused' = {} => Settling')
    <3>1. Alone /\ Placed /\ Serves /\ (refused = {} => Settling)
      BY <1>5, <2>4 DEF Kept, Agreed
    <3>2. Placed'
      <4>1. ASSUME NEW x \in Ops, Live(x) PROVE Made(x)'
        <5>1. Made(x)
          BY <3>1, <4>1 DEF Placed
        <5>2. registry'.ops[x].state = "prepared" => registry.ops[x].state = "prepared"
          BY <2>1
        <5> QED BY <1>1, <1>7, <2>1, <2>3, <5>1, <5>2 DEF Made, Quiet
      <4>2. Target(o) # Absent => registry.staged[Target(o)] = o
        BY <1>1, <3>1 DEF Placed
      <4>3. ASSUME NEW r \in Revisions, registry'.staged[r] # Absent
            PROVE  Live(registry.staged[r])' /\ NextOf(registry.staged[r])'.revision = r
        <5>1. registry.staged[r] \in Ops /\ registry'.staged[r] = registry.staged[r]
          BY <1>6, <2>1, <4>3 DEF Registries
        <5>2. Live(registry.staged[r]) /\ NextOf(registry.staged[r]).revision = r
          BY <3>1, <4>3, <5>1 DEF Placed
        <5> QED BY <2>3, <5>1, <5>2 DEF Live, NextOf
      <4> QED BY <1>3, <1>7, <2>1, <2>3, <3>1, <4>1, <4>2, <4>3 DEF Placed
    <3>3. Serves'
      BY <1>1, <1>4, <1>7, <2>1, <2>3, <3>1 DEF Serves, Calls, Quiet, Holding
    <3>4. ASSUME refused' = {} PROVE Settling'
      <4>1. Settling /\ refused = {}
        BY <1>1, <3>1, <3>4 DEF Quiet
      <4>2. Owned(o) /\ ~Arrived(o) /\ journal.records[o].phase = "activationPrepared"
        BY <1>1, <1>9, HeadOwned DEF Kept
      <4>3. \A x \in Ops : Owned(x) \/ Owed(x) => x = o
        BY <1>1, <3>1, OnlyHeadOwed
      <4>4. \A x \in Ops : registry.ops[x].state # "committed"
        BY <1>9, <4>1, <4>3 DEF Settling, Owners
      <4>5. Owners'
        BY <1>1, <1>7, <1>9, <2>1, <2>3, <4>1, <4>2, <4>3 DEF Settling, Owners, Quiet
      <4>6. Sides'
        <5> SUFFICES ASSUME NEW x \in Ops, Live(x)
                     PROVE  /\ Owed(x) => registry.ops[x].previous = registry.active
                            /\ registry'.ops[x].state = "committed" /\ NextOf(x) # None => registry'.resolved[Target(x)] = NextOf(x)
                            /\ NextOf(x) # None => NextOf(x) \in registry.alive
                            /\ registry'.ops[x].state = "prepared" /\ NextOf(x) # None =>
                                 NextOf(x) \notin {registry.active, host.agent}
          BY <1>1, <1>7, <2>1, <2>3, <4>2, <4>3 DEF Sides
        <5>1. Made(x)
          BY <3>1 DEF Placed
        <5>2. registry'.ops[x].state = "committed" => x = o
          BY <2>1, <4>4
        <5>3. NextOf(x) # None => NextOf(x).revision = Target(x)
          BY <5>1 DEF Made
        <5>4. registry'.ops[x].state = "prepared" => registry.ops[x].state = "prepared"
          BY <2>1
        <5> QED BY <2>1, <4>1, <4>2, <4>3, <5>2, <5>3, <5>4 DEF Settling, Sides, NextOf
      <4>7. Undone'
        BY <1>9, <1>7, <2>1 DEF Undone
      <4>8. Uses'
        <5>1. next # None => next \notin {registry.active, host.agent}
          BY <1>3, <1>9, <2>3, <4>1 DEF Settling, Sides, NextOf
        <5>2. host.agent # None => registry.resolved[host.agent.revision] = host.agent
          BY <1>1, <4>1, <4>4 DEF Settling, Uses, Ahead
        <5>3. next # None => Ahead(o)'
          BY <1>1, <1>7, <2>1, <5>1 DEF Ahead, NextOf
        <5> QED BY <1>1, <1>3, <1>7, <1>9, <2>1, <2>3, <4>1, <5>2, <5>3 DEF Settling, Uses
      <4>9. Gates'
        BY <1>1, <1>4, <4>1, <1>9 DEF Settling, Gates, Holding
      <4> QED BY <4>5, <4>6, <4>7, <4>8, <4>9 DEF Settling
    <3> QED BY <3>2, <3>3, <3>4
  <2> QED BY <1>1, <1>2, <1>5, <2>2, <2>4 DEF Kept, Agreed, Quiet
<1> QED BY <1>1, <1>8, <1>9

\* A step that leaves the registry, the Host and the gate's holder alone.
LEMMA StillServes ==
  ASSUME Placed, Serves, Quiet, at # "idle", registry' = registry, host' = host, run' = run,
         at \in {"complete", "restore"} <=> at' \in {"complete", "restore"},
         at' \in Holding \cup {"rollback"} => at \in Holding \cup {"rollback"} \/ ~run.mutation,
         at' \in {"commit", "recordCommitted", "catalog", "complete"} =>
           at \in {"commit", "recordCommitted", "catalog", "complete"}
  PROVE  Placed' /\ Serves'
<1>1. /\ Head1' = Head1 /\ \A x \in Ops :
           /\ Known(x)' = Known(x) /\ Rec(x)' = Rec(x) /\ Target(x)' = Target(x) /\ Owed(x)' = Owed(x)
           /\ Owned(x)' = Owned(x) /\ Arrived(x)' = Arrived(x)
  BY Same DEF Quiet
<1>2. \A x \in Ops : Live(x)' = Live(x) /\ NextOf(x)' = NextOf(x)
  BY SameRegistry
<1>3. Rec(Head1)' = Rec(Head1) /\ Target(Head1)' = Target(Head1)
  BY <1>1 DEF Rec, Target, Quiet
<1>4. Placed'
  <2>1. \A x \in Ops : Live(x) => Known(x)' /\ attempted'[x] # "new" /\ Target(x)' = Target(x)
    BY <1>1 DEF Placed, Made, Quiet
  <2>2. at' \in {"commit", "recordCommitted", "catalog", "complete"} /\ Target(Head1)' # Absent =>
          registry.staged[Target(Head1)'] = Head1'
    BY <1>1, <1>3 DEF Placed
  <2> QED BY <2>1, <2>2, PlacedStays
<1>5. Calls(journal.installed)' = Calls(journal.installed) /\ Calls(Rec(Head1).previous)' = Calls(Rec(Head1).previous)
  BY <1>3 DEF Calls, Quiet
<1>6. Serves'
  <2>1. at' \in {"complete", "restore"} => Calls(Rec(Head1).previous)'
    BY <1>5 DEF Serves
  <2>2. at' \notin {"complete", "restore"} /\ (host'.gate = Absent \/ (run'.mutation /\ at' \in Holding \cup {"rollback"})) =>
          Calls(journal.installed)'
    BY <1>5 DEF Serves
  <2>3. \A x \in Ops : (Owned(x) /\ Arrived(x) /\ host.gate = Absent /\ Live(x) => NextOf(x) = host.agent)'
    BY <1>1, <1>2 DEF Serves
  <2> QED BY <2>1, <2>2, <2>3 DEF Serves, Holding
<1> QED BY <1>4, <1>6

\* The next endpoint of the operation that completes is of its target.
LEMMA NextOfHead ==
  ASSUME Kept, Placed, at \in {"complete", "retire"}, at = "retire" => Live(Head1)
  PROVE  NextOf(Head1).revision = Target(Head1) /\ (NextOf(Head1) # None => Live(Head1))
<1> DEFINE o == Head1
<1>1. o \in Ops /\ Target(o) \in Targets
  BY HeadFacts DEF Kept
<1>2. CASE Live(o)
  BY <1>1, <1>2, EndpointFacts, LiveIsMade DEF Made, Kept
<1>3. CASE ~Live(o)
  <2>1. Target(o) = Absent
    <3> SUFFICES ASSUME Target(o) # Absent PROVE FALSE
      OBVIOUS
    <3>1. registry.staged[Target(o)] = o /\ Target(o) \in Revisions /\ at = "complete"
      BY <1>1, <1>3 DEF Placed, Targets
    <3> QED BY <1>1, <1>3, <3>1, OpsAssumption DEF Placed
  <2> QED BY <1>1, <1>3, <2>1, EndpointFacts, LiveIsMade DEF Kept
<1> QED BY <1>2, <1>3

LEMMA CompleteAgrees == ASSUME Kept, Complete PROVE Kept'
<1> DEFINE o == Head1
<1>1. /\ Quiet /\ at = "complete" /\ UNCHANGED <<run, registry, up, residue, stuck>>
      /\ \/ host' = Switched(o) /\ at' = "retire"
         \/ host' = host /\ at' = "restore"
  BY DEF Complete, Running, Quiet
<1>2. IInv'
  BY CompleteKeeps DEF Kept
<1>3. Rec(o).status = "pending" /\ Rec(o).phase = "catalogCommitted" /\ o \in Ops /\ refused = {}
  BY <1>1, HeadFacts DEF Kept, InOrder, PhaseAt
<1>4. run.mutation /\ host.gate = o
  BY <1>1 DEF Kept, InOrder, Holding
<1>5. InOrder' /\ up /\ (~overtaken => Alone /\ Alone')
  BY <1>1, <1>2, <1>3, <1>4, QuietOrder DEF Holding, PhaseAt, Phases
<1>6. registry \in Registries /\ NextOf(o) \in Endpoints
  BY <1>3 DEF Kept, Fielded, Registries, Activations, NextOf
<1>7. /\ o' = o /\ \A x \in Ops :
           /\ Known(x)' = Known(x) /\ Rec(x)' = Rec(x) /\ Target(x)' = Target(x) /\ Owed(x)' = Owed(x)
           /\ Owned(x)' = Owned(x) /\ Arrived(x)' = Arrived(x)
  BY <1>1, Same DEF Quiet
<1>8. \A x \in Ops : Live(x)' = Live(x) /\ NextOf(x)' = NextOf(x)
  BY <1>1, SameRegistry
<1>9. ASSUME ~overtaken
      PROVE  /\ Alone /\ Placed /\ Serves /\ Settling
             /\ Owned(o) /\ Arrived(o) /\ \A x \in Ops : Owned(x) \/ Owed(x) => x = o
  <2>1. Alone /\ Placed /\ Serves /\ Settling
    BY <1>3, <1>5, <1>9 DEF Kept, Agreed
  <2> QED BY <1>1, <2>1, HeadOwned, OnlyHeadOwed DEF Kept
<1>10. CASE host' = host /\ at' = "restore"
  <2>1. Fielded'
    BY <1>1, <1>10 DEF Kept, Fielded
  <2>2. ASSUME ~overtaken PROVE Placed' /\ Serves' /\ Settling'
    <3>1. Placed' /\ Serves'
      BY <1>1, <1>9, <1>10, <2>2, StillServes DEF Holding
    <3>2. Owners'
      BY <1>1, <1>7, <1>8, <1>9, <1>10, <2>2 DEF Settling, Owners, Quiet
    <3>3. Sides'
      BY <1>1, <1>7, <1>8, <1>9, <1>10, <2>2 DEF Settling, Sides, Quiet
    <3>4. Undone'
      BY <1>10 DEF Undone
    <3>5. Uses'
      BY <1>1, <1>9, <1>10, <2>2, UsesStays DEF Settling
    <3>6. Gates'
      BY <1>1, <1>4, <1>10 DEF Gates, Holding
    <3> QED BY <3>1, <3>2, <3>3, <3>4, <3>5, <3>6 DEF Settling
  <2> QED BY <1>1, <1>2, <1>5, <2>1, <2>2 DEF Kept, Agreed, Quiet
<1>11. CASE host' = Switched(o) /\ at' = "retire"
  <2>1. host'.agent = NextOf(o) /\ host'.gate = Absent
    BY <1>11 DEF Switched, NextOf
  <2>2. Fielded'
    BY <1>1, <1>6, <1>11 DEF Kept, Fielded, Switched, NextOf
  <2>3. ASSUME ~overtaken PROVE Placed' /\ Serves' /\ Settling'
    <3>1. NextOf(o).revision = Target(o) /\ (NextOf(o) # None => Live(o) /\ NextOf(o) \in registry.alive)
      BY <1>1, <1>3, <1>9, <2>3, NextOfHead DEF Settling, Sides
    <3>2. journal.installed = Target(o)
      BY <1>3, <1>9, <2>3, OwnedFacts DEF Kept, Arrived
    <3>3. Placed'
      <4>1. \A x \in Ops : Live(x) => Known(x)' /\ attempted'[x] # "new" /\ Target(x)' = Target(x)
        BY <1>1, <1>7, <1>9, <2>3 DEF Placed, Made, Quiet
      <4> QED BY <1>1, <1>9, <1>11, <2>3, <4>1, PlacedStays
    <3>4. Serves'
      <4>1. Calls(journal.installed)'
        BY <1>1, <2>1, <3>1, <3>2 DEF Calls, Quiet
      <4> QED BY <1>7, <1>8, <1>9, <1>11, <2>1, <2>3, <4>1 DEF Serves
    <3>5. Owners'
      BY <1>1, <1>7, <1>8, <1>9, <1>11, <2>3 DEF Settling, Owners, Quiet
    <3>6. \A x \in Ops : registry.ops[x].state = "prepared" => x # o
      BY <1>9, <2>3 DEF Settling, Owners, Live, Arrived
    <3>7. Sides'
      <4> SUFFICES ASSUME NEW x \in Ops, Live(x)
                   PROVE  /\ registry.ops[x].state = "committed" /\ NextOf(x) # None => registry.resolved[Target(x)] = NextOf(x)
                          /\ NextOf(x) # None => NextOf(x) \in registry.alive
                          /\ registry.ops[x].state = "prepared" /\ NextOf(x) # None =>
                               NextOf(x) \notin {registry.active, NextOf(o)}
        BY <1>1, <1>7, <1>8, <1>9, <1>11, <2>1, <2>3 DEF Sides
      <4>1. registry.ops[x].state = "prepared" /\ NextOf(x) # None => NextOf(x) # NextOf(o)
        BY <1>3, <1>9, <2>3, <3>6, Apart DEF Kept
      <4> QED BY <1>9, <2>3, <4>1 DEF Settling, Sides
    <3>8. Undone'
      BY <1>11 DEF Undone
    <3>9. Uses'
      <4>1. Live(o) => registry.ops[o].previous = registry.active
        BY <1>1, <1>3, <1>9, <2>3 DEF Settling, Sides, Owned
      <4>2. \A e \in registry.alive : e \in {NextOf(o), registry.active} \/ \E x \in Ops : Live(x) /\ e = NextOf(x)
        BY <1>1, <1>9, <2>3 DEF Settling, Uses
      <4>3. NextOf(o) # None => registry.resolved[NextOf(o).revision] = NextOf(o)
        <5>1. NextOf(o) # None => registry.ops[o].state = "committed"
          BY <1>3, <1>9, <2>3, <3>1 DEF Settling, Owners, Arrived
        <5> QED BY <1>3, <1>9, <2>3, <3>1, <5>1 DEF Settling, Sides
      <4> QED BY <1>1, <1>3, <1>7, <1>8, <1>11, <2>1, <4>1, <4>2, <4>3 DEF Uses
    <3>10. Gates'
      BY <2>1 DEF Gates
    <3> QED BY <3>3, <3>4, <3>5, <3>7, <3>8, <3>9, <3>10 DEF Settling
  <2> QED BY <1>1, <1>2, <1>5, <2>2, <2>3 DEF Kept, Agreed, Quiet
<1> QED BY <1>1, <1>10, <1>11

LEMMA RetireAgrees == ASSUME Kept, Retire PROVE Kept'
<1> DEFINE o == Head1
           it == registry.ops[o]
<1>1. /\ Quiet /\ at = "retire" /\ at' = "succeed" /\ UNCHANGED <<run, host, up, residue, stuck, failures>>
      /\ \/ it.state = "retired" /\ registry' = registry
         \/ it.state = "committed" /\ registry' = RetirePrevious(o)
  BY DEF Retire, Running, Quiet
<1>2. IInv'
  BY RetireKeeps DEF Kept
<1>3. Rec(o).status = "pending" /\ Rec(o).phase = "catalogCommitted" /\ o \in Ops
  BY <1>1, HeadFacts DEF Kept, InOrder, PhaseAt
<1>4. InOrder' /\ up /\ (~overtaken => Alone /\ Alone')
  BY <1>1, <1>2, <1>3, QuietOrder DEF Holding, PhaseAt, Phases
<1>5. registry \in Registries /\ NextOf(o) \in Endpoints /\ host.agent \in Endpoints
  BY <1>3 DEF Kept, Fielded, Registries, Activations, NextOf
<1>6. /\ o' = o /\ \A x \in Ops :
           /\ Known(x)' = Known(x) /\ Rec(x)' = Rec(x) /\ Target(x)' = Target(x) /\ Owed(x)' = Owed(x)
           /\ Owned(x)' = Owned(x) /\ Arrived(x)' = Arrived(x)
  BY <1>1, Same DEF Quiet
<1>7. ASSUME ~overtaken
      PROVE  /\ Alone /\ Placed /\ Serves /\ (refused = {} => Settling)
             /\ Owned(o) /\ Arrived(o) /\ \A x \in Ops : Owned(x) \/ Owed(x) => x = o
  <2>1. Alone /\ Placed /\ Serves /\ (refused = {} => Settling)
    BY <1>4, <1>7 DEF Kept, Agreed
  <2> QED BY <1>1, <2>1, HeadOwned, OnlyHeadOwed DEF Kept
<1>8. CASE it.state = "retired" /\ registry' = registry
  <2>1. Fielded'
    BY <1>1, <1>8 DEF Kept, Fielded
  <2>2. ASSUME ~overtaken PROVE Placed' /\ Serves'
    BY <1>1, <1>7, <1>8, <2>2, StillServes DEF Holding
  <2>3. ~overtaken => refused # {}
    BY <1>1, <1>3, <1>7, <1>8 DEF Settling, Owners
  <2> QED BY <1>1, <1>2, <1>4, <2>1, <2>2, <2>3 DEF Kept, Agreed, Quiet
<1>9. CASE it.state = "committed" /\ registry' = RetirePrevious(o)
  <2>1. /\ registry' \in Registries
        /\ registry'.active = it.next
        /\ registry'.alive = (IF it.previous # it.next THEN registry.alive \ {it.previous} ELSE registry.alive)
        /\ \A x \in Ops : x # o => registry'.ops[x] = registry.ops[x]
        /\ registry'.ops[o].state = "retired" /\ registry'.ops[o].next = None /\ registry'.ops[o].previous = None
        /\ \A r \in Revisions : registry'.staged[r] =
             IF it.next # None /\ r = it.next.revision /\ registry.staged[r] = o THEN Absent ELSE registry.staged[r]
        /\ \A r \in Revisions : registry.resolved[r] # it.previous => registry'.resolved[r] = registry.resolved[r]
    BY <1>3, <1>5, <1>9, RetireFields
  <2>2. Fielded'
    BY <1>1, <2>1 DEF Kept, Fielded
  <2>3. /\ Live(o) /\ ~Live(o)' /\ NextOf(o)' = None
        /\ \A x \in Ops : x # o => Live(x)' = Live(x) /\ NextOf(x)' = NextOf(x)
    BY <1>6, <1>9, <2>1 DEF Live, NextOf
  <2>4. ASSUME ~overtaken PROVE Placed' /\ Serves' /\ (refused' = {} => Settling')
    <3>1. Made(o)
      BY <1>3, <1>7, <2>3, <2>4 DEF Placed
    <3>2. Placed'
      <4>1. ASSUME NEW x \in Ops, x # o, Live(x) PROVE Made(x)'
        <5>1. Made(x)
          BY <1>7, <2>4, <4>1 DEF Placed
        <5>2. registry'.ops[x] = registry.ops[x] /\ NextOf(x)' = NextOf(x) /\ Target(x)' = Target(x)
              /\ attempted'[x] = attempted[x] /\ Known(x)' = Known(x)
          BY <1>1, <1>6, <2>1, <2>3, <4>1 DEF Quiet
        <5>3. NextOf(x) # None => registry'.staged[Target(x)] = x
          <6> SUFFICES ASSUME NextOf(x) # None PROVE registry'.staged[Target(x)] = x
            OBVIOUS
          <6>1. registry.staged[Target(x)] = x /\ Target(x) \in Revisions
            BY <5>1, <1>6, LiveIsMade, EndpointFacts, <1>7, <2>4 DEF Made, Kept
          <6> QED BY <2>1, <4>1, <6>1
        <5> QED BY <5>1, <5>2, <5>3 DEF Made
      <4>2. ASSUME NEW r \in Revisions, registry'.staged[r] # Absent
            PROVE  /\ registry'.staged[r] = registry.staged[r] /\ registry.staged[r] \in Ops \ {o}
                   /\ Live(registry.staged[r]) /\ NextOf(registry.staged[r]).revision = r
        <5>1. registry.staged[r] \in Ops /\ registry'.staged[r] = registry.staged[r]
          BY <1>5, <2>1, <4>2 DEF Registries
        <5>2. Live(registry.staged[r]) /\ NextOf(registry.staged[r]).revision = r
          BY <1>7, <2>4, <5>1, <4>2 DEF Placed
        <5>3. registry.staged[r] # o
          BY <2>1, <4>2, <5>1, <5>2, EndpointFacts, RevisionsAssumption DEF NextOf
        <5> QED BY <5>1, <5>2, <5>3
      <4>3. None \notin registry'.alive
        BY <1>7, <2>1, <2>4 DEF Placed
      <4>4. \A x \in Ops : (IF Live(x) THEN Made(x) ELSE NextOf(x) = None)'
        <5> SUFFICES ASSUME NEW x \in Ops PROVE IF Live(x)' THEN Made(x)' ELSE NextOf(x)' = None
          OBVIOUS
        <5>1. CASE x = o
          BY <1>6, <2>1, <5>1 DEF Live, NextOf
        <5>2. CASE x # o
          BY <1>7, <2>3, <2>4, <4>1, <5>2 DEF Placed
        <5> QED BY <5>1, <5>2
      <4>5. \A r \in Revisions : (registry.staged[r] # Absent =>
              Live(registry.staged[r]) /\ NextOf(registry.staged[r]).revision = r)'
        <5> SUFFICES ASSUME NEW r \in Revisions, registry'.staged[r] # Absent
                     PROVE  Live(registry.staged[r])' /\ NextOf(registry.staged[r])'.revision = r
          OBVIOUS
        <5>1. registry'.ops[registry.staged[r]] = registry.ops[registry.staged[r]]
          BY <2>1, <4>2
        <5> QED BY <4>2, <5>1 DEF Live, NextOf
      <4> QED BY <1>1, <4>3, <4>4, <4>5 DEF Placed
    <3>3. host.gate = Absent => NextOf(o) = host.agent
      BY <1>3, <1>7, <2>3, <2>4 DEF Serves
    <3>4. it.previous # it.next \/ it.next = None
      BY <3>1 DEF Made, NextOf
    <3>5. Serves'
      <4>1. host.gate = Absent => Calls(journal.installed)'
        <5> SUFFICES ASSUME host.gate = Absent PROVE Calls(journal.installed)'
          OBVIOUS
        <5>1. Calls(journal.installed)
          BY <1>1, <1>7, <2>4 DEF Serves
        <5> QED BY <1>1, <2>1, <3>3, <3>4, <5>1 DEF Calls, NextOf, Quiet
      <4> QED BY <1>1, <1>6, <1>7, <2>3, <2>4, <4>1 DEF Serves, Holding
    <3>6. ASSUME refused' = {} PROVE Settling'
      <4>1. Settling /\ refused = {}
        BY <1>1, <1>7, <2>4, <3>6 DEF Quiet
      <4>2. /\ NextOf(o) = host.agent
            /\ it.previous = registry.active \/ (registry.active = host.agent /\ it.previous = None)
        BY <1>1, <2>3, <4>1 DEF Settling, Uses
      <4>3. \A x \in Ops : x # o /\ Live(x) => registry.ops[x].state = "prepared" /\ ~Owed(x)
        BY <1>7, <2>4, <4>1 DEF Settling, Owners, Live
      <4>4. Owners'
        BY <1>1, <1>6, <2>1, <2>3, <4>1 DEF Settling, Owners, Quiet
      <4>5. Sides'
        <5> SUFFICES ASSUME NEW x \in Ops, x # o, Live(x)
                     PROVE  NextOf(x) # None => NextOf(x) \in registry'.alive /\ NextOf(x) \notin {registry'.active, host.agent}
          BY <1>1, <1>6, <2>1, <2>3, <4>3 DEF Sides
        <5>1. NextOf(x) # None => NextOf(x) \in registry.alive /\ NextOf(x) \notin {registry.active, host.agent}
          BY <4>1, <4>3 DEF Settling, Sides
        <5> QED BY <2>1, <4>2, <5>1 DEF NextOf
      <4>6. Undone'
        BY <1>1, <2>3 DEF Undone
      <4>7. Uses'
        <5>1. registry'.active = host.agent
          BY <2>1, <4>2 DEF NextOf
        <5>2. \A e \in registry'.alive : e = host.agent \/ \E x \in Ops : Live(x)' /\ e = NextOf(x)'
          <6> SUFFICES ASSUME NEW e \in registry'.alive, e # host.agent
                       PROVE  \E x \in Ops : Live(x)' /\ e = NextOf(x)'
            OBVIOUS
          <6>1. e \in registry.alive /\ e # registry.active
            BY <2>1, <4>2 DEF NextOf
          <6>2. PICK x \in Ops : Live(x) /\ e = NextOf(x)
            BY <4>1, <6>1 DEF Settling, Uses
          <6> QED BY <2>3, <4>2, <6>2
        <5>3. host.agent # None => registry'.resolved[host.agent.revision] = host.agent
          <6> SUFFICES ASSUME host.agent # None PROVE registry'.resolved[host.agent.revision] = host.agent
            OBVIOUS
          <6>1. \A x \in Ops : ~Ahead(x)
            BY <4>2, <4>3 DEF Ahead, Live
          <6>2. registry.resolved[host.agent.revision] = host.agent /\ host.agent.revision \in Revisions
            BY <1>5, <4>1, <6>1, EndpointFacts DEF Settling, Uses
          <6> QED BY <2>1, <3>4, <4>2, <6>2 DEF NextOf
        <5> QED BY <1>1, <5>1, <5>2, <5>3 DEF Uses
      <4>8. Gates'
        BY <1>1, <4>1 DEF Settling, Gates, Holding
      <4> QED BY <4>4, <4>5, <4>6, <4>7, <4>8 DEF Settling
    <3> QED BY <3>2, <3>5, <3>6
  <2> QED BY <1>1, <1>2, <1>4, <2>2, <2>4 DEF Kept, Agreed, Quiet
<1> QED BY <1>1, <1>8, <1>9

LEMMA RollbackAgrees == ASSUME Kept, Rollback PROVE Kept'
<1> DEFINE o == Head1
           it == registry.ops[o]
           owed == /\ Rec(o).phase # "recorded"
                   /\ Target(o) = Absent /\ ~run.mutation => Rec(o).phase = "activationPrepared"
<1>1. /\ Quiet /\ at = "rollback" /\ at' = "fail" /\ UNCHANGED <<run, up, residue>>
      /\ registry' = IF owed /\ it.state \in {"prepared", "committed", "rolledBack"} THEN RollbackActivation(o) ELSE registry
      /\ \E reopened \in BOOLEAN :
           /\ ~reopened => run.mutation
           /\ host' = IF run.mutation /\ reopened THEN [host EXCEPT !.gate = Absent] ELSE host
           /\ stuck' = IF reopened THEN stuck ELSE stuck \cup {o}
  BY DEF Rollback, Running, Quiet
<1>2. IInv'
  BY RollbackKeeps DEF Kept
<1>3. /\ Rec(o).status = "pending" /\ Rec(o).phase \in {"recorded", "activationPrepared", "activationCommitted"}
      /\ o \in Ops /\ Rec(o).phase # "recorded" => Owned(o) /\ journal.records[o] = Rec(o)
  BY <1>1, HeadFacts, HeadOwned DEF Kept, InOrder, PhaseAt, Phases
<1>4. InOrder' /\ up /\ (~overtaken => Alone /\ Alone')
  BY <1>1, <1>2, QuietOrder DEF Holding
<1>5. /\ registry \in Registries /\ NextOf(o) \in Endpoints /\ host.agent \in Endpoints
      /\ it \in Activations /\ host'.agent = host.agent /\ host'.gate \in {host.gate, Absent}
      /\ host' \in [agent : Endpoints, gate : Ops \cup {Absent}]
  BY <1>1, HeadFacts DEF Kept, Fielded, Registries, Activations, NextOf
<1>6. /\ o' = o /\ \A x \in Ops :
           /\ Known(x)' = Known(x) /\ Rec(x)' = Rec(x) /\ Target(x)' = Target(x) /\ Owed(x)' = Owed(x)
           /\ Owned(x)' = Owned(x) /\ Arrived(x)' = Arrived(x)
  BY <1>1, Same DEF Quiet
<1>7. o \in Ops /\ ~(Owned(o) /\ Arrived(o))
  BY <1>3, <1>1, HeadFacts DEF Owned, Owed, Unresolved, Arrived, Rec, Kept
<1>8. ASSUME ~overtaken
      PROVE  /\ Alone /\ Placed /\ Serves /\ (refused = {} => Settling)
             /\ \A x \in Ops : Owned(x) \/ Owed(x) => x = o
             /\ host'.gate = Absent => Calls(journal.installed)
  <2>1. Alone /\ Placed /\ Serves /\ (refused = {} => Settling)
    BY <1>4, <1>8 DEF Kept, Agreed
  <2>2. host'.gate = Absent => host.gate = Absent \/ run.mutation
    BY <1>1
  <2> QED BY <1>1, <2>1, <2>2, OnlyHeadOwed DEF Kept, Serves
<1>9. ASSUME Settling PROVE Gates'
  <2>1. host.gate # Absent => host.gate \in stuck \/ (run.mutation /\ host.gate = o)
    BY <1>1, <1>9 DEF Settling, Gates, Kept, InOrder
  <2> QED BY <1>1, <1>5, <2>1 DEF Gates, Kept, Fielded
<1>10. CASE registry' = registry /\ (owed => ~Live(o))
  <2>1. Fielded'
    BY <1>1, <1>5, <1>10 DEF Kept, Fielded
  <2>2. ASSUME ~overtaken PROVE Placed' /\ Serves' /\ (refused' = {} => Settling')
    <3>1. \A x \in Ops : Live(x)' = Live(x) /\ NextOf(x)' = NextOf(x)
      BY <1>10, SameRegistry
    <3>2. Placed'
      <4>1. \A x \in Ops : Live(x) => Known(x)' /\ attempted'[x] # "new" /\ Target(x)' = Target(x)
        BY <1>1, <1>6, <1>8, <2>2 DEF Placed, Made, Quiet
      <4> QED BY <1>1, <1>8, <1>10, <2>2, <4>1, PlacedStays
    <3>3. Serves'
      <4>1. host'.gate = Absent => Calls(journal.installed)'
        BY <1>1, <1>5, <1>8, <1>10, <2>2 DEF Calls, Quiet
      <4> QED BY <1>1, <1>6, <1>7, <1>8, <2>2, <4>1 DEF Serves, Holding
    <3>4. ASSUME refused' = {} PROVE Settling'
      <4>1. Settling
        BY <1>1, <1>8, <2>2, <3>4 DEF Quiet
      <4>2. Owners'
        BY <1>1, <1>6, <1>10, <3>1, <4>1 DEF Settling, Owners, Quiet
      <4>3. Sides'
        BY <1>1, <1>5, <1>6, <1>10, <3>1, <4>1 DEF Settling, Sides, Quiet
      <4>4. Owned(o) => ~Live(o)
        <5> SUFFICES ASSUME Owned(o), ~owed PROVE ~Live(o)
          BY <1>10
        <5>1. Rec(o) = journal.records[o]
          BY <1>1, HeadFacts, <3>4 DEF Quiet, Kept
        <5>2. journal.records[o].phase = "activationCommitted" /\ Target(o) = Absent /\ ~run.mutation
          BY <1>3, <5>1 DEF Owned
        <5> QED BY <1>1, <1>7, <4>1, <5>2 DEF Settling, Undone
      <4>5. Undone'
        BY <1>1, <1>6, <1>7, <3>1, <4>4 DEF Undone
      <4>6. Uses'
        BY <1>1, <1>5, <1>10, <4>1, UsesStays DEF Settling
      <4> QED BY <1>9, <4>1, <4>2, <4>3, <4>5, <4>6 DEF Settling
    <3> QED BY <3>2, <3>3, <3>4
  <2> QED BY <1>1, <1>2, <1>4, <2>1, <2>2 DEF Kept, Agreed, Quiet
<1>11. CASE owed /\ Live(o) /\ registry' = RollbackActivation(o)
  <2> DEFINE away == it.next # None /\ it.next # it.previous
  <2>1. /\ registry' \in Registries /\ registry'.active = registry.active
        /\ registry'.alive = (IF away THEN registry.alive \ {it.next} ELSE registry.alive)
        /\ \A x \in Ops : x # o => registry'.ops[x] = registry.ops[x]
        /\ registry'.ops[o].state = "rolledBack" /\ registry'.ops[o].next = None /\ registry'.ops[o].previous = None
        /\ \A r \in Revisions : registry'.staged[r] =
             IF away /\ r = it.next.revision /\ registry.staged[r] = o THEN Absent ELSE registry.staged[r]
        /\ it.previous # None => registry'.resolved[it.previous.revision] = it.previous
    BY <1>5, <1>7, <1>11, RollbackFields, ZenonT(60) DEF Live
  <2>2. Fielded'
    BY <1>1, <1>5, <2>1 DEF Kept, Fielded
  <2>3. /\ ~Live(o)' /\ NextOf(o)' = None
        /\ \A x \in Ops : x # o => Live(x)' = Live(x) /\ NextOf(x)' = NextOf(x)
    BY <1>6, <2>1 DEF Live, NextOf
  <2>4. ASSUME ~overtaken PROVE Placed' /\ Serves' /\ (refused' = {} => Settling')
    <3>1. Made(o) /\ (away <=> NextOf(o) # None)
      BY <1>7, <1>8, <1>11, <2>4 DEF Placed, Made, NextOf
    <3>2. Placed'
      <4>1. ASSUME NEW x \in Ops, x # o, Live(x) PROVE Made(x)'
        <5>1. Made(x)
          BY <1>8, <2>4, <4>1 DEF Placed
        <5>2. registry'.ops[x] = registry.ops[x] /\ NextOf(x)' = NextOf(x) /\ Target(x)' = Target(x)
              /\ attempted'[x] = attempted[x] /\ Known(x)' = Known(x)
          BY <1>1, <1>6, <2>1, <2>3, <4>1 DEF Quiet
        <5>3. NextOf(x) # None => registry'.staged[Target(x)] = x
          <6> SUFFICES ASSUME NextOf(x) # None PROVE registry'.staged[Target(x)] = x
            OBVIOUS
          <6>1. registry.staged[Target(x)] = x /\ Target(x) \in Revisions
            BY <5>1, LiveIsMade, EndpointFacts, <1>8, <2>4 DEF Made, Kept
          <6> QED BY <2>1, <4>1, <6>1
        <5> QED BY <5>1, <5>2, <5>3 DEF Made
      <4>2. ASSUME NEW r \in Revisions, registry'.staged[r] # Absent
            PROVE  /\ registry'.staged[r] = registry.staged[r] /\ registry.staged[r] \in Ops \ {o}
                   /\ Live(registry.staged[r]) /\ NextOf(registry.staged[r]).revision = r
        <5>1. registry.staged[r] \in Ops /\ registry'.staged[r] = registry.staged[r]
          BY <1>5, <2>1, <4>2 DEF Registries
        <5>2. Live(registry.staged[r]) /\ NextOf(registry.staged[r]).revision = r
          BY <1>8, <2>4, <5>1, <4>2 DEF Placed
        <5>3. registry.staged[r] # o
          BY <2>1, <3>1, <4>2, <5>1, <5>2, EndpointFacts, RevisionsAssumption DEF NextOf
        <5> QED BY <5>1, <5>2, <5>3
      <4>3. None \notin registry'.alive
        BY <1>8, <2>1, <2>4 DEF Placed
      <4>4. \A x \in Ops : (IF Live(x) THEN Made(x) ELSE NextOf(x) = None)'
        <5> SUFFICES ASSUME NEW x \in Ops PROVE IF Live(x)' THEN Made(x)' ELSE NextOf(x)' = None
          OBVIOUS
        <5>1. CASE x = o
          BY <1>6, <2>1, <5>1 DEF Live, NextOf
        <5>2. CASE x # o
          BY <1>8, <2>3, <2>4, <4>1, <5>2 DEF Placed
        <5> QED BY <5>1, <5>2
      <4>5. \A r \in Revisions : (registry.staged[r] # Absent =>
              Live(registry.staged[r]) /\ NextOf(registry.staged[r]).revision = r)'
        <5> SUFFICES ASSUME NEW r \in Revisions, registry'.staged[r] # Absent
                     PROVE  Live(registry.staged[r])' /\ NextOf(registry.staged[r])'.revision = r
          OBVIOUS
        <5>1. registry'.ops[registry.staged[r]] = registry.ops[registry.staged[r]]
          BY <2>1, <4>2
        <5> QED BY <4>2, <5>1 DEF Live, NextOf
      <4> QED BY <1>1, <4>3, <4>4, <4>5 DEF Placed
    <3>3. Owned(o) /\ journal.installed # Target(o)
      <4>1. Owned(o) /\ ~Arrived(o)
        BY <1>3, <1>7, <1>11
      <4> QED BY <1>7, <2>4, <4>1, OwnedFacts DEF Kept, Arrived
    <3>4. Serves'
      <4>1. host'.gate = Absent => Calls(journal.installed)'
        <5> SUFFICES ASSUME host'.gate = Absent PROVE Calls(journal.installed)'
          OBVIOUS
        <5>1. Calls(journal.installed)
          BY <1>8, <2>4
        <5>2. away => NextOf(o).revision = Target(o)
          BY <3>1 DEF Made
        <5> QED BY <1>1, <1>5, <2>1, <3>3, <5>1, <5>2 DEF Calls, NextOf, Quiet
      <4> QED BY <1>1, <1>6, <1>7, <1>8, <2>4, <4>1 DEF Serves, Holding
    <3>5. ASSUME refused' = {} PROVE Settling'
      <4>1. Settling
        BY <1>1, <1>8, <2>4, <3>5 DEF Quiet
      <4>2. it.previous = registry.active /\ registry.active = host.agent
        BY <1>1, <1>7, <1>11, <3>3, <4>1 DEF Settling, Sides, Uses, Owned
      <4>3. \A x \in Ops : x # o /\ Live(x) => registry.ops[x].state = "prepared" /\ ~Owed(x)
        BY <1>8, <2>4, <4>1 DEF Settling, Owners, Live
      <4>4. Owners'
        BY <1>1, <1>6, <2>1, <2>3, <4>1 DEF Settling, Owners, Quiet
      <4>5. Sides'
        <5> SUFFICES ASSUME NEW x \in Ops, x # o, Live(x)
                     PROVE  NextOf(x) # None => NextOf(x) \in registry'.alive /\ NextOf(x) \notin {registry.active, host.agent}
          BY <1>1, <1>5, <1>6, <2>1, <2>3, <4>3 DEF Sides
        <5>1. NextOf(x) # None => NextOf(x) \in registry.alive /\ NextOf(x) \notin {registry.active, host.agent}
          BY <4>1, <4>3 DEF Settling, Sides
        <5>2. NextOf(x) # None => NextOf(x) # NextOf(o)
          BY <1>7, <1>8, <2>4, <4>3, Apart DEF Kept
        <5> QED BY <2>1, <5>1, <5>2 DEF NextOf
      <4>6. Undone'
        BY <1>1, <2>3 DEF Undone
      <4>7. Uses'
        <5>1. \A e \in registry'.alive : e \in {host.agent, registry.active} \/ \E x \in Ops : Live(x)' /\ e = NextOf(x)'
          <6> SUFFICES ASSUME NEW e \in registry'.alive, e \notin {host.agent, registry.active}
                       PROVE  \E x \in Ops : Live(x)' /\ e = NextOf(x)'
            OBVIOUS
          <6>1. e \in registry.alive /\ e # NextOf(o)
            BY <1>8, <2>1, <2>4, <3>1 DEF NextOf, Placed
          <6>2. PICK x \in Ops : Live(x) /\ e = NextOf(x)
            BY <4>1, <6>1 DEF Settling, Uses
          <6> QED BY <2>3, <6>1, <6>2
        <5>2. host.agent # None => registry'.resolved[host.agent.revision] = host.agent
          BY <2>1, <4>2
        <5> QED BY <1>1, <1>5, <2>1, <4>2, <5>1, <5>2 DEF Uses
      <4> QED BY <1>9, <4>1, <4>4, <4>5, <4>6, <4>7 DEF Settling
    <3> QED BY <3>2, <3>4, <3>5
  <2> QED BY <1>1, <1>2, <1>4, <2>2, <2>4 DEF Kept, Agreed, Quiet
<1>12. ~Live(o) \/ ~owed => registry' = registry
  BY <1>1 DEF Live, RollbackActivation
<1> QED BY <1>1, <1>10, <1>11, <1>12 DEF Live

LEMMA ApplicableMoves ==
  ASSUME NEW q \in Requests, NEW i, Catalog!Applicable(q, i)
  PROVE  q.target # i
<1>1. /\ q.kind \in {"install", "update", "uninstall"}
      /\ q.kind = "install" => q.target \in Revisions
      /\ q.kind = "uninstall" => q.target = Absent
  BY DEF Requests, Catalog!Requests
<1> QED BY <1>1, RevisionsAssumption DEF Catalog!Applicable

LEMMA PrepareAgrees == ASSUME Kept, Prepare PROVE Kept'
<1> DEFINE o == Head1
           it == registry.ops[o]
           next == IF Target(o) = Absent THEN None ELSE Endpoint(Target(o), o)
<1>1. /\ Quiet /\ at = "prepare" /\ at' \in {"record", "rollback"} /\ UNCHANGED <<host, up, stuck>>
      /\ run' \in {run, [run EXCEPT !.staged = Target(o) # Absent]}
      /\ \/ at' = "rollback" /\ registry' = registry /\ residue' = residue
         \/ PrepareAccepted(o) /\ registry' = PrepareActivation(o) /\ at' = "record" /\ residue' = residue
         \/ PrepareAccepted(o) /\ registry' = PrepareActivation(o) /\ at' = "rollback" /\ residue' = residue \cup {o}
  BY DEF Prepare, Running, Quiet
<1>2. IInv'
  BY PrepareKeeps DEF Kept
<1>3. /\ Rec(o).status = "pending" /\ Rec(o).phase = "recorded" /\ o \in Ops /\ ~Owned(o)
      /\ request[o] \in Requests /\ Target(o) \in Targets /\ Known(o) /\ attempted[o] # "new"
      /\ Catalog!Applicable(request[o], journal.installed) /\ (refused = {} => Owed(o))
  BY <1>1, HeadFacts, HeadOwned DEF Kept, InOrder, PhaseAt, Owned, Rec, Owed, Unresolved
<1>4. ~run.mutation /\ run' \in [mutation : BOOLEAN, staged : BOOLEAN] /\ ~run'.mutation
  BY <1>1 DEF Kept, InOrder, Holding, Fielded
<1>5. InOrder' /\ up /\ (~overtaken => Alone /\ Alone')
  BY <1>1, <1>2, <1>3, <1>4, QuietOrder DEF Holding, PhaseAt, Phases
<1>6. registry \in Registries /\ it \in Activations
  BY <1>3 DEF Kept, Fielded, Registries
<1>7. /\ o' = o /\ \A x \in Ops :
           /\ Known(x)' = Known(x) /\ Rec(x)' = Rec(x) /\ Target(x)' = Target(x) /\ Owed(x)' = Owed(x)
           /\ Owned(x)' = Owned(x) /\ Arrived(x)' = Arrived(x)
  BY <1>1, Same DEF Quiet
<1>8. ASSUME ~overtaken
      PROVE  /\ Alone /\ Placed /\ Serves /\ (refused = {} => Settling)
             /\ (\A x \in Ops : Owned(x) \/ Owed(x) => x = o) /\ \A x \in Ops : ~Owned(x)
  <2>1. Alone /\ Placed /\ Serves /\ (refused = {} => Settling)
    BY <1>5, <1>8 DEF Kept, Agreed
  <2> QED BY <1>1, <1>3, <2>1, OnlyHeadOwed
<1>9. host.gate = Absent /\ ~overtaken => Calls(journal.installed)
  BY <1>1, <1>8 DEF Serves
<1>10. ASSUME Settling PROVE Gates'
  BY <1>1, <1>4, <1>10 DEF Settling, Gates, Holding
<1>11. CASE registry' = registry /\ (at' = "record" => Live(o))
  <2>1. Fielded'
    BY <1>1, <1>4, <1>11 DEF Kept, Fielded
  <2>2. ASSUME ~overtaken PROVE Placed' /\ Serves' /\ (refused' = {} => Settling')
    <3>1. \A x \in Ops : Live(x)' = Live(x) /\ NextOf(x)' = NextOf(x)
      BY <1>11, SameRegistry
    <3>2. Placed'
      <4>1. \A x \in Ops : Live(x) => Known(x)' /\ attempted'[x] # "new" /\ Target(x)' = Target(x)
        BY <1>1, <1>7, <1>8, <2>2 DEF Placed, Made, Quiet
      <4> QED BY <1>1, <1>8, <1>11, <2>2, <4>1, PlacedStays
    <3>3. Serves'
      <4>1. host'.gate = Absent => Calls(journal.installed)'
        BY <1>1, <1>9, <1>11, <2>2 DEF Calls, Quiet
      <4> QED BY <1>1, <1>4, <1>7, <1>8, <2>2, <4>1 DEF Serves
    <3>4. ASSUME refused' = {} PROVE Settling'
      <4>1. Settling
        BY <1>1, <1>8, <2>2, <3>4 DEF Quiet
      <4>2. Owners'
        BY <1>1, <1>7, <1>11, <3>1, <4>1 DEF Settling, Owners, Quiet
      <4>3. Sides'
        BY <1>1, <1>7, <1>11, <3>1, <4>1 DEF Settling, Sides, Quiet
      <4>4. Undone'
        BY <1>1, <1>3, <1>7, <1>8, <1>11, <2>2, <3>1 DEF Undone
      <4>5. Uses'
        BY <1>1, <1>11, <4>1, UsesStays DEF Settling
      <4> QED BY <1>10, <4>1, <4>2, <4>3, <4>4, <4>5 DEF Settling
    <3> QED BY <3>2, <3>3, <3>4
  <2> QED BY <1>1, <1>2, <1>5, <2>1, <2>2 DEF Kept, Agreed, Quiet
<1>12. CASE PrepareAccepted(o) /\ it.state # "prepared" /\ registry' = PrepareActivation(o)
               /\ (at' = "record" \/ residue' = residue \cup {o}) /\ residue' \in {residue, residue \cup {o}}
  <2>1. /\ registry' \in Registries /\ registry'.active = registry.active /\ registry'.resolved = registry.resolved
        /\ registry'.alive = (IF next = None THEN registry.alive ELSE registry.alive \cup {next})
        /\ \A x \in Ops : x # o => registry'.ops[x] = registry.ops[x]
        /\ registry'.ops[o].state = "prepared" /\ registry'.ops[o].next = next /\ registry'.ops[o].previous = registry.active
        /\ \A r \in Revisions : registry'.staged[r] =
             IF next # None /\ r = next.revision THEN o ELSE registry.staged[r]
    BY <1>3, <1>6, <1>12, PrepareFields
  <2>2. Fielded'
    BY <1>1, <1>4, <2>1 DEF Kept, Fielded
  <2>3. /\ Live(o)' /\ NextOf(o)' = next /\ ~Live(o)
        /\ \A x \in Ops : x # o => Live(x)' = Live(x) /\ NextOf(x)' = NextOf(x)
        /\ registry.active.revision = journal.installed
        /\ it.state = "none" /\ (Target(o) # Absent => registry.staged[Target(o)] = Absent)
    BY <1>7, <1>12, <2>1 DEF Live, NextOf, PrepareAccepted
  <2>4. /\ next = None <=> Target(o) = Absent
        /\ next # None => next.revision = Target(o) /\ next.by = o /\ Target(o) \in Revisions
        /\ next # None => next # registry.active
    <3>1. CASE Target(o) = Absent
      BY <3>1
    <3>2. CASE Target(o) # Absent
      <4>1. Target(o) \in Revisions
        BY <1>3, <3>2 DEF Targets
      <4>2. Target(o) # journal.installed
        BY <1>3, ApplicableMoves DEF Target
      <4>3. next # None /\ next.revision = Target(o) /\ next.by = o
        BY <1>3, <3>2, <4>1, EndpointFacts
      <4> QED BY <2>3, <3>2, <4>1, <4>2, <4>3
    <3> QED BY <3>1, <3>2
  <2>5. ASSUME ~overtaken PROVE Placed' /\ Serves' /\ (refused' = {} => Settling')
    <3>1. Placed'
      <4>1. Made(o)'
        <5>1. next # None => registry'.staged[Target(o)] = o
          BY <2>1, <2>4
        <5>2. Target(o)' = Target(o) /\ Known(o)' /\ attempted'[o] # "new"
          BY <1>1, <1>3, <1>7 DEF Quiet
        <5> QED BY <1>3, <1>7, <2>1, <2>3, <2>4, <5>1, <5>2 DEF Made
      <4>2. ASSUME NEW x \in Ops, x # o, Live(x) PROVE Made(x)'
        <5>1. Made(x)
          BY <1>8, <2>5, <4>2 DEF Placed
        <5>2. registry'.ops[x] = registry.ops[x] /\ NextOf(x)' = NextOf(x) /\ Target(x)' = Target(x)
              /\ attempted'[x] = attempted[x] /\ Known(x)' = Known(x)
          BY <1>1, <1>7, <2>1, <2>3, <4>2 DEF Quiet
        <5>3. NextOf(x) # None => registry'.staged[Target(x)] = x
          <6> SUFFICES ASSUME NextOf(x) # None PROVE registry'.staged[Target(x)] = x
            OBVIOUS
          <6>1. registry.staged[Target(x)] = x /\ Target(x) \in Revisions
            BY <5>1, LiveIsMade, EndpointFacts, <1>8, <2>5 DEF Made, Kept
          <6>2. next # None => Target(x) # next.revision
            BY <2>3, <2>4, <6>1, OpsAssumption
          <6> QED BY <2>1, <6>1, <6>2
        <5> QED BY <5>1, <5>2, <5>3 DEF Made
      <4>3. None \notin registry'.alive
        BY <1>8, <2>1, <2>5 DEF Placed
      <4>4. \A x \in Ops : (IF Live(x) THEN Made(x) ELSE NextOf(x) = None)'
        <5> SUFFICES ASSUME NEW x \in Ops PROVE IF Live(x)' THEN Made(x)' ELSE NextOf(x)' = None
          OBVIOUS
        <5>1. CASE x = o
          <6>1. Live(x)' /\ Made(x)'
            BY <1>7, <4>1, <2>1, <5>1 DEF Live, Made, NextOf, Known, Rec, Target
          <6> QED BY <6>1
        <5>2. CASE x # o
          BY <1>8, <2>3, <2>5, <4>2, <5>2 DEF Placed
        <5> QED BY <5>1, <5>2
      <4>5. \A r \in Revisions : (registry.staged[r] # Absent =>
              Live(registry.staged[r]) /\ NextOf(registry.staged[r]).revision = r)'
        <5> SUFFICES ASSUME NEW r \in Revisions, registry'.staged[r] # Absent
                     PROVE  registry'.ops[registry'.staged[r]].state \in {"prepared", "committed"}
                            /\ registry'.ops[registry'.staged[r]].next.revision = r
          BY DEF Live, NextOf
        <5>1. CASE next # None /\ r = next.revision
          BY <2>1, <5>1
        <5>2. CASE ~(next # None /\ r = next.revision)
          <6>1. registry'.staged[r] = registry.staged[r] /\ registry.staged[r] \in Ops
            BY <1>6, <2>1, <5>2 DEF Registries
          <6>2. Live(registry.staged[r]) /\ NextOf(registry.staged[r]).revision = r
            BY <1>8, <2>5, <6>1 DEF Placed
          <6> QED BY <2>1, <2>3, <6>1, <6>2 DEF Live, NextOf
        <5> QED BY <5>1, <5>2
      <4> QED BY <1>1, <4>3, <4>4, <4>5 DEF Placed
    <3>2. Serves'
      <4>1. host'.gate = Absent => Calls(journal.installed)'
        BY <1>1, <1>9, <2>1, <2>5 DEF Calls, Quiet
      <4> QED BY <1>1, <1>4, <1>7, <1>8, <2>5, <4>1 DEF Serves
    <3>3. ASSUME refused' = {} PROVE Settling'
      <4>1. Settling /\ refused = {}
        BY <1>1, <1>8, <2>5, <3>3 DEF Quiet
      <4>2. \A x \in Ops : registry.ops[x].state # "committed"
        BY <1>8, <2>5, <4>1 DEF Settling, Owners
      <4>3. Owners'
        <5> SUFFICES ASSUME NEW x \in Ops
                     PROVE  /\ registry'.ops[x].state # "committed"
                            /\ registry'.ops[x].state = "prepared" => x \in residue' \/ (at' = "record" /\ x = o)
                            /\ registry'.ops[x].state # "retired"
          BY <1>7, <1>8, <2>5 DEF Owners
        <5>1. CASE x = o
          BY <1>12, <1>1, <2>1, <5>1
        <5>2. CASE x # o
          BY <1>1, <1>8, <1>12, <2>1, <2>5, <4>1, <4>2, <5>2 DEF Settling, Owners
        <5> QED BY <5>1, <5>2
      <4>4. registry.active = host.agent
        BY <1>1, <4>1 DEF Settling, Uses
      <4>5. Sides'
        <5> SUFFICES ASSUME NEW x \in Ops, Live(x)'
                     PROVE  /\ x = o => registry'.ops[x].previous = registry.active
                            /\ registry'.ops[x].state # "committed"
                            /\ NextOf(x)' # None => NextOf(x)' \in registry'.alive /\ NextOf(x)' \notin {registry.active, host.agent}
          BY <1>1, <1>7, <1>8, <2>1, <2>5 DEF Sides
        <5>1. CASE x = o
          BY <1>7, <2>1, <2>4, <4>4, <5>1 DEF NextOf
        <5>2. CASE x # o
          BY <2>1, <2>3, <4>1, <4>2, <5>2 DEF Settling, Sides, Live, NextOf
        <5> QED BY <5>1, <5>2
      <4>6. Undone'
        BY <1>1, <1>7, <1>8, <2>3, <2>5 DEF Undone
      <4>7. Uses'
        <5>1. \A e \in registry'.alive : e \in {host.agent, registry.active} \/ \E x \in Ops : Live(x)' /\ e = NextOf(x)'
          <6> SUFFICES ASSUME NEW e \in registry'.alive, e \notin {host.agent, registry.active}
                       PROVE  \E x \in Ops : Live(x)' /\ e = NextOf(x)'
            OBVIOUS
          <6>1. CASE e = next /\ next # None
            <7>1. registry'.ops[o].state = "prepared" /\ registry'.ops[o].next = e
              BY <2>1, <6>1
            <7> QED BY <1>3, <7>1 DEF Live, NextOf
          <6>2. CASE e \in registry.alive
            <7>1. PICK x \in Ops : Live(x) /\ e = NextOf(x)
              BY <4>1, <6>2 DEF Settling, Uses
            <7> QED BY <2>3, <7>1
          <6> QED BY <2>1, <6>1, <6>2
        <5>2. host.agent # None => registry'.resolved[host.agent.revision] = host.agent
          BY <2>1, <4>1, <4>2 DEF Settling, Uses, Ahead
        <5> QED BY <1>1, <2>1, <4>4, <5>1, <5>2 DEF Uses
      <4> QED BY <1>10, <4>1, <4>3, <4>5, <4>6, <4>7 DEF Settling
    <3> QED BY <3>1, <3>2, <3>3
  <2> QED BY <1>1, <1>2, <1>5, <2>2, <2>5 DEF Kept, Agreed, Quiet
<1>13. it.state = "prepared" => Live(o) /\ PrepareActivation(o) = registry
  BY DEF Live, PrepareActivation
<1> QED BY <1>1, <1>11, <1>12, <1>13

-----------------------------------------------------------------------------
(* The steps that write the record of the operation that runs. *)

\* What a commit of the head's record leaves alone.
LEMMA WriteFrame ==
  ASSUME IInv, NEW o \in Ops, NEW state, Changes(o, state), journal' = state, UNCHANGED <<request, attempted>>,
         state.records[o].status # "absent"
  PROVE  /\ \A x \in Ops : Target(x)' = Target(x)
         /\ \A x \in Ops \ {o} :
              /\ Known(x)' = Known(x) /\ Rec(x)' = Rec(x) /\ Owed(x)' = Owed(x)
              /\ Owned(x)' = Owned(x) /\ Arrived(x)' = Arrived(x) /\ journal'.records[x] = journal.records[x]
         /\ Known(o)' /\ Rec(o)' = state.records[o] /\ journal'.records[o] = state.records[o]
         /\ Owed(o)' = Unresolved(state.records[o]) /\ Owned(o)' = (Owed(o)' /\ state.records[o].phase # "recorded")
         /\ Arrived(o)' = (state.records[o].phase = "catalogCommitted")
         /\ Only(o, journal)' = Only(o, journal)
<1>1. \A x \in Ops \ {o} : journal'.records[x] = journal.records[x]
  BY DEF Changes
<1> QED BY <1>1 DEF Target, Known, Rec, Owed, Owned, Arrived, Only, Unresolved

\* The commit of a record is refused.
LEMMA RefusedAgrees ==
  ASSUME Kept, IInv', NEW state, Refuses(state), UNCHANGED <<request, attempted, tail, run, registry, host, up, overtaken>>,
         \/ at \in {"record", "recordCommitted", "catalog"} /\ at' = "rollback"
         \/ at \in {"restore", "succeed"} /\ at' = "fail"
  PROVE  Kept'
<1> DEFINE o == Head1
<1>1. /\ journal' = journal /\ refused' # {}
      /\ up /\ o \in Ops /\ Known(o) /\ o # Absent
      /\ at' # "fail" => Rec(o).phase \in {"recorded", "activationPrepared", "activationCommitted"}
      /\ Rec(o).status = "pending"
  BY HeadFacts, OpsAssumption DEF Refuses, Kept, InOrder, PhaseAt
<1>2. /\ o' = o /\ Only(o, journal)' = Only(o, journal) /\ \A x \in Ops :
           /\ Known(x)' = Known(x) /\ Rec(x)' = Rec(x) /\ Target(x)' = Target(x) /\ Owed(x)' = Owed(x)
           /\ Owned(x)' = Owned(x) /\ Arrived(x)' = Arrived(x)
  BY <1>1, Same
<1>3. \A x \in Ops : Live(x)' = Live(x) /\ NextOf(x)' = NextOf(x)
  BY SameRegistry
<1>4. Fielded'
  BY DEF Kept, Fielded
<1>5. /\ at = "record" => ~run.mutation
      /\ run.mutation /\ at # "succeed" => host.gate = o
      /\ at \in {"recordCommitted", "catalog", "restore"} => run.mutation
  BY DEF Kept, InOrder, Holding
<1>6. InOrder'
  <2>1. Known(o)' /\ Unresolved(Rec(o)') /\ Rec(o)'.status = "pending"
    BY <1>1, <1>2 DEF Unresolved
  <2>2. at' # "fail" => Rec(o)'.phase \in PhaseAt(at')
    BY <1>1, <1>2 DEF PhaseAt, Phases
  <2>3. run'.mutation /\ at' # "fail" => host'.gate = o'
    BY <1>2, <1>5
  <2>4. \E x \in Ops : Known(x)' /\ Unresolved(Rec(x)')
    BY <1>1, <1>2, <2>1
  <2> QED BY <1>1, <1>2, <2>1, <2>2, <2>3, <2>4 DEF InOrder, Holding, PhaseAt, Unresolved
<1>7. ASSUME ~overtaken PROVE Alone' /\ Placed' /\ Serves'
  <2>1. Alone /\ Placed /\ Serves
    BY <1>1, <1>7 DEF Kept, Agreed
  <2>2. Alone'
    BY <1>2, <2>1 DEF Alone
  <2>3. Placed'
    <3>1. \A x \in Ops : Live(x) => Known(x)' /\ attempted'[x] # "new" /\ Target(x)' = Target(x)
      BY <1>2, <2>1 DEF Placed, Made
    <3> QED BY <2>1, <3>1, PlacedStays
  <2>4. Serves'
    <3>1. /\ at' \notin {"complete", "restore"} /\ (at' = "rollback" => at \notin {"complete", "restore"})
          /\ at' = "fail" => at' \notin Holding \cup {"rollback"}
      BY DEF Holding
    <3>2. host'.gate = Absent \/ (run'.mutation /\ at' = "rollback") => Calls(journal.installed)
      BY <1>1, <1>5, <2>1 DEF Serves, Holding
    <3>3. Calls(journal.installed)' = Calls(journal.installed)
      BY <1>1 DEF Calls
    <3> QED BY <1>2, <1>3, <2>1, <3>1, <3>2, <3>3 DEF Serves, Holding
  <2> QED BY <2>2, <2>3, <2>4
<1> QED BY <1>1, <1>4, <1>6, <1>7 DEF Kept, Agreed

\* The commit of a record that leaves the operation open and the registry alone.
LEMMA CommittedAgrees ==
  ASSUME Kept, IInv', NEW state, Changes(Head1, state), Commits(state),
         UNCHANGED <<request, attempted, tail, run, registry, host, up, residue, stuck, overtaken>>,
         state.records[Head1].status = "pending", state.records[Head1].phase \in PhaseAt(at'),
         at \in {"record", "recordCommitted", "catalog", "restore"},
         \/ at = "record" /\ at' = "acquire" /\ state.records[Head1].phase = "activationPrepared"
         \/ at = "recordCommitted" /\ at' = "catalog"
         \/ at = "catalog" /\ at' = "complete" /\ state.records[Head1].previous = Rec(Head1).previous
         \/ at = "restore" /\ at' = "rollback" /\ state.records[Head1].phase = "activationCommitted",
         state.installed = CASE at = "catalog" -> Target(Head1)
                             [] at = "restore" -> Rec(Head1).previous
                             [] OTHER -> journal.installed
  PROVE  Kept'
<1> DEFINE o == Head1
<1>1. /\ journal' = state /\ refused = {} /\ refused' = {}
      /\ up /\ o \in Ops /\ o # Absent /\ o' = o
      /\ Rec(o) = journal.records[o] /\ Rec(o).status = "pending" /\ Rec(o).phase \in PhaseAt(at) /\ Owed(o)
  BY HeadFacts, OpsAssumption, HeadOwned DEF Commits, Kept, InOrder, Head1
<1>2. /\ \A x \in Ops : Target(x)' = Target(x)
      /\ \A x \in Ops \ {o} :
           /\ Known(x)' = Known(x) /\ Rec(x)' = Rec(x) /\ Owed(x)' = Owed(x)
           /\ Owned(x)' = Owned(x) /\ Arrived(x)' = Arrived(x) /\ journal'.records[x] = journal.records[x]
      /\ Known(o)' /\ Rec(o)' = state.records[o] /\ journal'.records[o] = state.records[o]
      /\ Owed(o)' = Unresolved(state.records[o]) /\ Owned(o)' = (Owed(o)' /\ state.records[o].phase # "recorded")
      /\ Arrived(o)' = (state.records[o].phase = "catalogCommitted")
      /\ Only(o, journal)' = Only(o, journal)
  BY <1>1, WriteFrame DEF Kept
<1>3. \A x \in Ops : Live(x)' = Live(x) /\ NextOf(x)' = NextOf(x)
  BY SameRegistry
<1>4. Fielded'
  BY DEF Kept, Fielded
<1>5. /\ at = "record" => ~run.mutation
      /\ run.mutation => host.gate = o
      /\ at \in {"recordCommitted", "catalog", "restore"} => run.mutation
  BY DEF Kept, InOrder, Holding
<1>6. InOrder'
  <2>1. (PhaseAt(at))' = PhaseAt(at')
    BY DEF PhaseAt
  <2> QED BY <1>1, <1>2, <1>5, <2>1 DEF InOrder, Holding
<1>7. Owed(o)' /\ Owned(o)' /\ (at' # "complete" => ~Arrived(o)') /\ (at # "restore" => ~Arrived(o))
  BY <1>1, <1>2 DEF PhaseAt, Unresolved, Arrived
<1>8. ASSUME ~overtaken PROVE Alone' /\ Placed' /\ Serves' /\ Settling'
  <2>1. Alone /\ Placed /\ Serves /\ Settling /\ \A x \in Ops : Owned(x) \/ Owed(x) => x = o
    BY <1>1, <1>8, OnlyHeadOwed DEF Kept, Agreed
  <2>2. Alone'
    BY <1>1, <1>2, <2>1 DEF Alone
  <2>3. Placed'
    <3>1. \A x \in Ops : Live(x) => Known(x)' /\ attempted'[x] # "new" /\ Target(x)' = Target(x)
      BY <1>1, <1>2, <2>1 DEF Placed, Made
    <3>2. at' \in {"catalog", "complete"} /\ Target(o) # Absent => registry.staged[Target(o)] = o
      BY <2>1 DEF Placed
    <3> QED BY <1>1, <1>2, <2>1, <3>1, <3>2, PlacedStays
  <2>4. Serves'
    <3>1. at' = "complete" => Calls(Rec(Head1).previous)'
      <4> SUFFICES ASSUME at' = "complete" PROVE Calls(Rec(Head1).previous)'
        OBVIOUS
      <4>1. journal.installed = Rec(o).previous
        BY <1>1, <1>8, HeadOwned, OwnedFacts DEF Kept, Arrived
      <4>2. Calls(journal.installed)
        BY <1>5, <2>1 DEF Serves, Holding
      <4>3. Rec(Head1)' = state.records[o]
        BY <1>1, <1>2 DEF Rec
      <4> QED BY <4>1, <4>2, <4>3 DEF Calls
    <3>2. at' # "complete" /\ (host'.gate = Absent \/ (run'.mutation /\ at' \in Holding \cup {"rollback"})) =>
             Calls(journal.installed)'
      <4>1. CASE at = "restore"
        BY <1>1, <2>1, <4>1 DEF Serves, Calls
      <4>2. CASE at # "restore" /\ at' # "complete"
        <5>1. state.installed = journal.installed
          BY <4>2
        <5> QED BY <1>1, <1>5, <2>1, <4>2, <5>1 DEF Serves, Calls, Holding
      <4> QED BY <4>1, <4>2
    <3>3. \A x \in Ops : (Owned(x) /\ Arrived(x) /\ host.gate = Absent /\ Live(x) => NextOf(x) = host.agent)'
      BY <1>1, <1>2, <1>5, <1>7, <2>1
    <3> QED BY <3>1, <3>2, <3>3 DEF Serves
  <2>5. ~Owned(o) => \A x \in Ops : registry.ops[x].state # "committed"
    BY <2>1 DEF Settling, Owners
  <2>6. at # "record" => Owned(o)
    BY HeadOwned DEF Kept
  <2>7. Owners'
    <3> SUFFICES ASSUME NEW x \in Ops
                 PROVE  /\ registry.ops[x].state = "committed" => Owned(x)'
                        /\ registry.ops[x].state = "prepared" => Owned(x)' \/ x \in residue
                        /\ Owned(x)' /\ Live(x) /\ journal'.records[x].phase # "activationPrepared" =>
                             registry.ops[x].state = "committed"
                        /\ registry.ops[x].state # "retired"
      BY <1>3 DEF Owners
    <3>1. CASE x = o
      <4>1. at = "recordCommitted" => registry.ops[o].state = "committed"
        BY <2>1 DEF Settling, Undone
      <4>2. at \in {"catalog", "restore"} /\ Live(o) => registry.ops[o].state = "committed"
        BY <1>1, <2>1, <2>6 DEF Settling, Owners, PhaseAt
      <4> QED BY <1>1, <1>2, <1>7, <2>1, <3>1, <4>1, <4>2 DEF Settling, Owners
    <3>2. CASE x # o
      BY <1>2, <2>1, <3>2 DEF Settling, Owners
    <3> QED BY <3>1, <3>2
  <2>8. Sides'
    <3> SUFFICES ASSUME NEW x \in Ops, Live(x)
                 PROVE  /\ Owed(x)' => registry.ops[x].previous = registry.active
                        /\ registry.ops[x].state = "committed" /\ NextOf(x) # None => registry.resolved[Target(x)] = NextOf(x)
                        /\ NextOf(x) # None => NextOf(x) \in registry.alive
                        /\ registry.ops[x].state = "prepared" /\ NextOf(x) # None => NextOf(x) \notin {registry.active, host.agent}
      BY <1>2, <1>3 DEF Sides
    <3>1. Owed(x)' => x = o
      BY <1>2, <2>1
    <3>2. x = o => registry.ops[x].previous = registry.active
      BY <1>1, <1>7, <2>1 DEF Settling, Sides
    <3> QED BY <2>1, <3>1, <3>2 DEF Settling, Sides
  <2>9. Undone'
    <3>1. at' = "acquire" => \A x \in Ops : ~(Owned(x)' /\ journal'.records[x].phase = "activationCommitted")
      BY <1>2, <2>1
    <3> QED BY <1>5, <3>1 DEF Undone
  <2>10. Uses'
    BY <2>1, UsesStays DEF Settling
  <2>11. Gates'
    BY <1>5, <2>1 DEF Settling, Gates, Holding
  <2> QED BY <2>2, <2>3, <2>4, <2>7, <2>8, <2>9, <2>10, <2>11 DEF Settling
<1> QED BY <1>1, <1>4, <1>6, <1>8 DEF Kept, Agreed

LEMMA HeadRecordIsTyped ==
  ASSUME Kept, at # "idle"
  PROVE  /\ Head1 \in Ops /\ Rec(Head1) \in Record /\ journal.installed \in Targets /\ Target(Head1) \in Targets
         /\ Rec(Head1).previous \in Targets /\ Rec(Head1).status # "absent" /\ Types
<1>1. Head1 \in Ops /\ Rec(Head1) \in Record /\ Target(Head1) \in Targets
  BY HeadFacts DEF Kept
<1>2. journal.installed \in Targets /\ Types
  BY <1>1, RecordsAreTyped DEF Kept, IInv
<1> QED BY <1>1, <1>2 DEF Record, Rec, Pending, NoRecord

LEMMA RecordPreparedAgrees == ASSUME Kept, RecordPhase("record", "activationPrepared", "acquire") PROVE Kept'
<1> DEFINE o == Head1
           record == [status |-> "pending", phase |-> "activationPrepared", previous |-> journal.installed]
           state == WithRecord(o, record)
<1>1. /\ at = "record"
      /\ \/ Commits(state) /\ at' = "acquire"
         \/ Refuses(state) /\ at' = "rollback"
      /\ UNCHANGED <<request, attempted, tail, run, registry, host, up, residue, stuck, overtaken>>
  BY DEF RecordPhase, Running
<1>2. IInv'
  BY RecordPreparedKeeps DEF Kept
<1>3. record \in Record /\ record.status = "pending" /\ record.phase = "activationPrepared"
  BY <1>1, HeadRecordIsTyped DEF Record, Phases
<1> HIDE DEF record
<1>4. Changes(o, state) /\ state.records[o] = record /\ state.installed = journal.installed
  BY <1>1, <1>3, HeadRecordIsTyped, WithRecordChanges
<1> HIDE DEF state
<1>5. CASE Commits(state) /\ at' = "acquire"
  <2>1. state.records[o].phase \in PhaseAt(at')
    BY <1>3, <1>4, <1>5 DEF PhaseAt
  <2> QED BY <1>1, <1>2, <1>3, <1>4, <1>5, <2>1, CommittedAgrees
<1>6. CASE Refuses(state) /\ at' = "rollback"
  BY <1>1, <1>2, <1>6, RefusedAgrees
<1> QED BY <1>1, <1>5, <1>6

LEMMA RecordCommittedAgrees ==
  ASSUME Kept, RecordPhase("recordCommitted", "activationCommitted", "catalog") PROVE Kept'
<1> DEFINE o == Head1
           record == [status |-> "pending", phase |-> "activationCommitted", previous |-> Rec(o).previous]
           state == WithRecord(o, record)
<1>1. /\ at = "recordCommitted"
      /\ \/ Commits(state) /\ at' = "catalog"
         \/ Refuses(state) /\ at' = "rollback"
      /\ UNCHANGED <<request, attempted, tail, run, registry, host, up, residue, stuck, overtaken>>
  BY DEF RecordPhase, Running
<1>2. IInv'
  BY RecordCommittedKeeps DEF Kept
<1>3. record \in Record /\ record.status = "pending" /\ record.phase = "activationCommitted"
  BY <1>1, HeadRecordIsTyped DEF Record, Phases
<1> HIDE DEF record
<1>4. Changes(o, state) /\ state.records[o] = record /\ state.installed = journal.installed
  BY <1>1, <1>3, HeadRecordIsTyped, WithRecordChanges
<1> HIDE DEF state
<1>5. CASE Commits(state) /\ at' = "catalog"
  <2>1. state.records[o].phase \in PhaseAt(at')
    BY <1>3, <1>4, <1>5 DEF PhaseAt
  <2> QED BY <1>1, <1>2, <1>3, <1>4, <1>5, <2>1, CommittedAgrees
<1>6. CASE Refuses(state) /\ at' = "rollback"
  BY <1>1, <1>2, <1>6, RefusedAgrees
<1> QED BY <1>1, <1>5, <1>6

LEMMA CommitCatalogAgrees == ASSUME Kept, CommitCatalog PROVE Kept'
<1> DEFINE o == Head1
           record == [Rec(o) EXCEPT !.phase = "catalogCommitted"]
           state == [WithRecord(o, record) EXCEPT !.installed = Target(o)]
<1>1. /\ at = "catalog"
      /\ \/ Commits(state) /\ at' = "complete"
         \/ Refuses(state) /\ at' = "rollback"
      /\ UNCHANGED <<request, attempted, tail, run, registry, host, up, residue, stuck, overtaken>>
  BY DEF CommitCatalog, Running
<1>2. IInv'
  BY CommitCatalogKeeps DEF Kept
<1>3. /\ record \in Record /\ record.status = "pending" /\ record.phase = "catalogCommitted"
      /\ record.previous = Rec(o).previous
  BY <1>1, HeadRecordIsTyped DEF Record, Phases, Kept, InOrder
<1> HIDE DEF record
<1>4. Changes(o, state) /\ state.records[o] = record /\ state.installed = Target(o)
  BY <1>1, <1>3, HeadRecordIsTyped, WithRecordChanges
<1> HIDE DEF state
<1>5. CASE Commits(state) /\ at' = "complete"
  <2>1. state.records[o].phase \in PhaseAt(at')
    BY <1>3, <1>4, <1>5 DEF PhaseAt
  <2> QED BY <1>1, <1>2, <1>3, <1>4, <1>5, <2>1, CommittedAgrees
<1>6. CASE Refuses(state) /\ at' = "rollback"
  BY <1>1, <1>2, <1>6, RefusedAgrees
<1> QED BY <1>1, <1>5, <1>6

LEMMA RestorePreviousAgrees == ASSUME Kept, RestorePrevious PROVE Kept'
<1> DEFINE o == Head1
           record == [Rec(o) EXCEPT !.phase = "activationCommitted"]
           state == [WithRecord(o, record) EXCEPT !.installed = Rec(o).previous]
<1>1. /\ at = "restore"
      /\ \/ Commits(state) /\ at' = "rollback"
         \/ Refuses(state) /\ at' = "fail"
      /\ UNCHANGED <<request, attempted, tail, run, registry, host, up, residue, stuck, overtaken>>
  BY DEF RestorePrevious, PreviousState, Running
<1>2. IInv'
  BY RestorePreviousKeeps DEF Kept
<1>3. record \in Record /\ record.status = "pending" /\ record.phase = "activationCommitted"
  BY <1>1, HeadRecordIsTyped DEF Record, Phases, Kept, InOrder
<1> HIDE DEF record
<1>4. Changes(o, state) /\ state.records[o] = record /\ state.installed = Rec(o).previous
  BY <1>1, <1>3, HeadRecordIsTyped, WithRecordChanges
<1> HIDE DEF state
<1>5. CASE Commits(state) /\ at' = "rollback"
  <2>1. state.records[o].phase \in PhaseAt(at')
    BY <1>3, <1>4, <1>5 DEF PhaseAt, Phases
  <2> QED BY <1>1, <1>2, <1>3, <1>4, <1>5, <2>1, CommittedAgrees
<1>6. CASE Refuses(state) /\ at' = "fail"
  BY <1>1, <1>2, <1>6, RefusedAgrees
<1> QED BY <1>1, <1>5, <1>6

-----------------------------------------------------------------------------
(* The operation leaves the queue. *)

LEMMA AcknowledgedIsOver ==
  ASSUME Fielded, Placed, NEW o \in Ops, registry' \in {registry, Acknowledge(o)}
  PROVE  /\ registry' \in Registries /\ registry'.active = registry.active /\ registry'.resolved = registry.resolved
         /\ registry'.staged = registry.staged /\ registry'.alive = registry.alive
         /\ \A x \in Ops :
              /\ Live(x)' = Live(x) /\ NextOf(x)' = NextOf(x)
              /\ Live(x) => registry'.ops[x] = registry.ops[x]
              /\ registry'.ops[x].state \in {"prepared", "committed"} <=> registry.ops[x].state \in {"prepared", "committed"}
              /\ registry'.ops[x].state = "retired" =>
                   registry.ops[x].state = "retired" /\ (x = o => registry' # Acknowledge(o))
<1>1. registry \in Registries
  BY DEF Fielded
<1>2. CASE registry' = registry
  <2>1. \A x \in Ops : registry'.ops[x].state = "retired" => (x = o => registry' # Acknowledge(o))
    BY <1>1, <1>2, AcknowledgeFields, NoActivationTyped
  <2> QED BY <1>1, <1>2, <2>1, SameRegistry
<1>3. CASE registry' = Acknowledge(o)
  <2>1. /\ registry' \in Registries /\ registry'.active = registry.active /\ registry'.resolved = registry.resolved
        /\ registry'.staged = registry.staged /\ registry'.alive = registry.alive
        /\ \A x \in Ops : x # o => registry'.ops[x] = registry.ops[x]
        /\ registry'.ops[o] = IF registry.ops[o].state \in {"retired", "rolledBack"} THEN NoActivation ELSE registry.ops[o]
    BY <1>1, <1>3, AcknowledgeFields
  <2>2. CASE registry.ops[o].state \in {"retired", "rolledBack"}
    <3>1. /\ registry'.ops[o].state = "none" /\ registry'.ops[o].next = None /\ ~Live(o) /\ NextOf(o) = None
      BY <2>1, <2>2, NoActivationTyped, LiveIsMade DEF Live, NoActivation
    <3> QED BY <2>1, <2>2, <3>1 DEF Live, NextOf
  <2>3. CASE registry.ops[o].state \notin {"retired", "rolledBack"}
    BY <2>1, <2>3 DEF Live, NextOf
  <2> QED BY <2>2, <2>3
<1> QED BY <1>2, <1>3

LEMMA LeavesAgrees ==
  ASSUME Kept, IInv', NEW state, Changes(Head1, state), Commits(state),
         UNCHANGED <<request, attempted, host, up, residue, stuck, overtaken>>,
         at \in {"succeed", "fail"}, at' = "idle", run' = NoRun, registry' \in {registry, Acknowledge(Head1)},
         at = "succeed" => registry' = Acknowledge(Head1),
         state.installed = journal.installed, state.records[Head1].status # "absent",
         Unresolved(state.records[Head1]) => at = "fail" /\ state.records[Head1].phase = Rec(Head1).phase
  PROVE  Kept'
<1> DEFINE o == Head1
<1>1. /\ journal' = state /\ refused = {} /\ refused' = {}
      /\ up /\ o \in Ops /\ o # Absent /\ attempted[o] # "new"
      /\ Rec(o) = journal.records[o]
  BY HeadFacts, OpsAssumption DEF Commits, Kept, InOrder, Head1
<1>2. /\ \A x \in Ops : Target(x)' = Target(x)
      /\ \A x \in Ops \ {o} :
           /\ Known(x)' = Known(x) /\ Rec(x)' = Rec(x) /\ Owed(x)' = Owed(x)
           /\ Owned(x)' = Owned(x) /\ Arrived(x)' = Arrived(x) /\ journal'.records[x] = journal.records[x]
      /\ journal'.records[o] = state.records[o]
      /\ \A x \in Ops : Known(x) => Known(x)'
  <2> SUFFICES ASSUME NEW h, h = Head1
               PROVE  /\ \A x \in Ops : Target(x)' = Target(x)
                      /\ \A x \in Ops \ {h} :
                           /\ Known(x)' = Known(x) /\ Rec(x)' = Rec(x) /\ Owed(x)' = Owed(x)
                           /\ Owned(x)' = Owned(x) /\ Arrived(x)' = Arrived(x) /\ journal'.records[x] = journal.records[x]
                      /\ journal'.records[h] = state.records[h]
                      /\ \A x \in Ops : Known(x) => Known(x)'
    OBVIOUS
  <2> QED BY <1>1, WriteFrame DEF Kept
<1>3. Fielded' /\ ~run'.mutation
  <2>1. registry' \in Registries
    BY <1>1, AcknowledgeFields DEF Kept, Fielded
  <2> QED BY <2>1 DEF Kept, Fielded, NoRun
<1>4. InOrder'
  BY <1>1, <1>3 DEF InOrder, Holding
<1>5. Alone'
  BY DEF Alone
<1>6. ASSUME ~overtaken PROVE Placed' /\ Serves' /\ Settling'
  <2>1. Alone /\ Placed /\ Serves /\ Settling /\ \A x \in Ops : Owned(x) \/ Owed(x) => x = o
    BY <1>1, <1>6, OnlyHeadOwed DEF Kept, Agreed
  <2>2. /\ registry'.active = registry.active /\ registry'.resolved = registry.resolved
        /\ registry'.staged = registry.staged /\ registry'.alive = registry.alive
        /\ \A x \in Ops :
             /\ Live(x)' = Live(x) /\ NextOf(x)' = NextOf(x)
             /\ Live(x) => registry'.ops[x] = registry.ops[x]
             /\ registry'.ops[x].state \in {"prepared", "committed"} <=> registry.ops[x].state \in {"prepared", "committed"}
             /\ registry'.ops[x].state = "retired" =>
                  registry.ops[x].state = "retired" /\ (x = o => registry' # Acknowledge(o))
    BY <1>1, <2>1, AcknowledgedIsOver DEF Kept
  <2>3. /\ Owned(o) => ~Live(o)
        /\ at = "succeed" => ~Live(o)
        /\ \A x \in Ops : registry.ops[x].state # "committed"
        /\ \A x \in Ops : registry.ops[x].state = "prepared" => x \in residue /\ (Owed(x) => at = "fail" /\ x = o)
    <3>1. Owned(o) \/ at = "succeed" => ~Live(o)
      BY <2>1 DEF Settling, Undone
    <3>2. ASSUME NEW x \in Ops, registry.ops[x].state = "committed" PROVE FALSE
      BY <2>1, <3>1, <3>2 DEF Settling, Owners, Live
    <3>3. ASSUME NEW x \in Ops, registry.ops[x].state = "prepared" PROVE x \in residue /\ (Owed(x) => at = "fail" /\ x = o)
      BY <2>1, <3>1, <3>3 DEF Settling, Owners, Live
    <3> QED BY <3>1, <3>2, <3>3
  <2>4. /\ \A x \in Ops : Owned(x)' => x = o /\ Owned(o) /\ ~Live(o) /\ at = "fail"
        /\ \A x \in Ops : Owed(x)' /\ Live(x) => x = o /\ Owed(o) /\ ~Owned(o) /\ ~Arrived(x)'
    <3>1. ASSUME NEW x \in Ops, Owed(x)' PROVE x = o /\ at = "fail" /\ Owed(o) /\ (Owned(x)' <=> Owned(o))
                                                  /\ (Live(x) => ~Owned(o) /\ ~Arrived(x)')
      <4>1. x = o
        BY <1>2, <2>1, <3>1
      <4>2. Unresolved(state.records[o])
        BY <1>2, <3>1, <4>1 DEF Owed
      <4>3. at = "fail" /\ state.records[o].phase = journal.records[o].phase
        BY <1>1, <4>2
      <4>4. Owed(o)
        BY <1>1, HeadOwned, <4>3, HeadRecord DEF Kept, Owed, Unresolved
      <4>5. Owned(x)' <=> Owned(o)
        BY <1>2, <3>1, <4>1, <4>3, <4>4 DEF Owned
      <4>6. Live(x) => ~Owned(o) /\ ~Arrived(x)'
        BY <1>2, <2>3, <4>1, <4>3, <4>4 DEF Owned, Arrived
      <4> QED BY <4>1, <4>3, <4>4, <4>5, <4>6
    <3>2. \A x \in Ops : Owned(x)' => Owed(x)'
      BY DEF Owned
    <3> QED BY <2>3, <3>1, <3>2
  <2>5. Placed'
    <3>1. ASSUME NEW x \in Ops, Live(x) PROVE Made(x)'
      <4>1. Made(x)
        BY <2>1, <3>1 DEF Placed
      <4> QED BY <1>2, <2>2, <3>1, <4>1 DEF Made
    <3>2. \A r \in Revisions : (registry.staged[r] # Absent =>
            Live(registry.staged[r]) /\ NextOf(registry.staged[r]).revision = r)'
      <4> SUFFICES ASSUME NEW r \in Revisions, registry.staged[r] # Absent
                   PROVE  Live(registry.staged[r])' /\ NextOf(registry.staged[r])'.revision = r
        BY <2>2
      <4>1. registry.staged[r] \in Ops
        BY DEF Kept, Fielded, Registries
      <4>2. Live(registry.staged[r]) /\ NextOf(registry.staged[r]).revision = r
        BY <2>1 DEF Placed
      <4>3. registry'.ops[registry.staged[r]] = registry.ops[registry.staged[r]]
        BY <2>2, <4>1, <4>2
      <4> QED BY <2>2, <4>2, <4>3 DEF Live, NextOf
    <3> QED BY <2>1, <2>2, <3>1, <3>2 DEF Placed
  <2>6. Serves'
    <3>1. host.gate = Absent => Calls(journal.installed)
      BY <2>1 DEF Serves
    <3> QED BY <1>1, <1>3, <2>2, <2>4, <3>1 DEF Serves, Calls
  <2>7. Owners'
    <3> SUFFICES ASSUME NEW x \in Ops
                 PROVE  /\ registry'.ops[x].state # "committed"
                        /\ registry'.ops[x].state = "prepared" => x \in residue
                        /\ ~(Owned(x)' /\ Live(x)) /\ registry'.ops[x].state # "retired"
      BY <2>2 DEF Owners
    <3>1. registry'.ops[x].state # "committed" /\ (registry'.ops[x].state = "prepared" => x \in residue)
      BY <2>2, <2>3 DEF Live
    <3>2. ~(Owned(x)' /\ Live(x))
      BY <2>4
    <3>3. registry'.ops[x].state # "retired"
      BY <2>1, <2>2 DEF Settling, Owners
    <3> QED BY <3>1, <3>2, <3>3
  <2>8. Sides'
    <3> SUFFICES ASSUME NEW x \in Ops, Live(x)
                 PROVE  /\ Owed(x)' => registry'.ops[x].previous = registry.active
                        /\ ~(Owed(x)' /\ Arrived(x)') /\ registry'.ops[x].state # "committed"
                        /\ NextOf(x) # None => NextOf(x) \in registry.alive /\ NextOf(x) \notin {registry.active, host.agent}
      BY <2>2 DEF Sides
    <3>1. registry'.ops[x] = registry.ops[x] /\ registry.ops[x].state = "prepared"
      BY <2>2, <2>3 DEF Live
    <3>2. Owed(x)' => x = o /\ Owed(o) /\ ~Arrived(o)
      <4> SUFFICES ASSUME Owed(x)' PROVE x = o /\ Owed(o) /\ ~Arrived(o)
        OBVIOUS
      <4>1. x = o /\ Owed(o) /\ ~Owned(o)
        BY <2>4
      <4> QED BY <4>1 DEF Owned, Arrived
    <3> QED BY <2>1, <2>4, <3>1, <3>2 DEF Settling, Sides
  <2>9. Undone'
    BY <2>2, <2>4 DEF Undone
  <2>10. Uses'
    <3>1. registry.active = host.agent
      BY <2>1 DEF Settling, Uses
    <3>2. host.agent # None => registry.resolved[host.agent.revision] = host.agent
      BY <2>1, <2>3 DEF Settling, Uses, Ahead
    <3>3. \A e \in registry.alive : e \in {host.agent, registry.active} \/ \E x \in Ops : Live(x) /\ e = NextOf(x)
      BY <2>1 DEF Settling, Uses
    <3> QED BY <2>2, <3>1, <3>2, <3>3 DEF Uses
  <2>11. Gates'
    BY <2>1 DEF Settling, Gates, Holding
  <2> QED BY <2>5, <2>6, <2>7, <2>8, <2>9, <2>10, <2>11 DEF Settling
<1> QED BY <1>1, <1>3, <1>4, <1>5, <1>6 DEF Kept, Agreed

LEMMA SucceedAgrees == ASSUME Kept, Succeed PROVE Kept'
<1> DEFINE o == Head1
           record == [NoRecord EXCEPT !.status = "succeeded"]
           state == WithRecord(o, record)
<1>1. /\ at = "succeed"
      /\ \/ Commits(state) /\ at' = "idle" /\ run' = NoRun /\ registry' = Acknowledge(o)
         \/ Refuses(state) /\ at' = "fail" /\ UNCHANGED <<tail, run, registry>>
      /\ UNCHANGED <<request, attempted, host, up, residue, stuck, overtaken>>
  BY DEF Succeed, Running, Leaves
<1>2. IInv'
  BY SucceedKeeps DEF Kept
<1>3. record \in Record /\ record.status = "succeeded"
  BY RevisionsAssumption DEF NoRecord, Record, Phases, Targets
<1> HIDE DEF record
<1>4. Changes(o, state) /\ state.records[o] = record /\ state.installed = journal.installed
  <2>1. Types /\ o \in Ops /\ journal.installed \in Targets
    BY <1>1, HeadRecordIsTyped
  <2> QED BY <1>3, <2>1, WithRecordChanges
<1> HIDE DEF state
<1>5. CASE Commits(state) /\ at' = "idle" /\ run' = NoRun /\ registry' = Acknowledge(o)
  BY <1>1, <1>2, <1>3, <1>4, <1>5, LeavesAgrees DEF Unresolved
<1>6. CASE Refuses(state) /\ at' = "fail" /\ UNCHANGED <<tail, run, registry>>
  BY <1>1, <1>2, <1>6, RefusedAgrees
<1> QED BY <1>1, <1>5, <1>6

\* An operation whose failure could not be recorded is left open.
LEMMA FailRefusedAgrees ==
  ASSUME Kept, IInv', NEW state, Refuses(state), at = "fail", at' = "idle", run' = NoRun,
         UNCHANGED <<request, attempted, registry, host, up, residue, stuck, overtaken>>
  PROVE  Kept'
<1>1. journal' = journal /\ refused' # {} /\ up /\ Head1 \in Ops /\ Known(Head1)
  BY HeadFacts DEF Refuses, Kept, InOrder
<1>2. \A x \in Ops :
        /\ Known(x)' = Known(x) /\ Rec(x)' = Rec(x) /\ Target(x)' = Target(x) /\ Owed(x)' = Owed(x)
        /\ Owned(x)' = Owned(x) /\ Arrived(x)' = Arrived(x)
  BY <1>1 DEF Known, Rec, Target, Owed, Owned, Arrived, Unresolved
<1>3. Fielded' /\ ~run'.mutation
  BY DEF Kept, Fielded, NoRun
<1>4. InOrder'
  <2>1. \E x \in Ops : Known(x)' /\ Unresolved(Rec(x)')
    <3>1. CASE refused = {}
      BY <1>1, <1>2, <3>1, HeadRecord DEF Kept, Unresolved
    <3>2. CASE refused # {}
      BY <1>2, <3>2 DEF Kept, InOrder, Unresolved
    <3> QED BY <3>1, <3>2
  <2> QED BY <1>1, <1>3, <2>1 DEF InOrder, Holding, Unresolved
<1>5. ASSUME ~overtaken PROVE Placed' /\ Serves'
  <2>1. Placed /\ Serves
    BY <1>1, <1>5 DEF Kept, Agreed
  <2>2. \A x \in Ops : Live(x) => Known(x)' /\ attempted'[x] # "new" /\ Target(x)' = Target(x)
    BY <1>2, <2>1 DEF Placed, Made
  <2>3. Placed'
    BY <2>1, <2>2, PlacedStays
  <2>4. Serves'
    BY <1>1, <1>2, <1>3, <2>1, SameRegistry DEF Serves, Calls
  <2> QED BY <2>3, <2>4
<1> QED BY <1>1, <1>3, <1>4, <1>5 DEF Kept, Agreed, Alone

LEMMA FailAgrees == ASSUME Kept, Fail PROVE Kept'
<1> DEFINE o == Head1
           record == [Rec(o) EXCEPT !.status = IF retry[o] THEN "again" ELSE "failed"]
           state == WithRecord(o, record)
<1>1. /\ at = "fail" /\ at' = "idle" /\ run' = NoRun
      /\ \/ Commits(state) /\ registry' \in {registry, Acknowledge(o)}
         \/ Refuses(state) /\ registry' = registry
      /\ UNCHANGED <<request, attempted, host, up, residue, stuck, overtaken>>
  BY DEF Fail, Running, Leaves
<1>2. IInv'
  BY FailKeeps DEF Kept
<1>3. /\ record \in Record /\ record.status \in {"again", "failed"} /\ record.phase = Rec(o).phase
  BY <1>1, HeadRecordIsTyped DEF Record
<1> HIDE DEF record
<1>4. Changes(o, state) /\ state.records[o] = record /\ state.installed = journal.installed
  BY <1>1, <1>3, HeadRecordIsTyped, WithRecordChanges, ZenonT(60)
<1> HIDE DEF state
<1>5. CASE Commits(state) /\ registry' \in {registry, Acknowledge(o)}
  BY <1>1, <1>2, <1>3, <1>4, <1>5, LeavesAgrees
<1>6. CASE Refuses(state) /\ registry' = registry
  BY <1>1, <1>2, <1>6, FailRefusedAgrees
<1> QED BY <1>1, <1>5, <1>6

\* What an operation's first step writes, if it writes, leaves its phase alone.
LEMMA BeginFrame ==
  ASSUME Kept, Begin, NEW o \in Ops, o = Head1
  PROVE  /\ at = "idle" /\ up /\ tail # <<>> /\ UNCHANGED <<request, registry, host, up, residue, stuck>>
         /\ ~overtaken' => ~overtaken /\ Only(o, journal)
         /\ journal'.installed = journal.installed
         /\ \A x \in Ops : Target(x)' = Target(x) /\ Owned(x)' = Owned(x) /\ (Owned(x) => Arrived(x)' = Arrived(x))
         /\ \A x \in Ops : Known(x) /\ attempted[x] # "new" =>
              Known(x)' /\ attempted'[x] # "new" /\ Owed(x)' = Owed(x) /\ Arrived(x)' = Arrived(x)
              /\ journal'.records[x].phase = journal.records[x].phase
         /\ \A x \in Ops \ {o} : Known(x)' = Known(x) /\ Rec(x)' = Rec(x) /\ journal'.records[x] = journal.records[x]
                                /\ Owed(x)' = Owed(x)
         /\ Known(o)' /\ Rec(o)'.status \in {"pending", "again"} /\ Rec(o)'.phase \in Phases
         /\ \/ /\ at' = "execute" /\ run' = run /\ tail' = tail /\ Rec(o)'.status = "pending"
               /\ refused' = refused
            \/ at' = "fail" /\ run' = run /\ tail' = tail /\ refused' # {}
            \/ at' = "idle" /\ run' = NoRun /\ refused' # {}
<1> USE DEF Kept, IInv
<1> DEFINE record == [Rec(o) EXCEPT !.status = "pending"]
           state == WithRecord(o, record)
<1>1. /\ at = "idle" /\ up /\ tail # <<>> /\ UNCHANGED <<request, registry, host, up, residue, stuck>>
      /\ Known(o)
  BY HeadIsOp DEF Begin, Running, Asked
<1>2. ~overtaken' => ~overtaken /\ Only(o, journal)
  BY DEF Begin, Begun, Only, Known, Rec, Attempts, Pending, NoRecord, Unresolved, Types
<1>3. /\ Rec(o) \in Record /\ record \in Record /\ record.status = "pending"
      /\ record.phase = Rec(o).phase /\ record.previous = Rec(o).previous
  BY RecordsAreTyped DEF Record
<1>4. /\ \A y \in Ops \ {o} : attempted'[y] = attempted[y]
      /\ attempted'[o] = IF journal'.records[o].status = "absent" THEN "known" ELSE "no"
  BY DEF Begin, Types
<1>5. \/ attempted[o] # "new" /\ Rec(o).status = "pending" /\ journal' = journal /\ refused' = refused
         /\ at' = "execute" /\ run' = run /\ tail' = tail
      \/ (attempted[o] = "new" \/ Rec(o).status = "again") /\ Commits(state) /\ at' = "execute" /\ run' = run /\ tail' = tail
      \/ attempted[o] = "new" /\ Refuses(state) /\ at' = "fail" /\ run' = run /\ tail' = tail
      \/ Rec(o).status = "again" /\ Refuses(state) /\ at' = "idle" /\ run' = NoRun
  BY DEF Begin, Leaves
<1> HIDE DEF record
<1>6. Changes(o, state) /\ state.records[o] = record /\ state.installed = journal.installed
  <2>1. journal.installed \in Targets
    BY RecordsAreTyped
  <2> QED BY <1>3, <2>1, WithRecordChanges
<1> HIDE DEF state
<1>7. /\ Rec(o).status \in {"pending", "again"}
      /\ attempted[o] = "new" => journal.records[o].status = "absent" /\ Rec(o) = Pending
  BY <1>5 DEF Attempts, Rec, Pending, NoRecord
<1>8. /\ journal'.installed = journal.installed /\ \A x \in Ops \ {o} : journal'.records[x] = journal.records[x]
      /\ \/ journal' = journal
         \/ journal'.records[o] = record /\ refused' = {} /\ at' = "execute"
            /\ refused' = refused /\ run' = run /\ tail' = tail /\ (attempted[o] = "new" \/ Rec(o).status = "again")
  BY <1>5, <1>6 DEF Changes, Commits, Refuses
<1>9. Known(o)' /\ attempted'[o] # "new"
  BY <1>4, <1>8 DEF Known
<1>10. CASE journal' = journal
  <2>1. \A x \in Ops : Rec(x)' = Rec(x) /\ Target(x)' = Target(x) /\ Owed(x)' = Owed(x) /\ Owned(x)' = Owned(x) /\ Arrived(x)' = Arrived(x)
    BY <1>1, <1>10 DEF Rec, Target, Owed, Owned, Arrived, Unresolved
  <2>2. \A x \in Ops \ {o} : Known(x)' = Known(x)
    BY <1>4, <1>10 DEF Known
  <2>3. \/ at' = "execute" /\ run' = run /\ tail' = tail /\ Rec(o)'.status = "pending" /\ refused' = refused
        \/ at' = "fail" /\ run' = run /\ tail' = tail /\ refused' # {}
        \/ at' = "idle" /\ run' = NoRun /\ refused' # {}
    <3>1. Commits(state) => Rec(o)'.status = "pending" /\ refused' = refused
      BY <1>3, <1>6, <1>8, <1>10 DEF Commits, Rec
    <3>2. Refuses(state) => refused' # {}
      BY DEF Refuses
    <3> QED BY <1>5, <2>1, <3>1, <3>2
  <2> QED BY <1>1, <1>2, <1>3, <1>4, <1>7, <1>9, <1>10, <2>1, <2>2, <2>3 DEF Record
<1>11. CASE /\ journal'.records[o] = record /\ refused' = {} /\ at' = "execute"
            /\ refused' = refused /\ run' = run /\ tail' = tail /\ (attempted[o] = "new" \/ Rec(o).status = "again")
  <2>1. Rec(o)' = record
    BY <1>3, <1>11 DEF Rec
  <2>2. \A x \in Ops : Target(x)' = Target(x)
    BY <1>1 DEF Target
  <2>3. \A x \in Ops \ {o} : Known(x)' = Known(x) /\ Rec(x)' = Rec(x) /\ Owed(x)' = Owed(x) /\ Owned(x)' = Owned(x)
                             /\ Arrived(x)' = Arrived(x)
    BY <1>4, <1>8 DEF Known, Rec, Owed, Owned, Arrived, Unresolved
  <2>7. /\ \A x \in Ops : Owned(x)' = Owned(x) /\ (Owned(x) => Arrived(x)' = Arrived(x))
        /\ \A x \in Ops : Known(x) /\ attempted[x] # "new" =>
             Known(x)' /\ attempted'[x] # "new" /\ Owed(x)' = Owed(x) /\ Arrived(x)' = Arrived(x)
             /\ journal'.records[x].phase = journal.records[x].phase
    <3>4. CASE attempted[o] = "new"
      <4>1. ~Owned(o) /\ ~Owned(o)'
        BY <1>3, <1>7, <1>11, <3>4 DEF Owned, Owed, Unresolved, Pending, NoRecord
      <4>2. \A x \in Ops : Owned(x)' = Owned(x) /\ (Owned(x) => Arrived(x)' = Arrived(x))
        BY <2>3, <4>1 DEF Owned
      <4>3. \A x \in Ops : Known(x) /\ attempted[x] # "new" => x # o
        BY <3>4
      <4> QED BY <1>4, <1>8, <2>3, <4>2, <4>3
    <3>5. CASE attempted[o] # "new"
      <4>1. Rec(o) = journal.records[o] /\ Rec(o).status = "again"
        BY <1>11, <3>5 DEF Rec, Pending, NoRecord
      <4>2. Owed(o)' = Owed(o) /\ Owned(o)' = Owned(o) /\ Arrived(o)' = Arrived(o)
        BY <1>3, <1>11, <4>1 DEF Owed, Owned, Arrived, Unresolved
      <4>3. attempted'[o] # "new" /\ journal'.records[o].phase = journal.records[o].phase
        BY <1>3, <1>9, <1>11, <4>1
      <4>4. \A x \in Ops : Owned(x)' = Owned(x) /\ (Owned(x) => Arrived(x)' = Arrived(x))
        BY <2>3, <4>2
      <4> QED BY <1>4, <1>8, <1>9, <2>3, <4>2, <4>3, <4>4
    <3> QED BY <3>4, <3>5
  <2>6. Rec(o)'.status = "pending" /\ Rec(o)'.phase \in Phases
    BY <1>3, <2>1 DEF Record
  <2> QED BY <1>1, <1>2, <1>8, <1>9, <1>11, <2>2, <2>3, <2>6, <2>7
<1> QED BY <1>8, <1>10, <1>11

LEMMA BeginAgrees == ASSUME Kept, Begin PROVE Kept'
<1>0. PICK o \in Ops : o = Head1
  BY HeadIsOp DEF Begin, Kept, IInv
<1>1. /\ at = "idle" /\ up /\ UNCHANGED <<request, registry, host, up, residue, stuck>>
      /\ ~overtaken' => ~overtaken /\ Only(o, journal)
      /\ journal'.installed = journal.installed
  BY <1>0, BeginFrame
<1>2. /\ \A x \in Ops : Target(x)' = Target(x) /\ Owned(x)' = Owned(x) /\ (Owned(x) => Arrived(x)' = Arrived(x))
      /\ \A x \in Ops : Known(x) /\ attempted[x] # "new" =>
           Known(x)' /\ attempted'[x] # "new" /\ Owed(x)' = Owed(x) /\ Arrived(x)' = Arrived(x)
           /\ journal'.records[x].phase = journal.records[x].phase
      /\ \A x \in Ops \ {o} : Known(x)' = Known(x) /\ Rec(x)' = Rec(x) /\ journal'.records[x] = journal.records[x]
                                /\ Owed(x)' = Owed(x)
  BY <1>0, BeginFrame
<1>3. /\ Known(o)' /\ Rec(o)'.status \in {"pending", "again"} /\ Rec(o)'.phase \in Phases
      /\ \/ at' = "execute" /\ run' = run /\ tail' = tail /\ Rec(o)'.status = "pending" /\ refused' = refused
         \/ at' = "fail" /\ run' = run /\ tail' = tail /\ refused' # {}
         \/ at' = "idle" /\ run' = NoRun /\ refused' # {}
  BY <1>0, BeginFrame
<1>4. IInv'
  BY BeginKeeps DEF Kept
<1>5. Fielded' /\ ~run.mutation /\ ~run'.mutation
  <2>1. ~run.mutation
    BY <1>1 DEF Kept, InOrder, Holding
  <2>2. run' \in [mutation : BOOLEAN, staged : BOOLEAN] /\ ~run'.mutation
    <3>1. NoRun \in [mutation : BOOLEAN, staged : BOOLEAN] /\ ~NoRun.mutation
      BY DEF NoRun
    <3>2. run \in [mutation : BOOLEAN, staged : BOOLEAN]
      BY DEF Kept, Fielded
    <3> QED BY <1>3, <2>1, <3>1, <3>2
  <2> QED BY <1>1, <2>1, <2>2 DEF Kept, Fielded
<1>6. InOrder'
  <2>1. \E x \in Ops : Known(x)' /\ Unresolved(Rec(x)')
    BY <1>3 DEF Unresolved
  <2>2. at' = "execute" => Head1' = o
    BY <1>0, <1>3 DEF Head1
  <2>3. at' = "execute" => Rec(Head1)'.status = "pending" /\ Rec(Head1)'.phase \in PhaseAt(at')
    BY <1>3, <2>2 DEF PhaseAt, Rec
  <2> QED BY <1>1, <1>3, <1>5, <2>1, <2>3 DEF InOrder, Holding, Unresolved
<1>7. ASSUME ~overtaken' PROVE Alone' /\ Placed' /\ Serves' /\ (refused' = {} => Settling')
  <2>1. Placed /\ Serves /\ (refused = {} => Settling)
    BY <1>1, <1>7 DEF Kept, Agreed
  <2>2. Alone'
    <3>1. at' # "idle" => Head1' = o
      BY <1>0, <1>3 DEF Head1
    <3>2. Only(o, journal')
      BY <1>1, <1>2, <1>7 DEF Only
    <3> QED BY <3>1, <3>2 DEF Alone, Only
  <2>3. \A x \in Ops : Live(x)' = Live(x) /\ NextOf(x)' = NextOf(x) /\ (Live(x) => Known(x) /\ attempted[x] # "new")
    BY <1>1, <2>1, SameRegistry DEF Placed, Made
  <2>4. Placed'
    BY <1>1, <1>2, <1>3, <2>1, <2>3, PlacedStays
  <2>5. Serves'
    BY <1>1, <1>2, <1>3, <1>5, <2>1, <2>3 DEF Serves, Calls
  <2>6. ASSUME refused' = {} PROVE Settling'
    <3>1. Settling /\ at' = "execute" /\ Head1' = o
      BY <1>0, <1>3, <2>1, <2>6 DEF Head1
    <3>2. Owners'
      BY <1>1, <1>2, <2>3, <3>1 DEF Settling, Owners
    <3>3. Sides'
      <4>1. \A x \in Ops : Live(x) => Owed(x)' = Owed(x) /\ Arrived(x)' = Arrived(x)
        BY <1>2, <2>3
      <4> QED BY <1>1, <1>2, <2>3, <3>1, <4>1 DEF Settling, Sides
    <3>4. Undone'
      <4> SUFFICES ASSUME NEW x \in Ops, Owned(x)', journal'.records[x].phase = "activationCommitted", Target(x)' = Absent,
                          host.gate # Absent, Live(x)'
                   PROVE  FALSE
        BY <1>1, <3>1 DEF Undone
      <4> QED BY <1>1, <1>2, <2>3, <3>1 DEF Settling, Undone
    <3>5. Uses'
      BY <1>1, <3>1, UsesStays DEF Settling
    <3>6. Gates'
      BY <1>1, <1>5, <3>1 DEF Settling, Gates
    <3> QED BY <3>2, <3>3, <3>4, <3>5, <3>6 DEF Settling
  <2> QED BY <2>2, <2>4, <2>5, <2>6
<1> QED BY <1>1, <1>4, <1>5, <1>6, <1>7 DEF Kept, Agreed

-----------------------------------------------------------------------------
(* Asking, and the end of the process. *)

LEMMA AskingAgrees ==
  ASSUME Kept, IInv', UNCHANGED <<journal, refused, at, run, registry, host, up, residue, stuck, overtaken>>,
         at # "idle" => Head1' = Head1,
         \A x \in Ops : Known(x) => request'[x] = request[x] /\ Known(x)' /\ attempted'[x] = attempted[x]
  PROVE  Kept'
<1>1. \A x \in Ops :
        /\ Rec(x)' = Rec(x) /\ Owed(x)' = Owed(x) /\ Owned(x)' = Owned(x) /\ Arrived(x)' = Arrived(x)
        /\ Known(x) => Target(x)' = Target(x)
        /\ Live(x)' = Live(x) /\ NextOf(x)' = NextOf(x) /\ (Owed(x) => Known(x))
  BY DEF Rec, Owed, Owned, Arrived, Unresolved, Target, Live, NextOf, Known
<1>2. at # "idle" => Known(Head1) /\ Head1 \in Ops
  BY HeadFacts DEF Kept
<1>3. Fielded'
  BY DEF Kept, Fielded
<1>4. InOrder'
  <2>1. at # "idle" => Rec(Head1)' = Rec(Head1)
    BY <1>1, <1>2 DEF Rec
  <2>2. at = "prepare" => (Catalog!Applicable(request[Head1], journal.installed))'
    BY <1>2 DEF Kept, InOrder, Catalog!Applicable
  <2>3. (PhaseAt(at))' = PhaseAt(at)
    BY DEF PhaseAt
  <2>4. refused' # {} => \E x \in Ops : Known(x)' /\ Unresolved(Rec(x)')
    BY <1>1 DEF Kept, InOrder
  <2>5. /\ ~up => at = "idle"
        /\ at \notin {"idle", "fail"} => Rec(Head1).status = "pending" /\ Rec(Head1).phase \in PhaseAt(at)
        /\ at \in {"complete", "restore"} => refused = {}
        /\ run.mutation => at \in Holding \cup {"rollback", "fail", "retire", "succeed"}
        /\ at \in Holding => run.mutation
        /\ at \in Holding \cup {"rollback"} /\ run.mutation => host.gate = Head1
    BY DEF Kept, InOrder
  <2>6. at \in Holding \cup {"rollback"} => Head1' = Head1
    BY DEF Holding
  <2>7. Holding' = Holding
    BY DEF Holding
  <2> QED BY <2>1, <2>2, <2>3, <2>4, <2>5, <2>6, <2>7 DEF InOrder
<1>5. ASSUME ~overtaken PROVE Agreed'
  <2>1. Alone /\ (up => Placed /\ Serves /\ (refused = {} => Settling))
    BY <1>5 DEF Kept, Agreed
  <2>2. Alone'
    BY <2>1 DEF Alone, Only, Unresolved
  <2>3. ASSUME up PROVE Placed' /\ Serves' /\ (refused = {} => Settling')
    <3>1. \A x \in Ops : Live(x) => Known(x) /\ attempted[x] # "new"
      BY <2>1, <2>3 DEF Placed, Made
    <3>2. Placed'
      <4>1. at # "idle" => Target(Head1)' = Target(Head1)
        BY <1>1, <1>2 DEF Target
      <4>2. at' \in {"commit", "recordCommitted", "catalog", "complete"} /\ (Target(Head1))' # Absent =>
               registry.staged[(Target(Head1))'] = Head1'
        BY <2>1, <2>3, <4>1 DEF Placed
      <4>3. \A x \in Ops : Live(x) => Known(x)' /\ attempted'[x] # "new" /\ Target(x)' = Target(x)
        BY <1>1, <3>1
      <4> QED BY <2>1, <2>3, <4>2, <4>3, PlacedStays
    <3>3. Serves'
      <4>1. at # "idle" => Rec(Head1)' = Rec(Head1)
        BY <1>1, <1>2 DEF Rec
      <4> QED BY <1>1, <2>1, <2>3, <4>1 DEF Serves, Calls, Holding
    <3>4. ASSUME refused = {} PROVE Settling'
      <4>1. Settling
        BY <2>1, <2>3, <3>4
      <4>2. Owners'
        BY <1>1, <4>1 DEF Settling, Owners
      <4>3. Sides'
        BY <1>1, <3>1, <4>1 DEF Settling, Sides
      <4>4. Undone'
        BY <1>1, <1>2, <4>1 DEF Settling, Undone, Live, Owned, Owed
      <4>5. Uses'
        <5>1. \A x \in Ops : Ahead(x)' = Ahead(x)
          BY <1>1 DEF Ahead
        <5>2. at = "retire" => Live(Head1)' = Live(Head1) /\ NextOf(Head1)' = NextOf(Head1)
          BY <1>1, <1>2 DEF Live, NextOf
        <5> QED BY <1>1, <1>2, <4>1, <5>1, <5>2 DEF Settling, Uses
      <4>6. Gates'
        BY <4>1 DEF Settling, Gates, Holding
      <4> QED BY <4>2, <4>3, <4>4, <4>5, <4>6 DEF Settling
    <3> QED BY <3>2, <3>3, <3>4
  <2> QED BY <2>2, <2>3 DEF Agreed
<1> QED BY <1>3, <1>4, <1>5 DEF Kept

LEMMA SubmitAgrees == ASSUME Kept, NEW o \in Ops, Submit(o) PROVE Kept'
<1>1. /\ UNCHANGED <<journal, refused, at, run, registry, host, up, residue, stuck, overtaken>>
      /\ tail' = Append(tail, o) /\ attempted' = [attempted EXCEPT ![o] = "new"] /\ ~Known(o)
      /\ \A x \in Ops \ {o} : request'[x] = request[x]
  BY DEF Submit, Kept, IInv, Types
<1>2. IInv'
  BY SubmitKeeps DEF Kept
<1>3. at # "idle" => Head1' = Head1
  <2> SUFFICES ASSUME at # "idle" PROVE Head1' = Head1
    OBVIOUS
  <2>1. tail \in Seq(Ops) /\ tail # <<>>
    BY DEF Kept, IInv, Types
  <2> QED BY <1>1, <2>1 DEF Head1
<1>4. \A x \in Ops : Known(x) => request'[x] = request[x] /\ Known(x)' /\ attempted'[x] = attempted[x]
  BY <1>1 DEF Known, Kept, IInv, Types
<1> QED BY <1>1, <1>2, <1>3, <1>4, AskingAgrees

LEMMA RepeatAgrees == ASSUME Kept, NEW o \in Ops, Repeat(o) PROVE Kept'
<1>1. /\ UNCHANGED <<request, attempted, journal, refused, at, run, registry, host, up, residue, stuck, overtaken>>
      /\ tail' = Append(tail, o)
  BY DEF Repeat
<1>2. IInv'
  BY RepeatKeeps DEF Kept
<1>3. at # "idle" => Head1' = Head1
  <2> SUFFICES ASSUME at # "idle" PROVE Head1' = Head1
    OBVIOUS
  <2>1. tail \in Seq(Ops) /\ tail # <<>>
    BY DEF Kept, IInv, Types
  <2> QED BY <1>1, <2>1 DEF Head1
<1>4. \A x \in Ops : Known(x) => request'[x] = request[x] /\ Known(x)' /\ attempted'[x] = attempted[x]
  BY <1>1 DEF Known
<1> QED BY <1>1, <1>2, <1>3, <1>4, AskingAgrees

LEMMA StandingStillAgrees == ASSUME Kept, IInv', UNCHANGED vars PROVE Kept'
<1>1. /\ UNCHANGED <<request, attempted, journal, refused, at, run, registry, host, up, residue, stuck, overtaken>>
      /\ tail' = tail
  BY DEF vars
<1>2. Head1' = Head1 /\ \A x \in Ops : Known(x)' = Known(x)
  BY <1>1 DEF Known, Head1
<1> QED BY <1>1, <1>2, AskingAgrees

LEMMA EmptyRegistry ==
  /\ NoRegistry \in Registries /\ NoHost \in [agent : Endpoints, gate : Ops \cup {Absent}]
  /\ NoRun \in [mutation : BOOLEAN, staged : BOOLEAN] /\ ~NoRun.mutation
  /\ NoRegistry.active = None /\ NoRegistry.alive = {}
  /\ \A r \in Revisions : NoRegistry.resolved[r] = None /\ NoRegistry.staged[r] = Absent
  /\ \A x \in Ops : NoRegistry.ops[x] = NoActivation
<1>1. None \in Endpoints /\ NoActivation \in Activations
  BY EndpointFacts, NoActivationTyped
<1> QED BY <1>1 DEF NoRegistry, NoHost, NoRun, Registries

LEMMA CrashAgrees == ASSUME Kept, Crash PROVE Kept'
<1>1. /\ up' = FALSE /\ refused' = {} /\ at' = "idle" /\ run' = NoRun /\ registry' = NoRegistry /\ host' = NoHost
  BY DEF Crash
<1>2. IInv'
  BY CrashKeeps DEF Kept
<1>3. Fielded' /\ InOrder'
  BY <1>1, EmptyRegistry DEF Fielded, InOrder, Holding
<1> QED BY <1>1, <1>2, <1>3 DEF Kept, Agreed, Alone

LEMMA InitKept == ASSUME Init PROVE Kept
<1>1. IInv
  BY InitIInv
<1>2. refused = {} /\ at = "idle" /\ run = NoRun /\ registry = NoRegistry /\ host = NoHost /\ up = FALSE
  BY DEF Init
<1>3. Fielded /\ InOrder
  BY <1>2, EmptyRegistry DEF Fielded, InOrder, Holding
<1> QED BY <1>1, <1>2, <1>3 DEF Kept, Agreed, Alone

-----------------------------------------------------------------------------
(* The restart. *)

LEMMA BaseFields ==
  ASSUME NEW state, state.installed \in Targets
  PROVE  LET i == InstalledEndpoint(state)
             new == Base(state)
         IN  /\ i \in Endpoints /\ i.revision = state.installed /\ i.by = Restored /\ (i = None <=> state.installed = Absent)
             /\ new \in Registries /\ new.active = i
             /\ new.alive = (IF i = None THEN {} ELSE {i})
             /\ \A r \in Revisions : new.staged[r] = Absent
             /\ \A r \in Revisions : new.resolved[r] = IF i # None /\ r = i.revision THEN i ELSE None
             /\ \A x \in Ops : new.ops[x] = NoActivation
<1> DEFINE i == InstalledEndpoint(state)
           new == Base(state)
           published == Publish(NoRegistry, i)
<1>1. i \in Endpoints /\ i.revision = state.installed /\ i.by = Restored /\ (i = None <=> state.installed = Absent)
  <2>1. CASE state.installed = Absent
    BY <2>1, EndpointFacts DEF InstalledEndpoint, None
  <2>2. CASE state.installed \in Revisions
    BY <2>2, EndpointFacts, RevisionsAssumption DEF InstalledEndpoint
  <2> QED BY <2>1, <2>2 DEF Targets
<1>2. CASE i = None
  <2>1. new = NoRegistry
    BY <1>2 DEF Base
  <2> QED BY <1>1, <1>2, <2>1, EmptyRegistry
<1>3. CASE i # None
  <2>1. /\ published \in Registries /\ published.ops = NoRegistry.ops /\ published.staged = NoRegistry.staged
        /\ \A r \in Revisions : published.resolved[r] = IF i # None /\ r = i.revision THEN i ELSE NoRegistry.resolved[r]
    BY <1>1, EmptyRegistry, PublishFields
  <2>2. new = [published EXCEPT !.active = i, !.alive = {i}]
    BY <1>3 DEF Base
  <2> HIDE DEF i, new, published
  <2>3. /\ new \in Registries /\ new.active = i /\ new.alive = {i} /\ new.staged = published.staged
        /\ new.resolved = published.resolved /\ new.ops = published.ops
    BY <1>1, <2>1, <2>2 DEF Registries
  <2>4. \A r \in Revisions : new.staged[r] = Absent
    BY <2>1, <2>3, EmptyRegistry
  <2>5. \A r \in Revisions : new.resolved[r] = IF i # None /\ r = i.revision THEN i ELSE None
    BY <2>1, <2>3, EmptyRegistry
  <2>6. \A x \in Ops : new.ops[x] = NoActivation
    BY <2>1, <2>3, EmptyRegistry
  <2> QED BY <1>1, <1>3, <2>3, <2>4, <2>5, <2>6 DEF i, new
<1> QED BY <1>2, <1>3

LEMMA PublishedElsewhere ==
  ASSUME NEW reg \in Registries, NEW e \in Endpoints, NEW r \in Revisions, e.revision # r
  PROVE  Publish(reg, e) \in Registries /\ Publish(reg, e).resolved[r] = reg.resolved[r]
BY PublishFields

LEMMA CommitUnpublishes ==
  ASSUME NEW reg \in Registries, NEW o \in Ops,
         reg.ops[o].next # None, reg.ops[o].previous # None,
         reg.ops[o].next.revision # reg.ops[o].previous.revision,
         reg.resolved[reg.ops[o].previous.revision] = reg.ops[o].previous
  PROVE  CommitActivation(reg, o).resolved[reg.ops[o].previous.revision] = None
<1> DEFINE previous == reg.ops[o].previous
           next == reg.ops[o].next
           un == Unpublish(reg, previous)
           swapped == Publish(un, next)
<1>1. next \in Endpoints /\ previous \in Endpoints /\ previous.revision \in Revisions
  <2>1. reg.ops[o] \in Activations
    BY DEF Registries
  <2> QED BY <2>1, EndpointFacts DEF Activations
<1>2. /\ next.revision # previous.revision /\ previous # None /\ reg.resolved[previous.revision] = previous
  OBVIOUS
<1>3. CommitActivation(reg, o) = [swapped EXCEPT !.ops[o].state = "committed"]
  BY DEF CommitActivation
<1> HIDE DEF previous, next
<1>4. un \in Registries /\ un.resolved[previous.revision] = None
  <2> HIDE DEF None
  <2> QED BY <1>1, <1>2, UnpublishFields
<1> HIDE DEF un
<1>5. swapped \in Registries /\ swapped.resolved[previous.revision] = None
  BY <1>1, <1>2, <1>4, PublishedElsewhere
<1> HIDE DEF swapped
<1>6. [swapped EXCEPT !.ops[o].state = "committed"].resolved = swapped.resolved
  BY <1>5 DEF Registries
<1> QED BY <1>3, <1>5, <1>6 DEF previous

LEMMA ResumeFields ==
  ASSUME NEW state, state.installed \in Targets, NEW o \in Ops, Target(o) \in Targets,
         state.records[o].phase \in {"activationPrepared", "activationCommitted", "catalogCommitted"},
         state.records[o].phase = "catalogCommitted" => state.installed = Target(o),
         state.records[o].phase # "catalogCommitted" => state.installed # Target(o)
  PROVE  LET i == InstalledEndpoint(state)
             arrived == state.records[o].phase = "catalogCommitted"
             next == IF Target(o) = Absent THEN None ELSE IF arrived THEN i ELSE Endpoint(Target(o), o)
             new == Resume(state, o, Base(state))
         IN  /\ new \in Registries /\ new.active = i
             /\ next \in Endpoints /\ next.revision = Target(o) /\ (next = None <=> Target(o) = Absent)
             /\ new.alive = (IF i = None THEN {} ELSE {i}) \cup (IF next = None THEN {} ELSE {next})
             /\ \A r \in Revisions : new.staged[r] = IF next # None /\ r = next.revision THEN o ELSE Absent
             /\ \A x \in Ops : x # o => new.ops[x] = NoActivation
             /\ new.ops[o].next = next /\ new.ops[o].previous = (IF arrived THEN None ELSE i)
             /\ new.ops[o].state = (IF state.records[o].phase = "activationPrepared" THEN "prepared" ELSE "committed")
             /\ arrived \/ next = None \/ new.ops[o].state = "prepared" =>
                  (i # None => new.resolved[i.revision] = i)
             /\ new.ops[o].state = "committed" /\ next # None => new.resolved[next.revision] = next
             /\ ~arrived /\ next # None /\ new.ops[o].state = "committed" /\ i # None => new.resolved[i.revision] = None
<1> DEFINE i == InstalledEndpoint(state)
           base == Base(state)
           arrived == state.records[o].phase = "catalogCommitted"
           next == IF Target(o) = Absent THEN None ELSE IF arrived THEN i ELSE Endpoint(Target(o), o)
           staged == IF next = None THEN base ELSE [base EXCEPT !.staged[next.revision] = o, !.alive = @ \cup {next}]
           it == [state |-> "prepared", previous |-> i, next |-> next]
           known == [staged EXCEPT !.ops[o] = it]
           done == [state |-> "committed", previous |-> None, next |-> next]
           new == Resume(state, o, base)
<1>1. /\ i \in Endpoints /\ i.revision = state.installed /\ i.by = Restored /\ (i = None <=> state.installed = Absent)
      /\ base \in Registries /\ base.active = i
      /\ base.alive = (IF i = None THEN {} ELSE {i})
      /\ \A r \in Revisions : base.staged[r] = Absent
      /\ \A r \in Revisions : base.resolved[r] = IF i # None /\ r = i.revision THEN i ELSE None
      /\ \A x \in Ops : base.ops[x] = NoActivation
      /\ i # None => i.revision \in Revisions
  BY BaseFields, EndpointFacts DEF Targets
<1>2. next \in Endpoints /\ next.revision = Target(o) /\ (next = None <=> Target(o) = Absent)
      /\ (next # None => next.revision \in Revisions)
  <2>1. CASE Target(o) = Absent
    BY <2>1, EndpointFacts
  <2>2. CASE Target(o) \in Revisions /\ arrived
    BY <1>1, <2>2, RevisionsAssumption
  <2>3. CASE Target(o) \in Revisions /\ ~arrived
    BY <2>3, EndpointFacts, RevisionsAssumption
  <2> QED BY <2>1, <2>2, <2>3 DEF Targets
<1>3. new = CASE state.records[o].phase = "activationPrepared" -> known
              [] state.records[o].phase = "activationCommitted" -> CommitActivation(known, o)
              [] state.records[o].phase = "catalogCommitted" -> [known EXCEPT !.ops[o] = done]
  BY DEF Resume
<1> HIDE DEF i, base, next, new
<1>4. /\ staged \in Registries /\ staged.active = i /\ staged.resolved = base.resolved /\ staged.ops = base.ops
      /\ staged.alive = (IF i = None THEN {} ELSE {i}) \cup (IF next = None THEN {} ELSE {next})
      /\ \A r \in Revisions : staged.staged[r] = IF next # None /\ r = next.revision THEN o ELSE Absent
  <2>1. CASE next = None
    BY <1>1, <2>1
  <2>2. CASE next # None
    <3>1. staged = [base EXCEPT !.staged[next.revision] = o, !.alive = base.alive \cup {next}]
      BY <2>2
    <3> HIDE DEF staged
    <3> QED BY <1>1, <1>2, <2>2, <3>1 DEF Registries
  <2> QED BY <2>1, <2>2
<1> HIDE DEF staged
<1>5. it \in Activations /\ done \in Activations
  BY <1>1, <1>2, EndpointFacts DEF Activations
<1> HIDE DEF it, done
<1>6. /\ known \in Registries /\ known.active = i /\ known.resolved = base.resolved
      /\ known.alive = staged.alive /\ known.staged = staged.staged
      /\ \A x \in Ops : known.ops[x] = IF x = o THEN it ELSE NoActivation
  BY <1>1, <1>4, <1>5, ReplacedFields
<1> HIDE DEF known
<1>7. it.state = "prepared" /\ it.previous = i /\ it.next = next /\ done.state = "committed" /\ done.previous = None /\ done.next = next
  BY DEF it, done
<1>8. CASE state.records[o].phase = "activationPrepared"
  <2>1. new = known
    BY <1>3, <1>8
  <2> QED BY <1>1, <1>2, <1>4, <1>6, <1>7, <1>8, <2>1 DEF i, base, next, new
<1>9. CASE state.records[o].phase = "activationCommitted"
  <2>1. new = CommitActivation(known, o) /\ ~arrived
    BY <1>3, <1>9
  <2>2. /\ new \in Registries /\ new.active = i /\ new.staged = staged.staged /\ new.alive = staged.alive
        /\ \A x \in Ops : x # o => new.ops[x] = NoActivation
        /\ new.ops[o].state = "committed" /\ new.ops[o].next = next /\ new.ops[o].previous = i
        /\ next = None => new.resolved = base.resolved
        /\ next # None => new.resolved[next.revision] = next
    BY <1>6, <1>7, <2>1, CommitFields
  <2>3. next # None /\ i # None => new.resolved[i.revision] = None
    BY <1>1, <1>2, <1>6, <1>7, <1>9, <2>1, CommitUnpublishes
  <2> QED BY <1>1, <1>2, <1>4, <1>9, <2>1, <2>2, <2>3 DEF i, base, next, new
<1>10. CASE state.records[o].phase = "catalogCommitted"
  <2>1. new = [known EXCEPT !.ops[o] = done] /\ arrived
    BY <1>3, <1>10
  <2>2. /\ new \in Registries /\ new.active = i /\ new.resolved = base.resolved
        /\ new.alive = staged.alive /\ new.staged = staged.staged
        /\ \A x \in Ops : new.ops[x] = IF x = o THEN done ELSE NoActivation
    BY <1>5, <1>6, <2>1, ReplacedFields
  <2>3. next # None => next = i
    BY <2>1 DEF next
  <2> QED BY <1>1, <1>2, <1>4, <1>7, <1>10, <2>1, <2>2, <2>3 DEF i, base, next, new
<1> QED BY <1>8, <1>9, <1>10

LEMMA StartFrame ==
  ASSUME Kept, ~overtaken, Start
  PROVE  /\ IInv' /\ at = "idle" /\ run.mutation = FALSE /\ up' = TRUE /\ registry' = RestoredRegistry(disk)
         /\ UNCHANGED <<request, disk, refused, journal, attempted, tail, at, run, overtaken>>
         /\ journal = disk /\ disk.installed \in Targets /\ Sound(disk) /\ Resolves(disk)
         /\ host' = [agent |-> IF disk.installed = Absent THEN None ELSE registry'.resolved[disk.installed], gate |-> Absent]
         /\ \A x \in Ops :
              /\ Known(x)' = Known(x) /\ Target(x)' = Target(x) /\ Owed(x)' = Owed(x)
              /\ Owned(x)' = Owned(x) /\ Arrived(x)' = Arrived(x) /\ (Owned(x) <=> x \in Open(disk))
<1>1. /\ ~up /\ CanStart(disk) /\ up' = TRUE /\ registry' = RestoredRegistry(disk)
      /\ host' = [NoHost EXCEPT !.agent = IF disk.installed = Absent THEN None ELSE registry'.resolved[disk.installed]]
      /\ UNCHANGED <<request, disk, refused, journal, attempted, tail, at, run, overtaken>>
  BY DEF Start
<1>2. IInv'
  BY StartKeeps DEF Kept
<1>3. at = "idle" /\ run.mutation = FALSE
  BY <1>1 DEF Kept, InOrder, Holding, Fielded
<1>4. journal = disk /\ disk.installed \in Targets /\ Sound(disk)
  BY DEF Kept, IInv, Types, States, Restorable, Candidates
<1>5. host' = [agent |-> IF disk.installed = Absent THEN None ELSE registry'.resolved[disk.installed], gate |-> Absent]
  BY <1>1 DEF NoHost
<1>6. \A x \in Ops :
        /\ Known(x)' = Known(x) /\ Target(x)' = Target(x) /\ Owed(x)' = Owed(x)
        /\ Owned(x)' = Owned(x) /\ Arrived(x)' = Arrived(x) /\ (Owned(x) <=> x \in Open(disk))
  BY <1>1, <1>4 DEF Known, Target, Owed, Owned, Arrived, Unresolved, Open
<1> QED BY <1>1, <1>2, <1>3, <1>4, <1>5, <1>6 DEF CanStart

\* What is left of the invariant when the Host has started.
LEMMA StartSuffices ==
  ASSUME Kept, ~overtaken, Start, Fielded', Placed', Serves', Owners', Sides', Uses'
  PROVE  Kept'
<1>1. /\ IInv' /\ at' = "idle" /\ run' = run /\ run.mutation = FALSE /\ up' = TRUE /\ host'.gate = Absent
      /\ \A x \in Ops : Known(x)' = Known(x)
      /\ UNCHANGED <<journal, refused>>
  <2>1. /\ IInv' /\ at' = at /\ at = "idle" /\ run' = run /\ run.mutation = FALSE /\ up' = TRUE
        /\ UNCHANGED <<journal, refused>>
    BY StartFrame
  <2>2. host'.gate = Absent
    BY StartFrame
  <2>3. \A x \in Ops : Known(x)' = Known(x)
    BY StartFrame
  <2> QED BY <2>1, <2>2, <2>3
<1>2. InOrder'
  <2>1. refused' # {} => \E o \in Ops : Known(o)' /\ Unresolved(Rec(o))'
    BY <1>1 DEF Kept, InOrder, Rec, Unresolved
  <2> QED BY <1>1, <2>1 DEF InOrder, Holding
<1>3. Undone'
  BY <1>1 DEF Undone
<1>4. Gates'
  BY <1>1 DEF Gates
<1> QED BY <1>1, <1>2, <1>3, <1>4 DEF Kept, Agreed, Alone, Settling

LEMMA StartOfNone == ASSUME Kept, ~overtaken, Start, Open(disk) = {} PROVE Kept'
<1> DEFINE i == InstalledEndpoint(disk)
<1>1. /\ at' = "idle" /\ run' = run /\ up' = TRUE /\ registry' = Base(disk) /\ journal' = disk
      /\ host' = [agent |-> IF disk.installed = Absent THEN None ELSE registry'.resolved[disk.installed], gate |-> Absent]
      /\ \A x \in Ops : ~Owned(x)'
      /\ disk.installed \in Targets
  BY StartFrame, RestoredOfNone
<1>2. /\ i \in Endpoints /\ i.revision = disk.installed /\ (i = None <=> disk.installed = Absent)
      /\ registry' \in Registries /\ registry'.active = i
      /\ registry'.alive = (IF i = None THEN {} ELSE {i})
      /\ \A r \in Revisions : registry'.staged[r] = Absent
      /\ \A r \in Revisions : registry'.resolved[r] = IF i # None /\ r = i.revision THEN i ELSE None
      /\ \A x \in Ops : registry'.ops[x] = NoActivation
  BY <1>1, BaseFields
<1> HIDE DEF i
<1>3. host'.agent = i /\ host'.gate = Absent /\ host' \in [agent : Endpoints, gate : Ops \cup {Absent}]
      /\ (i # None => registry'.resolved[i.revision] = i)
  BY <1>1, <1>2 DEF Targets
<1>4. \A x \in Ops : ~Live(x)' /\ NextOf(x)' = None /\ registry'.ops[x].state = "none"
  BY <1>2 DEF Live, NextOf, NoActivation
<1>5. Fielded'
  BY <1>1, <1>2, <1>3 DEF Kept, Fielded
<1>6. Placed'
  BY <1>1, <1>2, <1>4 DEF Placed
<1>7. Serves'
  BY <1>1, <1>2, <1>3, <1>4 DEF Serves, Calls
<1>8. Owners' /\ Sides'
  BY <1>1, <1>4 DEF Owners, Sides
<1>9. Uses'
  BY <1>1, <1>2, <1>3 DEF Uses
<1> QED BY <1>5, <1>6, <1>7, <1>8, <1>9, StartSuffices

LEMMA StartOfOne == ASSUME Kept, ~overtaken, Start, NEW o \in Ops, Open(disk) = {o} PROVE Kept'
<1> DEFINE i == InstalledEndpoint(disk)
           arrived == disk.records[o].phase = "catalogCommitted"
           next == IF Target(o) = Absent THEN None ELSE IF arrived THEN i ELSE Endpoint(Target(o), o)
<1>1. /\ at' = "idle" /\ run' = run /\ up' = TRUE /\ registry' = Resume(disk, o, Base(disk)) /\ journal' = disk
      /\ host' = [agent |-> IF disk.installed = Absent THEN None ELSE registry'.resolved[disk.installed], gate |-> Absent]
      /\ \A x \in Ops : Owned(x)' <=> x = o
      /\ Owed(o)' /\ (Arrived(o)' <=> arrived) /\ Target(o)' = Target(o) /\ attempted' = attempted /\ Known(o)' = Known(o)
      /\ disk.installed \in Targets /\ (disk.installed # Absent => registry'.resolved[disk.installed] # None)
  <2>1. RestoredRegistry(disk) = Resume(disk, o, Base(disk))
    BY RestoredOfOne
  <2>2. Owned(o) /\ Owed(o) /\ (Arrived(o) <=> arrived)
    BY StartFrame DEF Owned, Arrived
  <2> QED BY StartFrame, <2>1, <2>2 DEF Resolves
<1>2. /\ disk.records[o].phase \in {"activationPrepared", "activationCommitted", "catalogCommitted"}
      /\ Target(o) \in Targets /\ Known(o) /\ attempted[o] # "new"
      /\ arrived => disk.installed = Target(o)
      /\ ~arrived => disk.installed # Target(o)
  <2>1. Owned(o) /\ journal = disk
    BY StartFrame
  <2>2. /\ request[o] \in Requests /\ Known(o) /\ (arrived => disk.installed = Target(o))
        /\ ~arrived => disk.installed # Target(o)
    BY <2>1, OwnedFacts DEF Kept
  <2>3. journal.records[o] \in Record /\ Target(o) \in Targets
    BY <2>2, RecordsAreTyped, TargetIsTyped, RevisionsAssumption DEF Kept, IInv
  <2>4. attempted[o] # "new"
    BY <2>1 DEF Kept, IInv, Attempts, Owned, Owed, Unresolved
  <2> QED BY <2>1, <2>2, <2>3, <2>4 DEF Record, Phases, Owned
<1>3. /\ i \in Endpoints /\ i.revision = disk.installed /\ i.by = Restored /\ (i = None <=> disk.installed = Absent)
      /\ i # None => i.revision \in Revisions
  BY <1>1, BaseFields DEF Targets
<1>4. /\ registry' \in Registries /\ registry'.active = i
      /\ next \in Endpoints /\ next.revision = Target(o) /\ (next = None <=> Target(o) = Absent)
      /\ registry'.alive = (IF i = None THEN {} ELSE {i}) \cup (IF next = None THEN {} ELSE {next})
      /\ \A r \in Revisions : registry'.staged[r] = IF next # None /\ r = next.revision THEN o ELSE Absent
      /\ \A x \in Ops : x # o => registry'.ops[x] = NoActivation
      /\ registry'.ops[o].next = next /\ registry'.ops[o].previous = (IF arrived THEN None ELSE i)
      /\ registry'.ops[o].state = (IF disk.records[o].phase = "activationPrepared" THEN "prepared" ELSE "committed")
      /\ arrived \/ next = None \/ registry'.ops[o].state = "prepared" =>
           (i # None => registry'.resolved[i.revision] = i)
      /\ registry'.ops[o].state = "committed" /\ next # None => registry'.resolved[next.revision] = next
      /\ ~arrived /\ next # None /\ registry'.ops[o].state = "committed" /\ i # None => registry'.resolved[i.revision] = None
  BY <1>1, <1>2, ResumeFields
<1>5. /\ next # None => next.by = (IF arrived THEN Restored ELSE o) /\ next.revision \in Revisions
      /\ arrived => next = i
      /\ ~arrived => next # i
  <2>1. next # None /\ arrived => next = i
    OBVIOUS
  <2>2. next # None /\ ~arrived => next = Endpoint(Target(o), o)
    OBVIOUS
  <2>3. Target(o) # Absent => Target(o) \in Revisions
    BY <1>2 DEF Targets
  <2> HIDE DEF i, next
  <2> QED BY <1>2, <1>3, <1>4, <2>1, <2>2, <2>3, EndpointFacts
<1> HIDE DEF i, next
<1>6. host'.agent = i /\ host'.gate = Absent /\ host' \in [agent : Endpoints, gate : Ops \cup {Absent}]
      /\ (i # None => registry'.resolved[i.revision] = i)
  BY <1>1, <1>2, <1>3, <1>4
<1>7. /\ \A x \in Ops : x # o => ~Live(x)' /\ NextOf(x)' = None /\ registry'.ops[x].state = "none"
      /\ Live(o)' /\ NextOf(o)' = next
  BY <1>4 DEF Live, NextOf, NoActivation
<1>8. Fielded'
  BY <1>1, <1>4, <1>6 DEF Kept, Fielded
<1>9. Placed'
  <2>1. Made(o)'
    BY <1>1, <1>2, <1>4, <1>5, <1>7 DEF Made, NextOf
  <2>2. None \notin registry'.alive
    BY <1>4
  <2>3. \A r \in Revisions : registry'.staged[r] # Absent => registry'.staged[r] = o /\ next.revision = r
    BY <1>4
  <2>4. \A r \in Revisions : registry'.staged[r] # Absent =>
          Live(registry.staged[r])' /\ NextOf(registry.staged[r])'.revision = r
    BY <1>7, <2>3 DEF Live, NextOf
  <2> QED BY <1>1, <1>7, <2>1, <2>2, <2>4 DEF Placed, Live, NextOf
<1>10. Serves'
  BY <1>1, <1>3, <1>4, <1>5, <1>6, <1>7 DEF Serves, Calls
<1>11. Owners'
  BY <1>1, <1>2, <1>4, <1>7 DEF Owners
<1>12. Sides'
  BY <1>1, <1>2, <1>4, <1>5, <1>6, <1>7 DEF Sides
<1>13. Uses'
  BY <1>1, <1>4, <1>6, <1>7 DEF Uses
<1> QED BY <1>8, <1>9, <1>10, <1>11, <1>12, <1>13, StartSuffices

LEMMA StartAgrees == ASSUME Kept, ~overtaken, Start PROVE Kept'
<1>1. Open(disk) = {} \/ \E o \in Ops : Open(disk) = {o}
  BY StartFrame DEF Sound, OneOpen, Open
<1> QED BY <1>1, StartOfNone, StartOfOne

LEMMA StepKeeps ==
  ASSUME Kept, [Next]_vars, ~overtaken
  PROVE  Kept'
<1>1. CASE Step
  BY <1>1, BeginAgrees, ExecuteAgrees, PrepareAgrees, RecordPreparedAgrees, AcquireAgrees, DrainAgrees,
     CommitAgrees, RecordCommittedAgrees, CommitCatalogAgrees, CompleteAgrees, RestorePreviousAgrees,
     RetireAgrees, SucceedAgrees, RollbackAgrees, FailAgrees DEF Step
<1>2. CASE UNCHANGED vars
  <2>1. IInv'
    BY StepAdvances DEF Kept
  <2> QED BY <1>2, <2>1, StandingStillAgrees
<1> QED BY <1>1, <1>2, StartAgrees, CrashAgrees, SubmitAgrees, RepeatAgrees DEF Next

LEMMA OvertakenStays ==
  ASSUME [Next]_vars, overtaken
  PROVE  overtaken'
BY DEF Next, Step, Begin, Execute, Prepare, RecordPhase, Acquire, Drain, Commit, CommitCatalog, Complete,
   RestorePrevious, Retire, Succeed, Rollback, Fail, Start, Crash, Submit, Repeat, vars

LEMMA OwedIsOpen ==
  ASSUME NEW x \in Ops, Owed(x)
  PROVE  Known(x) /\ Unresolved(Rec(x))
BY DEF Owed, Known, Rec, Unresolved

\* What the journal, the registry and the Host agree on survives every step of
\* an operation, refused commit, compensation, end of the process and restart.
THEOREM AgreementIsKept == Spec => [](~overtaken => Kept)
<1>1. Init => (~overtaken => Kept)
  BY InitKept
<1>2. (~overtaken => Kept) /\ [Next]_vars => (~overtaken => Kept)'
  <2> SUFFICES ASSUME ~overtaken => Kept, [Next]_vars, ~overtaken' PROVE Kept'
    OBVIOUS
  <2>1. ~overtaken
    BY OvertakenStays
  <2> QED BY <2>1, StepKeeps
<1> QED BY <1>1, <1>2, PTL DEF Spec

\* While the gate is open the Host calls a runtime that is alive and of the
\* revision that is installed, whatever was compensated, refused or restored.
THEOREM AgentIsAlive == Spec => []HostAgentIsAlive
<1>1. (~overtaken => Kept) => HostAgentIsAlive
  <2> SUFFICES ASSUME Kept, ~overtaken, up, host.gate = Absent
               PROVE  host.agent.revision = journal.installed /\ (host.agent # None => host.agent \in registry.alive)
    BY DEF HostAgentIsAlive
  <2>1. at \notin {"complete", "restore"}
    <3> SUFFICES ASSUME at \in {"complete", "restore"} PROVE FALSE
      OBVIOUS
    <3>1. host.gate = Head1 /\ Head1 \in Ops
      BY HeadFacts DEF Kept, InOrder, Holding
    <3> QED BY <3>1, OpsAssumption
  <2> QED BY <2>1 DEF Kept, Agreed, Serves, Calls
<1> QED BY <1>1, AgreementIsKept, PTL

\* When nothing runs and nothing is left open, no endpoint but the Agent in use
\* is alive, staged or resolved, and nobody holds the gate, but for a runtime
\* whose registrations were refused and a gate whose rollback failed.
THEOREM NothingIsLeft == Spec => []SettledLeavesNothing
<1>1. (~overtaken => Kept) => SettledLeavesNothing
  <2> SUFFICES ASSUME Kept, up, ~overtaken, tail = <<>>, \A o \in Ops : ~Unresolved(Rec(o)) \/ ~Known(o)
               PROVE  /\ host.gate \in stuck \cup {Absent}
                      /\ registry.alive \ {host.agent} \subseteq {Endpoint(request[o].target, o) : o \in residue}
                      /\ host.agent # None => registry.resolved[host.agent.revision] = host.agent
                      /\ registry.active = host.agent
                      /\ \A r \in Revisions : registry.staged[r] \in residue \cup {Absent}
    BY DEF SettledLeavesNothing
  <2>1. at = "idle" /\ refused = {}
    BY DEF Kept, IInv, Types, InOrder
  <2>2. Placed /\ Settling
    BY <2>1 DEF Kept, Agreed
  <2>3. \A x \in Ops : ~Owned(x)
    BY OwedIsOpen DEF Owned
  <2>4. \A x \in Ops : Live(x) => registry.ops[x].state = "prepared" /\ x \in residue
    BY <2>1, <2>2, <2>3 DEF Settling, Owners, Live
  <2>5. host.gate \in stuck \cup {Absent}
    BY <2>1, <2>2 DEF Settling, Gates, Holding
  <2>6. registry.active = host.agent
    BY <2>1, <2>2 DEF Settling, Uses
  <2>7. ASSUME NEW e \in registry.alive, e # host.agent
        PROVE  \E o \in residue : e = Endpoint(request[o].target, o)
    <3>1. PICK x \in Ops : Live(x) /\ e = NextOf(x)
      BY <2>2, <2>6, <2>7 DEF Settling, Uses
    <3>2. e # None /\ e \in Endpoints
      BY <2>2, <2>7 DEF Placed, Kept, Fielded, Registries
    <3>3. e.revision = Target(x) /\ e.by = x
      BY <2>2, <2>4, <3>1, <3>2 DEF Placed, Made
    <3> QED BY <2>4, <3>1, <3>2, <3>3, EndpointFacts DEF Target
  <2>8. host.agent # None => registry.resolved[host.agent.revision] = host.agent
    BY <2>2, <2>4 DEF Settling, Uses, Ahead, Live
  <2>9. \A r \in Revisions : registry.staged[r] \in residue \cup {Absent}
    <3> SUFFICES ASSUME NEW r \in Revisions, registry.staged[r] # Absent PROVE registry.staged[r] \in residue
      OBVIOUS
    <3>1. registry.staged[r] \in Ops /\ Live(registry.staged[r])
      BY <2>2 DEF Placed, Kept, Fielded, Registries
    <3> QED BY <2>4, <3>1
  <2> QED BY <2>5, <2>6, <2>7, <2>8, <2>9
<1> QED BY <1>1, AgreementIsKept, PTL
=============================================================================
