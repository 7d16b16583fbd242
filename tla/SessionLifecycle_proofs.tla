------------------------ MODULE SessionLifecycle_proofs ------------------------
(***************************************************************************)
(* What the Agent has of a Session and its Chats is what the Host takes it *)
(* to have, for any number of Chats, failures and restarts.                *)
(*                                                                         *)
(* While a mutation runs, what it has called for already is at the Agent   *)
(* as the mutation will record it, and what it has still to call for is as *)
(* it is recorded now.  What is not as it is recorded now will be taken    *)
(* back should the mutation fail, or is deleted for good; and once it      *)
(* failed, only what will be taken back differs from its record.           *)
(***************************************************************************)
EXTENDS SessionLifecycle, FiniteSetTheorems, SequenceTheorems, TLAPS

Restorations == {"restore"}
Kinds == Creations \cup Materializations \cup Releases \cup Deletions \cup Restorations

\* What the calls of a mutation ask for, and those that take them back.
DoOf(kind) ==
  CASE kind \in Creations -> "create"
    [] kind \in Materializations \cup Restorations -> "materialize"
    [] kind \in Releases -> "release"
    [] kind \in Deletions -> "delete"
UndoOf(kind) ==
  CASE kind \in Creations -> "delete"
    [] kind \in Materializations \cup Restorations -> "release"
    [] kind \in Releases -> "materialize"
    [] kind \in Deletions -> "none"

\* The records of what a mutation is about, until it commits.
From(kind) ==
  CASE kind \in Creations -> {"none"}
    [] kind \in Materializations -> {"released"}
    [] kind \in Releases \cup Restorations -> {"available"}
    [] kind \in Deletions -> {"unavailable", "released", "available"}

Ons(calls) == {calls[i].on : i \in DOMAIN calls}
WholeKinds == {"createSession", "materializeSession", "materializeChat", "releaseSession", "deleteSession", "restore"}
Involved == ToSet(job.chats) \cup (IF job.kind \in WholeKinds THEN {Whole} ELSE {})

\* What the calls that are still to be made will change at the Agent.
Todo ==
  IF job.kind = "releaseSession" /\ job.calls # <<>> THEN Subjects ELSE Ons(job.calls)

CallSet == [do : {"create", "materialize", "release", "delete"}, on : Subjects]
JobSet == [kind : Kinds \cup {"none"}, chats : Seq(Chats), calls : Seq(CallSet), undo : Seq(CallSet), failed : BOOLEAN]

Types ==
  /\ agent \in {"codex", "comet"} /\ prepared \in BOOLEAN
  /\ record \in [Subjects -> {"none", "unavailable", "released", "available", "gone"}]
  /\ loaded \in [Subjects -> {"absent", "released", "loaded"}]
  /\ memo \in Subjects \cup {Nothing}
  /\ doubt \subseteq Subjects
  /\ failures \in 0 .. MaxFailures /\ restarts \in 0 .. MaxRestarts
  /\ job \in JobSet
  /\ job.kind = "none" => job = Idle
  /\ job.failed => job.calls = <<>>
  /\ job.kind # "none" => (prepared <=> job.kind # "restore")
  /\ job.kind = "restore" => agent = "comet"

\* The records of a Session and of its Chats.
Records ==
  /\ record[Whole] # "available" => \A c \in Chats : record[c] # "available"
  /\ record[Whole] = "none" => \A c \in Chats : record[c] = "none"
  /\ record[Whole] = "gone" => \A c \in Chats : record[c] \in {"none", "gone"}
  /\ prepared \/ agent = "comet" => \A x \in Subjects : record[x] # "unavailable"
  /\ ~prepared /\ agent = "codex" => \A x \in Subjects : record[x] # "available"
  /\ ~prepared /\ job.kind = "none" => doubt = {} /\ \A x \in Subjects : loaded[x] = "absent"

\* What the Host takes the Agent to have: before it runs, nothing is loaded.
Now(x) == IF prepared \/ record[x] # "available" THEN record[x] ELSE "released"

JobShape ==
  job.kind # "none" =>
    /\ \A i \in DOMAIN job.calls : job.calls[i].do = DoOf(job.kind) /\ job.calls[i].on \in Involved
    /\ \A i \in DOMAIN job.undo : job.undo[i].do = UndoOf(job.kind) /\ job.undo[i].on \in Involved
    /\ \A x \in Ons(job.calls) \cup Ons(job.undo) \cup ToSet(job.chats) : record[x] \in From(job.kind)
    /\ \A i, j \in DOMAIN job.calls : job.calls[i].on = job.calls[j].on => i = j
    /\ job.kind = "releaseSession" =>
         /\ Len(job.calls) <= 1 /\ \A i \in DOMAIN job.calls : job.calls[i].on = Whole
         /\ job.calls # <<>> => memo = Nothing
    /\ job.kind = "deleteSession" => \A i \in DOMAIN job.calls : job.calls[i].on = Whole => i = Len(job.calls)
    /\ job.kind \in {"releaseSession", "deleteSession"} =>
         record[Whole] \in From(job.kind) /\ ToSet(job.chats) = Existing \ {Whole}
    /\ job.kind \in Deletions => job.undo = <<>>

\* What the Agent has of x is what the Host's record r of it says.
AgreesWith(x, r) ==
  /\ (r = "available") = (loaded[x] = "loaded")
  /\ r \in {"none", "gone"} => loaded[x] = "absent"

\* What was called for is as the mutation will record it, what is still to be
\* called for is as the Host takes it; and what is not as the Host takes it will
\* be taken back, unless it is deleted.
Agreed ==
  /\ job.kind = "none" => \A x \in Subjects \ doubt : AgreesWith(x, Now(x))
  /\ job.kind # "none" /\ ~job.failed =>
       \A x \in Subjects \ doubt : AgreesWith(x, IF x \in Todo THEN Now(x) ELSE Outcome(x))
  /\ job.kind # "none" =>
       \A x \in Subjects \ doubt :
         x \in Ons(job.undo) \/ (job.kind \in Deletions /\ ~job.failed) \/ AgreesWith(x, Now(x))

IInv == Types /\ Records /\ JobShape /\ Agreed

-----------------------------------------------------------------------------
(* The sequences of calls a mutation is made of. *)

LEMMA SetToSeqIsEnumeration ==
  ASSUME NEW S, IsFiniteSet(S)
  PROVE  /\ SetToSeq(S) \in Seq(S) /\ ToSet(SetToSeq(S)) = S
         /\ \A i, j \in DOMAIN SetToSeq(S) : SetToSeq(S)[i] = SetToSeq(S)[j] => i = j
<1> DEFINE n == Cardinality(S)
           s == SetToSeq(S)
<1>1. n \in Nat /\ ExistsBijection(1..n, S)
  BY FS_CardinalityType
<1>2. PICK f \in Bijection(1..n, S) : TRUE
  BY <1>1 DEF ExistsBijection
<1>3. f \in [1..n -> S] /\ IsInjective(f)
  BY <1>2 DEF Bijection, Injection
<1>4. s \in [1..n -> S] /\ IsInjective(s)
  BY <1>3 DEF SetToSeq
<1>5. IsFiniteSet(1..n) /\ Cardinality(1..n) = n
  BY <1>1, FS_Interval
<1>6. s \in Injection(1..n, S)
  BY <1>4 DEF Injection
<1>7. s \in Surjection(1..n, S)
  BY <1>1, <1>5, <1>6, FS_Injection
<1> HIDE DEF s
<1>8. s \in Seq(S)
  BY <1>1, <1>4, SeqDef
<1>9. ToSet(s) = S
  BY <1>4, <1>7 DEF ToSet, Surjection
<1> QED BY <1>4, <1>8, <1>9 DEF s, IsInjective

LEMMA EachCalls ==
  ASSUME NEW do \in {"create", "materialize", "release", "delete"}, NEW chats \in Seq(Chats)
  PROVE  /\ Each(do, chats) \in Seq(CallSet) /\ Len(Each(do, chats)) = Len(chats)
         /\ DOMAIN Each(do, chats) = 1..Len(chats)
         /\ \A i \in 1..Len(chats) : Each(do, chats)[i].do = do /\ Each(do, chats)[i].on = chats[i]
         /\ Ons(Each(do, chats)) = ToSet(chats)
<1>1. DOMAIN chats = 1..Len(chats) /\ Len(chats) \in Nat /\ \A i \in 1..Len(chats) : chats[i] \in Chats
  BY LenProperties, ElementOfSeq
<1>2. \A i \in 1..Len(chats) : Call(do, chats[i]) \in CallSet
  BY <1>1 DEF Call, CallSet, Subjects
<1>3. Each(do, chats) \in [1..Len(chats) -> CallSet]
  BY <1>1, <1>2 DEF Each
<1>4. Each(do, chats) \in Seq(CallSet)
  BY <1>1, <1>3, SeqDef
<1>5. \A i \in 1..Len(chats) : Each(do, chats)[i].do = do /\ Each(do, chats)[i].on = chats[i]
  BY <1>1 DEF Each, Call
<1>6. Len(Each(do, chats)) = Len(chats)
  BY <1>1, <1>3, <1>4, LenProperties
<1> QED BY <1>1, <1>3, <1>4, <1>5, <1>6 DEF Ons, ToSet

LEMMA OneCall ==
  ASSUME NEW do \in {"create", "materialize", "release", "delete"}, NEW x \in Subjects
  PROVE  /\ <<Call(do, x)>> \in Seq(CallSet) /\ Len(<<Call(do, x)>>) = 1
         /\ DOMAIN <<Call(do, x)>> = 1..1 /\ <<Call(do, x)>>[1].do = do /\ <<Call(do, x)>>[1].on = x
         /\ Ons(<<Call(do, x)>>) = {x}
<1>1. Call(do, x) \in CallSet /\ Call(do, x).do = do /\ Call(do, x).on = x
  BY DEF Call, CallSet
<1> QED BY <1>1 DEF Ons

LEMMA OnsOfConcat ==
  ASSUME NEW s \in Seq(CallSet), NEW t \in Seq(CallSet)
  PROVE  /\ s \o t \in Seq(CallSet) /\ Ons(s \o t) = Ons(s) \cup Ons(t)
         /\ Len(s \o t) = Len(s) + Len(t)
         /\ \A i \in DOMAIN (s \o t) :
              \/ i \in DOMAIN s /\ (s \o t)[i] = s[i]
              \/ i - Len(s) \in DOMAIN t /\ (s \o t)[i] = t[i - Len(s)]
<1>1. /\ Len(s) \in Nat /\ Len(t) \in Nat /\ DOMAIN s = 1..Len(s) /\ DOMAIN t = 1..Len(t)
      /\ s \o t \in Seq(CallSet) /\ Len(s \o t) = Len(s) + Len(t)
      /\ DOMAIN (s \o t) = 1..(Len(s) + Len(t))
      /\ \A i \in 1 .. Len(s) + Len(t) : (s \o t)[i] = IF i <= Len(s) THEN s[i] ELSE t[i - Len(s)]
  BY ConcatProperties, LenProperties
<1>2. \A i \in 1..Len(s) : i \in DOMAIN (s \o t) /\ (s \o t)[i] = s[i]
  BY <1>1
<1>3. \A i \in 1..Len(t) : i + Len(s) \in DOMAIN (s \o t) /\ (s \o t)[i + Len(s)] = t[i]
  BY <1>1
<1>4. \A i \in DOMAIN (s \o t) :
         \/ i \in DOMAIN s /\ (s \o t)[i] = s[i]
         \/ i - Len(s) \in DOMAIN t /\ (s \o t)[i] = t[i - Len(s)]
  BY <1>1
<1>5. Ons(s) \cup Ons(t) \subseteq Ons(s \o t)
  <2>1. ASSUME NEW i \in DOMAIN s PROVE s[i].on \in Ons(s \o t)
    BY <1>1, <1>2 DEF Ons
  <2>2. ASSUME NEW i \in DOMAIN t PROVE t[i].on \in Ons(s \o t)
    BY <1>1, <1>3 DEF Ons
  <2> QED BY <2>1, <2>2 DEF Ons
<1>6. Ons(s \o t) \subseteq Ons(s) \cup Ons(t)
  BY <1>1, <1>4 DEF Ons
<1> QED BY <1>1, <1>4, <1>5, <1>6

-----------------------------------------------------------------------------
(* The beginning of a mutation. *)

\* A mutation whose calls are about what it will record.
Fits(kind, chats, calls) ==
  /\ kind \in Kinds /\ chats \in Seq(Chats) /\ calls \in Seq(CallSet)
  /\ \A i \in DOMAIN calls :
       calls[i].do = DoOf(kind) /\ calls[i].on \in ToSet(chats) \cup (IF kind \in WholeKinds THEN {Whole} ELSE {})
  /\ \A x \in Ons(calls) \cup ToSet(chats) : record[x] \in From(kind)
  /\ \A i, j \in DOMAIN calls : calls[i].on = calls[j].on => i = j
  /\ kind = "releaseSession" => Len(calls) = 1 /\ \A i \in DOMAIN calls : calls[i].on = Whole
  /\ kind = "deleteSession" => \A i \in DOMAIN calls : calls[i].on = Whole => i = Len(calls)
  /\ kind \in {"releaseSession", "deleteSession"} =>
       record[Whole] \in From(kind) /\ ToSet(chats) = Existing \ {Whole}
  /\ kind # "releaseSession" => ToSet(chats) \subseteq Ons(calls)
  /\ kind = "deleteSession" => Whole \in Ons(calls)
  /\ kind \in Creations \cup Materializations /\ Whole \notin Ons(calls) => record[Whole] = "available"
  /\ prepared <=> kind # "restore"
  /\ kind = "restore" => agent = "comet" /\ \A x \in Subjects : record[x] = "available" => x \in Ons(calls)

LEMMA BeginKeeps ==
  ASSUME IInv, NEW kind, NEW chats, NEW calls, Fits(kind, chats, calls), Begin(kind, chats, calls)
  PROVE  IInv'
<1> USE DEF IInv
<1>1. /\ job.kind = "none"
      /\ job' = [kind |-> kind, chats |-> chats, calls |-> calls, undo |-> <<>>, failed |-> FALSE]
      /\ memo' = Nothing
      /\ UNCHANGED <<agent, prepared, record, loaded, doubt, failures, restarts>>
  BY DEF Begin, Idle
<1>2. /\ job'.kind = kind /\ job'.chats = chats /\ job'.calls = calls /\ job'.undo = <<>> /\ job'.failed = FALSE
      /\ kind \in Kinds /\ kind # "none"
  BY <1>1 DEF Fits, Kinds, Creations, Materializations, Releases, Deletions, Restorations
<1>3. Types'
  <2>1. job' \in JobSet
    BY <1>1, <1>2, EmptySeq DEF JobSet, Fits
  <2> QED BY <1>1, <1>2, <2>1 DEF Types, Fits
<1>4. Records'
  BY <1>1, <1>2 DEF Records
<1>5. JobShape'
  <2>1. Ons(<<>>) = {}
    BY DEF Ons
  <2>2. Existing' = Existing /\ Involved' = ToSet(chats) \cup (IF kind \in WholeKinds THEN {Whole} ELSE {})
    BY <1>1, <1>2 DEF Existing, Involved
  <2> QED BY <1>1, <1>2, <2>1, <2>2 DEF JobShape, Fits
<1>6. Agreed'
  <2>1. \A x \in Subjects \ doubt : AgreesWith(x, Now(x))
    BY <1>1 DEF Agreed
  <2>2. ASSUME NEW x \in Subjects PROVE x \in Todo' \/ Outcome(x)' = Now(x)
    <3>1. Todo' = IF kind = "releaseSession" /\ calls # <<>> THEN Subjects ELSE Ons(calls)
      BY <1>1, <1>2 DEF Todo
    <3>2. kind = "releaseSession" => calls # <<>>
      <4>1. kind = "releaseSession" => Len(calls) = 1
        BY DEF Fits
      <4>2. calls = <<>> => Len(calls) = 0
        BY EmptySeq
      <4> QED BY <4>1, <4>2
    <3>3. ASSUME x \notin Todo' PROVE x \notin ToSet(chats) /\ kind # "releaseSession"
      BY <3>1, <3>2, <3>3 DEF Fits
    <3>4. ASSUME x \notin Todo', x = Whole
          PROVE kind # "deleteSession" /\ (kind \in Creations \cup Materializations => record[Whole] = "available")
      BY <3>1, <3>2, <3>4 DEF Fits
    <3>5. CASE kind = "restore"
      <4>1. Outcome(x)' = record[x]
        BY <1>1, <1>2, <3>5 DEF Outcome, Creations, Materializations, Releases, Deletions
      <4>2. x \in Todo' \/ record[x] # "available"
        BY <3>1, <3>5 DEF Fits
      <4> QED BY <4>1, <4>2 DEF Now
    <3>6. CASE kind # "restore"
      <4>1. Now(x) = record[x]
        BY <3>6 DEF Fits, Now
      <4>2. x \in Todo' \/ Outcome(x)' = record[x]
        BY <1>1, <1>2, <3>3, <3>4, <3>6
           DEF Outcome, Kinds, Creations, Materializations, Releases, Deletions, Restorations
      <4> QED BY <4>1, <4>2
    <3> QED BY <3>5, <3>6
  <2>3. \A x, r : AgreesWith(x, r)' <=> AgreesWith(x, r)
    BY <1>1 DEF AgreesWith
  <2>4. \A x : Now(x)' = Now(x)
    BY <1>1 DEF Now
  <2>5. ASSUME NEW x \in Subjects \ doubt PROVE AgreesWith(x, IF x \in Todo THEN Now(x) ELSE Outcome(x))'
    <3>1. (IF x \in Todo THEN Now(x) ELSE Outcome(x))' = Now(x)
      BY <1>1, <2>2, <2>4
    <3> QED BY <1>1, <2>1, <3>1 DEF AgreesWith
  <2> QED BY <1>1, <1>2, <2>1, <2>3, <2>4, <2>5 DEF Agreed, AgreesWith
<1> QED BY <1>3, <1>4, <1>5, <1>6

\* A mutation that is not the restoration begins when the Host runs.
LEMMA StartKeeps ==
  ASSUME IInv, NEW kind, NEW chats, NEW calls, Fits(kind, chats, calls), Start(kind, chats, calls)
  PROVE  IInv'
BY BeginKeeps DEF Start

-----------------------------------------------------------------------------
(* The first of some calls, and those after it. *)

LEMMA FirstCall ==
  ASSUME NEW s \in Seq(CallSet), s # <<>>
  PROVE  /\ Head(s) \in CallSet /\ Tail(s) \in Seq(CallSet) /\ Head(s) = s[1] /\ 1 \in DOMAIN s
         /\ Ons(s) = {Head(s).on} \cup Ons(Tail(s))
         /\ Len(s) \in Nat /\ Len(s) >= 1 /\ Len(Tail(s)) = Len(s) - 1
         /\ \A i \in DOMAIN Tail(s) : i \in Nat /\ i >= 1 /\ i + 1 \in DOMAIN s /\ Tail(s)[i] = s[i + 1]
<1>1. /\ Head(s) \in CallSet /\ Tail(s) \in Seq(CallSet) /\ Head(s) = s[1]
      /\ Len(s) \in Nat /\ Len(s) >= 1 /\ Len(Tail(s)) = Len(s) - 1
      /\ \A i \in 1..Len(Tail(s)) : Tail(s)[i] = s[i + 1]
  BY HeadTailProperties, EmptySeq, LenProperties
<1>2. DOMAIN s = 1..Len(s) /\ DOMAIN Tail(s) = 1..Len(Tail(s))
  BY <1>1, LenProperties
<1>3. \A i \in DOMAIN Tail(s) : i \in Nat /\ i >= 1 /\ i + 1 \in DOMAIN s /\ Tail(s)[i] = s[i + 1]
  BY <1>1, <1>2
<1>4. Ons(s) \subseteq {Head(s).on} \cup Ons(Tail(s))
  <2>1. ASSUME NEW i \in DOMAIN s PROVE s[i].on \in {Head(s).on} \cup Ons(Tail(s))
    <3>1. CASE i = 1
      BY <1>1, <3>1
    <3>2. CASE i # 1
      <4>1. i - 1 \in DOMAIN Tail(s) /\ Tail(s)[i - 1] = s[i]
        BY <1>1, <1>2, <3>2
      <4> QED BY <4>1 DEF Ons
    <3> QED BY <3>1, <3>2
  <2> QED BY <2>1 DEF Ons
<1>5. {Head(s).on} \cup Ons(Tail(s)) \subseteq Ons(s)
  BY <1>1, <1>2, <1>3 DEF Ons
<1> QED BY <1>1, <1>2, <1>3, <1>4, <1>5

\* The calls for the Session and for some of its Chats, each of them once.
Distinct(s) == \A i, j \in DOMAIN s : s[i] = s[j] => i = j
CallsFor(calls, do, xs) ==
  /\ calls \in Seq(CallSet) /\ Ons(calls) = xs
  /\ \A i \in DOMAIN calls : calls[i].do = do /\ calls[i].on \in xs
  /\ \A i, j \in DOMAIN calls : calls[i].on = calls[j].on => i = j

LEMMA WholeFirst ==
  ASSUME NEW do \in {"create", "materialize", "release", "delete"}, NEW chats \in Seq(Chats), Distinct(chats),
         NEW calls, calls = <<Call(do, Whole)>> \o Each(do, chats)
  PROVE  CallsFor(calls, do, {Whole} \cup ToSet(chats))
<1> DEFINE s == <<Call(do, Whole)>>
           t == Each(do, chats)
<1>1. /\ s \in Seq(CallSet) /\ Len(s) = 1 /\ DOMAIN s = 1..1 /\ s[1].do = do /\ s[1].on = Whole /\ Ons(s) = {Whole}
  <2>1. Whole \in Subjects
    BY DEF Subjects
  <2> QED BY <2>1, OneCall
<1>2. /\ t \in Seq(CallSet) /\ DOMAIN t = 1..Len(chats) /\ Ons(t) = ToSet(chats)
      /\ \A i \in 1..Len(chats) : t[i].do = do /\ t[i].on = chats[i]
  BY EachCalls
<1>3. DOMAIN chats = 1..Len(chats) /\ Len(chats) \in Nat /\ \A i \in 1..Len(chats) : chats[i] \in Chats
  BY LenProperties, ElementOfSeq
<1> HIDE DEF s, t
<1>4. /\ calls \in Seq(CallSet) /\ Ons(calls) = {Whole} \cup ToSet(chats)
      /\ DOMAIN calls = 1..Len(calls) /\ Len(calls) \in Nat
      /\ \A i \in DOMAIN calls : \/ i \in DOMAIN s /\ calls[i] = s[i]
                                 \/ i - 1 \in DOMAIN t /\ calls[i] = t[i - 1]
  BY <1>1, <1>2, OnsOfConcat, LenProperties DEF s, t
<1>5. \A i \in DOMAIN calls : calls[i].do = do /\ calls[i].on \in {Whole} \cup ToSet(chats)
  BY <1>1, <1>2, <1>4 DEF Ons
<1>6. ASSUME NEW i \in DOMAIN calls, NEW j \in DOMAIN calls, calls[i].on = calls[j].on
      PROVE  i = j
  <2>1. \/ i = 1 /\ calls[i].on = Whole
        \/ i - 1 \in 1..Len(chats) /\ calls[i].on = chats[i - 1]
    BY <1>1, <1>2, <1>4
  <2>2. \/ j = 1 /\ calls[j].on = Whole
        \/ j - 1 \in 1..Len(chats) /\ calls[j].on = chats[j - 1]
    BY <1>1, <1>2, <1>4
  <2>3. \A k \in 1..Len(chats) : chats[k] # Whole
    BY <1>3, WholeAssumption
  <2>4. CASE i = 1 /\ j = 1
    BY <2>4
  <2>5. CASE i - 1 \in 1..Len(chats) /\ j - 1 \in 1..Len(chats) /\ chats[i - 1] = chats[j - 1]
    <3>1. i - 1 = j - 1
      BY <2>5, <1>3 DEF Distinct
    <3> QED BY <3>1, <1>4
  <2> QED BY <2>1, <2>2, <2>3, <2>4, <2>5, <1>6
<1> QED BY <1>4, <1>5, <1>6 DEF CallsFor

LEMMA WholeLast ==
  ASSUME NEW do \in {"create", "materialize", "release", "delete"}, NEW chats \in Seq(Chats), Distinct(chats),
         NEW calls, calls = Each(do, chats) \o <<Call(do, Whole)>>
  PROVE  /\ CallsFor(calls, do, {Whole} \cup ToSet(chats))
         /\ \A i \in DOMAIN calls : calls[i].on = Whole => i = Len(calls)
<1> DEFINE s == Each(do, chats)
           t == <<Call(do, Whole)>>
<1>1. /\ t \in Seq(CallSet) /\ Len(t) = 1 /\ DOMAIN t = 1..1 /\ t[1].do = do /\ t[1].on = Whole /\ Ons(t) = {Whole}
  <2>1. Whole \in Subjects
    BY DEF Subjects
  <2> QED BY <2>1, OneCall
<1>2. /\ s \in Seq(CallSet) /\ Len(s) = Len(chats) /\ DOMAIN s = 1..Len(chats) /\ Ons(s) = ToSet(chats)
      /\ \A i \in 1..Len(chats) : s[i].do = do /\ s[i].on = chats[i]
  BY EachCalls
<1>3. DOMAIN chats = 1..Len(chats) /\ Len(chats) \in Nat /\ \A i \in 1..Len(chats) : chats[i] \in Chats
  BY LenProperties, ElementOfSeq
<1> HIDE DEF s, t
<1>4. /\ calls \in Seq(CallSet) /\ Ons(calls) = {Whole} \cup ToSet(chats)
      /\ DOMAIN calls = 1..Len(calls) /\ Len(calls) \in Nat /\ Len(calls) = Len(chats) + 1
      /\ \A i \in DOMAIN calls : \/ i \in DOMAIN s /\ calls[i] = s[i]
                                 \/ i - Len(chats) \in DOMAIN t /\ calls[i] = t[i - Len(chats)]
  <2>1. calls = s \o t
    BY DEF s, t
  <2>2. /\ s \o t \in Seq(CallSet) /\ Ons(s \o t) = Ons(s) \cup Ons(t)
        /\ Len(s \o t) = Len(s) + Len(t)
        /\ \A i \in DOMAIN (s \o t) :
             \/ i \in DOMAIN s /\ (s \o t)[i] = s[i]
             \/ i - Len(s) \in DOMAIN t /\ (s \o t)[i] = t[i - Len(s)]
    BY <1>1, <1>2, OnsOfConcat
  <2>3. DOMAIN calls = 1..Len(calls) /\ Len(calls) \in Nat
    BY <2>1, <2>2, LenProperties
  <2> QED BY <1>1, <1>2, <1>3, <2>1, <2>2, <2>3
<1>5. \A i \in DOMAIN calls : calls[i].do = do /\ calls[i].on \in {Whole} \cup ToSet(chats)
  <2>1. ASSUME NEW i \in DOMAIN calls PROVE calls[i].do = do /\ calls[i].on \in {Whole} \cup ToSet(chats)
    <3>1. calls[i].on \in Ons(calls)
      BY DEF Ons
    <3>2. i - Len(chats) \in 1..1 => i - Len(chats) = 1
      BY <1>3, <1>4
    <3> QED BY <3>1, <3>2, <1>1, <1>2, <1>4
  <2> QED BY <2>1
<1>6. ASSUME NEW i \in DOMAIN calls
      PROVE  \/ i = Len(calls) /\ calls[i].on = Whole
             \/ i \in 1..Len(chats) /\ calls[i].on = chats[i] /\ calls[i].on # Whole
  <2>1. CASE i \in DOMAIN s /\ calls[i] = s[i]
    BY <2>1, <1>2, <1>3, WholeAssumption
  <2>2. CASE i - Len(chats) \in DOMAIN t /\ calls[i] = t[i - Len(chats)]
    <3>1. i - Len(chats) = 1 /\ i = Len(calls)
      BY <2>2, <1>1, <1>3, <1>4
    <3> QED BY <2>2, <3>1, <1>1
  <2> QED BY <2>1, <2>2, <1>4
<1>7. \A i, j \in DOMAIN calls : calls[i].on = calls[j].on => i = j
  BY <1>3, <1>6 DEF Distinct
<1> QED BY <1>4, <1>5, <1>6, <1>7 DEF CallsFor

LEMMA ExistingIsEnumerated ==
  ExistingChats \in Seq(Chats) /\ Distinct(ExistingChats) /\ ToSet(ExistingChats) = Existing \ {Whole}
<1>1. Existing \ {Whole} \subseteq Chats
  BY DEF Existing, Subjects
<1>2. IsFiniteSet(Existing \ {Whole})
  BY <1>1, ChatsAssumption, FS_Subset
<1>3. ExistingChats \in Seq(Existing \ {Whole})
  BY <1>2, SetToSeqIsEnumeration DEF ExistingChats
<1> QED BY <1>1, <1>2, <1>3, SetToSeqIsEnumeration, SeqMonotonic DEF ExistingChats, Distinct

LEMMA MutateKeeps ==
  ASSUME IInv, Mutate
  PROVE  IInv'
<1> USE DEF IInv
<1>1. /\ record \in [Subjects -> {"none", "unavailable", "released", "available", "gone"}]
      /\ Whole \in Subjects /\ Chats \subseteq Subjects
  BY DEF Types, Subjects
<1>2. /\ \A k \in Creations : DoOf(k) = "create" /\ From(k) = {"none"}
      /\ \A k \in Materializations : DoOf(k) = "materialize" /\ From(k) = {"released"}
      /\ \A k \in Releases : DoOf(k) = "release" /\ From(k) = {"available"}
      /\ \A k \in Deletions : DoOf(k) = "delete" /\ From(k) = {"unavailable", "released", "available"}
  BY DEF DoOf, From, Creations, Materializations, Releases, Deletions, Restorations
<1>12. prepared
  BY DEF Mutate, CreateSession, MaterializeSession, ReleaseSession, DeleteSession, CreateChat,
         MaterializeChat, ReleaseChat, DeleteChat, Start
<1>3. ASSUME NEW c \in Chats
      PROVE  <<c>> \in Seq(Chats) /\ Distinct(<<c>>) /\ ToSet(<<c>>) = {c}
  BY <1>3 DEF Distinct, ToSet
<1>4. ASSUME NEW x \in Existing PROVE record[x] \in {"unavailable", "released", "available"}
  BY <1>1, <1>4 DEF Existing
<1>5. ASSUME NEW kind \in {"createChat", "releaseChat", "deleteChat"}, NEW c \in Chats,
             record[c] \in From(kind), kind = "createChat" => record[Whole] = "available",
             NEW calls, calls = <<Call(DoOf(kind), c)>>
      PROVE  Fits(kind, <<c>>, calls)
  <2>1. DoOf(kind) \in {"create", "materialize", "release", "delete"} /\ kind \in Kinds
    BY <1>2 DEF Kinds, Creations, Releases, Deletions
  <2>2. /\ calls \in Seq(CallSet) /\ DOMAIN calls = 1..1 /\ calls[1].do = DoOf(kind) /\ calls[1].on = c
        /\ Ons(calls) = {c}
    BY <1>1, <1>5, <2>1, OneCall
  <2> QED BY <1>3, <1>5, <2>1, <2>2, <1>12 DEF Fits, Creations, Materializations
<1>6. ASSUME NEW chats \in {<<>>} \cup {<<c>> : c \in Chats} \cup {SetToSeq(Chats)}, CreateSession(chats)
      PROVE  IInv'
  <2>1. chats \in Seq(Chats) /\ Distinct(chats)
    <3>1. CASE chats = <<>>
      BY <3>1, EmptySeq DEF Distinct
    <3>2. CASE chats \in {<<c>> : c \in Chats}
      BY <1>3, <3>2
    <3>3. CASE chats = SetToSeq(Chats)
      BY <3>3, ChatsAssumption, SetToSeqIsEnumeration DEF Distinct
    <3> QED BY <3>1, <3>2, <3>3
  <2>2. PICK calls : calls = <<Call("create", Whole)>> \o Each("create", chats)
    OBVIOUS
  <2>3. /\ calls \in Seq(CallSet) /\ Ons(calls) = {Whole} \cup ToSet(chats)
        /\ \A i \in DOMAIN calls : calls[i].do = "create" /\ calls[i].on \in {Whole} \cup ToSet(chats)
        /\ \A i, j \in DOMAIN calls : calls[i].on = calls[j].on => i = j
    <3>1. CallsFor(calls, "create", {Whole} \cup ToSet(chats))
      BY <2>1, <2>2, WholeFirst
    <3> QED BY <3>1 DEF CallsFor
  <2>4. ToSet(chats) \subseteq Chats
    BY <2>1, ElementOfSeq, LenProperties DEF ToSet
  <2>5. \A x \in {Whole} \cup ToSet(chats) : record[x] \in From("createSession")
    BY <1>2, <1>6, <2>4 DEF CreateSession, Creations
  <2>6. Fits("createSession", chats, calls)
    BY <1>2, <2>1, <2>3, <2>5, <1>12 DEF Fits, Kinds, Creations, WholeKinds
  <2> QED BY <1>6, <2>2, <2>6, StartKeeps DEF CreateSession
<1>7. ASSUME MaterializeSession PROVE IInv'
  <2>1. PICK calls : calls = <<Call("materialize", Whole)>> \o Each("materialize", ExistingChats)
    OBVIOUS
  <2>2. /\ calls \in Seq(CallSet) /\ Ons(calls) = {Whole} \cup (Existing \ {Whole})
        /\ \A i \in DOMAIN calls : calls[i].do = "materialize" /\ calls[i].on \in {Whole} \cup (Existing \ {Whole})
        /\ \A i, j \in DOMAIN calls : calls[i].on = calls[j].on => i = j
    <3>1. CallsFor(calls, "materialize", {Whole} \cup ToSet(ExistingChats))
      BY <2>1, WholeFirst, ExistingIsEnumerated
    <3> QED BY <3>1, ExistingIsEnumerated DEF CallsFor
  <2>3. ASSUME NEW x \in {Whole} \cup (Existing \ {Whole}) PROVE record[x] = "released"
    <3>1. record[Whole] = "released"
      BY <1>7 DEF MaterializeSession
    <3>2. \A y \in Chats : record[y] # "available" /\ record[y] # "unavailable"
      BY <1>1, <1>12, <3>1, WholeAssumption DEF Records
    <3> QED BY <1>4, <2>3, <3>1, <3>2 DEF Existing, Subjects
  <2>4. Fits("materializeSession", ExistingChats, calls)
    BY <1>2, <2>2, <2>3, ExistingIsEnumerated, <1>12 DEF Fits, Kinds, Materializations, WholeKinds, Creations
  <2> QED BY <1>7, <2>1, <2>4, StartKeeps DEF MaterializeSession
<1>8. ASSUME ReleaseSession PROVE IInv'
  <2>1. PICK calls : calls = <<Call("release", Whole)>>
    OBVIOUS
  <2>2. /\ calls \in Seq(CallSet) /\ Len(calls) = 1 /\ DOMAIN calls = 1..1 /\ calls[1].do = "release"
        /\ calls[1].on = Whole /\ Ons(calls) = {Whole}
    BY <1>1, <2>1, OneCall
  <2>3. \A x \in {Whole} \cup (Existing \ {Whole}) : record[x] = "available"
    BY <1>8 DEF ReleaseSession
  <2>4. Fits("releaseSession", ExistingChats, calls)
    BY <1>2, <2>2, <2>3, ExistingIsEnumerated, <1>12 DEF Fits, Kinds, Releases, WholeKinds, Creations, Materializations
  <2> QED BY <1>8, <2>1, <2>4, StartKeeps DEF ReleaseSession
<1>9. ASSUME DeleteSession PROVE IInv'
  <2>1. PICK calls : calls = Each("delete", ExistingChats) \o <<Call("delete", Whole)>>
    OBVIOUS
  <2>2. /\ calls \in Seq(CallSet) /\ Ons(calls) = {Whole} \cup (Existing \ {Whole})
        /\ \A i \in DOMAIN calls : calls[i].do = "delete" /\ calls[i].on \in {Whole} \cup (Existing \ {Whole})
        /\ \A i, j \in DOMAIN calls : calls[i].on = calls[j].on => i = j
        /\ \A i \in DOMAIN calls : calls[i].on = Whole => i = Len(calls)
    <3>1. /\ CallsFor(calls, "delete", {Whole} \cup ToSet(ExistingChats))
          /\ \A i \in DOMAIN calls : calls[i].on = Whole => i = Len(calls)
      BY <2>1, WholeLast, ExistingIsEnumerated
    <3> QED BY <3>1, ExistingIsEnumerated DEF CallsFor
  <2>3. \A x \in {Whole} \cup (Existing \ {Whole}) : record[x] \in From("deleteSession")
    BY <1>2, <1>4, <1>9 DEF DeleteSession, Deletions
  <2>4. Fits("deleteSession", ExistingChats, calls)
    BY <1>2, <2>2, <2>3, ExistingIsEnumerated, <1>12 DEF Fits, Kinds, Deletions, WholeKinds, Creations, Materializations
  <2> QED BY <1>9, <2>1, <2>4, StartKeeps DEF DeleteSession
<1>10. ASSUME NEW c \in Chats, CreateChat(c) \/ ReleaseChat(c) \/ DeleteChat(c) PROVE IInv'
  <2>1. CASE CreateChat(c)
    BY <1>2, <1>5, <2>1, StartKeeps DEF CreateChat, Creations
  <2>2. CASE ReleaseChat(c)
    BY <1>2, <1>5, <2>2, StartKeeps DEF ReleaseChat, Releases
  <2>3. CASE DeleteChat(c)
    <3>1. record[c] \in From("deleteChat")
      BY <1>2, <1>4, <2>3 DEF DeleteChat, Deletions
    <3> QED BY <1>2, <1>5, <2>3, <3>1, StartKeeps DEF DeleteChat, Deletions
  <2> QED BY <1>10, <2>1, <2>2, <2>3
<1>11. ASSUME NEW c \in Chats, MaterializeChat(c) PROVE IInv'
  <2>1. record[c] = "released" /\ prepared /\ c # Whole
    BY <1>11, WholeAssumption DEF MaterializeChat, Start
  <2>2. <<c>> \in Seq(Chats) /\ Distinct(<<c>>) /\ ToSet(<<c>>) = {c}
    BY <1>3
  <2>3. CASE record[Whole] = "available"
    <3>1. PICK calls : calls = <<Call("materialize", c)>>
      OBVIOUS
    <3>2. /\ calls \in Seq(CallSet) /\ DOMAIN calls = 1..1 /\ calls[1].do = "materialize" /\ calls[1].on = c
          /\ Ons(calls) = {c}
      BY <1>1, <3>1, OneCall
    <3>3. Fits("materializeChat", <<c>>, calls)
      BY <1>2, <2>1, <2>2, <2>3, <3>2, <1>12 DEF Fits, Kinds, Materializations, WholeKinds, Creations
    <3>4. calls = <<>> \o calls
      BY <3>2
    <3> QED BY <1>11, <2>3, <3>1, <3>3, <3>4, StartKeeps DEF MaterializeChat
  <2>4. CASE record[Whole] # "available"
    <3>1. PICK calls : calls = <<Call("materialize", Whole)>> \o <<Call("materialize", c)>>
      OBVIOUS
    <3>2. Each("materialize", <<c>>) = <<Call("materialize", c)>>
      BY DEF Each
    <3>3. /\ calls \in Seq(CallSet) /\ Ons(calls) = {Whole} \cup {c}
          /\ \A i \in DOMAIN calls : calls[i].do = "materialize" /\ calls[i].on \in {Whole} \cup {c}
          /\ \A i, j \in DOMAIN calls : calls[i].on = calls[j].on => i = j
      <4>1. CallsFor(calls, "materialize", {Whole} \cup ToSet(<<c>>))
        BY <2>2, <3>1, <3>2, WholeFirst
      <4> QED BY <2>2, <4>1 DEF CallsFor
    <3>4. record[Whole] = "released"
      BY <1>1, <2>1, <2>4 DEF Records
    <3>5. Fits("materializeChat", <<c>>, calls)
      BY <1>2, <2>1, <2>2, <3>3, <3>4, <1>12 DEF Fits, Kinds, Materializations, WholeKinds, Creations
    <3> QED BY <1>11, <2>4, <3>1, <3>5, StartKeeps DEF MaterializeChat
  <2> QED BY <2>3, <2>4
<1> QED BY <1>6, <1>7, <1>8, <1>9, <1>10, <1>11 DEF Mutate

-----------------------------------------------------------------------------
(* What a call does, and what a mutation makes of the records. *)

LEMMA EffectOf ==
  ASSUME Types, NEW call \in CallSet
  PROVE  /\ Effect(call) \in [Subjects -> {"absent", "released", "loaded"}]
         /\ \A x \in Subjects :
              /\ x # call.on /\ (call.on # Whole \/ call.do \in {"create", "materialize"}) => Effect(call)[x] = loaded[x]
              /\ x = call.on /\ call.do \in {"create", "materialize"} => Effect(call)[x] = "loaded"
              /\ (x = call.on \/ call.on = Whole) /\ call.do = "release" =>
                   Effect(call)[x] = IF loaded[x] = "absent" THEN "absent" ELSE "released"
              /\ (x = call.on \/ call.on = Whole) /\ call.do = "delete" => Effect(call)[x] = "absent"
<1>1. call.do \in {"create", "materialize", "release", "delete"} /\ call.on \in Subjects
  BY DEF CallSet
<1>2. ASSUME NEW x \in Subjects
      PROVE  /\ loaded[x] \in {"absent", "released", "loaded"}
             /\ Effect(call)[x] =
                  IF x # call.on /\ call.on # Whole THEN loaded[x]
                  ELSE CASE call.do \in {"create", "materialize"} -> IF x = call.on THEN "loaded" ELSE loaded[x]
                         [] call.do = "release" -> IF loaded[x] = "absent" THEN "absent" ELSE "released"
                         [] call.do = "delete" -> "absent"
  BY <1>2 DEF Effect, Types
<1>3. ASSUME NEW x \in Subjects, x # call.on, call.on # Whole PROVE Effect(call)[x] = loaded[x]
  BY <1>2, <1>3
<1>4. ASSUME NEW x \in Subjects, x = call.on \/ call.on = Whole
      PROVE  /\ x # call.on /\ call.do \in {"create", "materialize"} => Effect(call)[x] = loaded[x]
             /\ x = call.on /\ call.do \in {"create", "materialize"} => Effect(call)[x] = "loaded"
             /\ call.do = "release" => Effect(call)[x] = IF loaded[x] = "absent" THEN "absent" ELSE "released"
             /\ call.do = "delete" => Effect(call)[x] = "absent"
  BY <1>1, <1>2, <1>4
<1>5. \A x \in Subjects : Effect(call)[x] \in {"absent", "released", "loaded"}
  BY <1>1, <1>2, <1>3, <1>4
<1>6. Effect(call) \in [Subjects -> {"absent", "released", "loaded"}]
  BY <1>5 DEF Effect
<1> QED BY <1>3, <1>4, <1>6

LEMMA KindsDiffer ==
  /\ "none" \notin Kinds
  /\ \A k \in Creations : k \notin Materializations \cup Releases \cup Deletions \cup Restorations
                          /\ DoOf(k) = "create" /\ UndoOf(k) = "delete" /\ From(k) = {"none"}
  /\ \A k \in Materializations : k \notin Creations \cup Releases \cup Deletions \cup Restorations
                          /\ DoOf(k) = "materialize" /\ UndoOf(k) = "release" /\ From(k) = {"released"}
  /\ \A k \in Releases : k \notin Creations \cup Materializations \cup Deletions \cup Restorations
                          /\ DoOf(k) = "release" /\ UndoOf(k) = "materialize" /\ From(k) = {"available"}
  /\ \A k \in Deletions : k \notin Creations \cup Materializations \cup Releases \cup Restorations
                          /\ DoOf(k) = "delete" /\ UndoOf(k) = "none"
                          /\ From(k) = {"unavailable", "released", "available"}
  /\ \A k \in Restorations : k \notin Creations \cup Materializations \cup Releases \cup Deletions
                          /\ k = "restore"
                          /\ DoOf(k) = "materialize" /\ UndoOf(k) = "release" /\ From(k) = {"available"}
BY DEF Kinds, Creations, Materializations, Releases, Deletions, Restorations, DoOf, UndoOf, From

LEMMA OutcomeOf ==
  ASSUME job.kind \in Kinds, NEW x
  PROVE  /\ job.kind \in Creations \cup Materializations =>
              Outcome(x) = IF x \in ToSet(job.chats) \/ x = Whole THEN "available" ELSE record[x]
         /\ job.kind \in Releases =>
              Outcome(x) = IF x \in ToSet(job.chats) \/ (x = Whole /\ job.kind = "releaseSession")
                             THEN "released" ELSE record[x]
         /\ job.kind \in Deletions =>
              Outcome(x) = IF x \in ToSet(job.chats) \/ (x = Whole /\ job.kind = "deleteSession")
                             THEN "gone" ELSE record[x]
         /\ job.kind \in Restorations => Outcome(x) = record[x]
<1>2. CASE job.kind \in Creations \cup Materializations
  BY <1>2, KindsDiffer DEF Outcome
<1>3. CASE job.kind \in Releases
  BY <1>3, KindsDiffer DEF Outcome
<1>4. CASE job.kind \in Deletions
  BY <1>4, KindsDiffer DEF Outcome
<1>5. CASE job.kind \in Restorations
  BY <1>5, KindsDiffer DEF Outcome
<1> QED BY <1>2, <1>3, <1>4, <1>5, KindsDiffer DEF Kinds

\* A mutation that runs.
LEMMA Running ==
  ASSUME IInv, job.calls # <<>> \/ job.undo # <<>> \/ job.failed
  PROVE  /\ job.kind \in Kinds /\ job.kind # "none" /\ job # Idle
         /\ prepared <=> job.kind \notin Restorations
         /\ job.calls \in Seq(CallSet) /\ job.undo \in Seq(CallSet) /\ job.chats \in Seq(Chats)
         /\ ToSet(job.chats) \subseteq Chats /\ Involved \subseteq Subjects /\ Whole \in Subjects
         /\ Whole \notin ToSet(job.chats)
<1>1. job # Idle
  BY DEF Idle
<1>2. job.kind \in Kinds /\ job.kind # "none" /\ (prepared <=> job.kind \notin Restorations)
  BY <1>1 DEF IInv, Types, JobSet, Restorations
<1>3. job.calls \in Seq(CallSet) /\ job.undo \in Seq(CallSet) /\ job.chats \in Seq(Chats)
  BY DEF IInv, Types, JobSet
<1>4. ToSet(job.chats) \subseteq Chats
  BY <1>3, ElementOfSeq, LenProperties DEF ToSet
<1> QED BY <1>1, <1>2, <1>3, <1>4, WholeAssumption DEF Involved, Subjects

-----------------------------------------------------------------------------
(* A call is answered. *)

\* What takes back a call is asked of what the call is about.
LEMMA TakingBack ==
  ASSUME job.kind \in Kinds, job.chats \in Seq(Chats), Whole \in Subjects,
         NEW call \in CallSet, call.do = DoOf(job.kind)
  PROVE  /\ TakesBack(call) \in Seq(CallSet)
         /\ \A i \in DOMAIN TakesBack(call) : TakesBack(call)[i].do = UndoOf(job.kind)
         /\ job.kind \in Deletions => TakesBack(call) = <<>>
         /\ job.kind \notin Deletions => call.on \in Ons(TakesBack(call))
         /\ Ons(TakesBack(call)) \subseteq
              {call.on} \cup (IF job.kind \in Releases /\ call.on = Whole THEN ToSet(job.chats) ELSE {})
         /\ job.kind \in Releases /\ call.on = Whole => ToSet(job.chats) \subseteq Ons(TakesBack(call))
<1>1. call.on \in Subjects
  BY DEF CallSet
<1>2. CASE job.kind \in Creations
  <2>1. TakesBack(call) = <<Call("delete", call.on)>>
    BY <1>2, KindsDiffer DEF TakesBack
  <2> QED BY <1>1, <1>2, <2>1, OneCall, KindsDiffer
<1>3. CASE job.kind \in Materializations \cup Restorations
  <2>1. TakesBack(call) = <<Call("release", call.on)>>
    BY <1>3, KindsDiffer DEF TakesBack
  <2> QED BY <1>1, <1>3, <2>1, OneCall, KindsDiffer
<1>4. CASE job.kind \in Releases
  <2>1. PICK s : s = <<Call("materialize", call.on)>>
    OBVIOUS
  <2>2. PICK t : t = IF call.on = Whole THEN Each("materialize", job.chats) ELSE <<>>
    OBVIOUS
  <2>3. TakesBack(call) = s \o t
    BY <1>4, <2>1, <2>2, KindsDiffer DEF TakesBack
  <2>4. /\ s \in Seq(CallSet) /\ DOMAIN s = 1..1 /\ s[1].do = "materialize" /\ Ons(s) = {call.on}
    BY <1>1, <2>1, OneCall
  <2>5. /\ t \in Seq(CallSet) /\ \A i \in DOMAIN t : t[i].do = "materialize"
        /\ Ons(t) = IF call.on = Whole THEN ToSet(job.chats) ELSE {}
    <3>1. CASE call.on = Whole
      BY <2>2, <3>1, EachCalls
    <3>2. CASE call.on # Whole
      BY <2>2, <3>2, EmptySeq DEF Ons
    <3> QED BY <3>1, <3>2
  <2>6. /\ s \o t \in Seq(CallSet) /\ Ons(s \o t) = Ons(s) \cup Ons(t)
        /\ \A i \in DOMAIN (s \o t) :
             \/ i \in DOMAIN s /\ (s \o t)[i] = s[i]
             \/ i - Len(s) \in DOMAIN t /\ (s \o t)[i] = t[i - Len(s)]
    BY <2>4, <2>5, OnsOfConcat
  <2>7. \A i \in DOMAIN (s \o t) : (s \o t)[i].do = "materialize"
    BY <2>4, <2>5, <2>6
  <2> QED BY <1>4, <2>3, <2>4, <2>5, <2>6, <2>7, KindsDiffer
<1>5. CASE job.kind \in Deletions
  <2>1. TakesBack(call) = <<>> /\ <<>> \in Seq(CallSet) /\ Ons(<<>>) = {}
    BY <1>5, KindsDiffer, EmptySeq DEF TakesBack, Ons
  <2> QED BY <1>5, <2>1, KindsDiffer
<1> QED BY <1>2, <1>3, <1>4, <1>5 DEF Kinds

\* A call that is answered, the shape of the mutation.
LEMMA CallAnsweredShape ==
  ASSUME IInv, NEW call, call = Head(job.calls), CallAnswered
  PROVE  /\ call \in CallSet /\ call.do = DoOf(job.kind) /\ call.on \in Involved /\ call.on \in Subjects
         /\ record[call.on] \in From(job.kind) /\ job.failed = FALSE
         /\ job'.kind = job.kind /\ job'.chats = job.chats /\ job'.failed = Mistaken(call)
         /\ job'.undo = TakesBack(call) \o job.undo
         /\ Ons(job'.undo) = Ons(TakesBack(call)) \cup Ons(job.undo)
         /\ Mistaken(call) => job'.calls = <<>>
         /\ ~Mistaken(call) => job'.calls = Tail(job.calls)
         /\ Ons(job.calls) = {call.on} \cup Ons(Tail(job.calls)) /\ call.on \notin Ons(Tail(job.calls))
         /\ job.kind = "releaseSession" => Tail(job.calls) = <<>> /\ call.on = Whole /\ memo = Nothing
         /\ job.kind = "deleteSession" /\ call.on = Whole => Tail(job.calls) = <<>>
         /\ job' \in JobSet /\ JobShape'
<1> USE DEF IInv
<1>1. job.calls # <<>> /\ UNCHANGED <<agent, prepared, record, failures, restarts>>
  BY DEF CallAnswered
<1>2. /\ job.kind \in Kinds /\ job.kind # "none" /\ job # Idle /\ (prepared <=> job.kind \notin Restorations)
      /\ job.calls \in Seq(CallSet) /\ job.undo \in Seq(CallSet) /\ job.chats \in Seq(Chats)
      /\ ToSet(job.chats) \subseteq Chats /\ Involved \subseteq Subjects /\ Whole \in Subjects
      /\ Whole \notin ToSet(job.chats)
  BY <1>1, Running
<1>3. /\ call \in CallSet /\ Tail(job.calls) \in Seq(CallSet) /\ call = job.calls[1] /\ 1 \in DOMAIN job.calls
      /\ Ons(job.calls) = {call.on} \cup Ons(Tail(job.calls))
      /\ Len(job.calls) \in Nat /\ Len(job.calls) >= 1 /\ Len(Tail(job.calls)) = Len(job.calls) - 1
      /\ \A i \in DOMAIN Tail(job.calls) :
           i \in Nat /\ i >= 1 /\ i + 1 \in DOMAIN job.calls /\ Tail(job.calls)[i] = job.calls[i + 1]
  BY <1>1, <1>2, FirstCall
<1>4. call.do = DoOf(job.kind) /\ call.on \in Involved /\ call.on \in Subjects /\ record[call.on] \in From(job.kind)
  BY <1>2, <1>3 DEF JobShape, CallSet
<1>5. call.on \notin Ons(Tail(job.calls))
  <2>1. ASSUME NEW i \in DOMAIN Tail(job.calls) PROVE Tail(job.calls)[i].on # call.on
    <3>1. i + 1 \in DOMAIN job.calls /\ i + 1 # 1
      BY <1>3
    <3> QED BY <3>1, <1>2, <1>3 DEF JobShape
  <2> QED BY <2>1 DEF Ons
<1>6. job.kind = "releaseSession" => Tail(job.calls) = <<>> /\ call.on = Whole /\ memo = Nothing
  <2>1. Len(Tail(job.calls)) = 0 => Tail(job.calls) = <<>>
    BY <1>3, EmptySeq
  <2> QED BY <1>1, <1>2, <1>3, <2>1 DEF JobShape
<1>7. job.kind = "deleteSession" /\ call.on = Whole => Tail(job.calls) = <<>>
  <2>1. Len(Tail(job.calls)) = 0 => Tail(job.calls) = <<>>
    BY <1>3, EmptySeq
  <2> QED BY <1>2, <1>3, <2>1 DEF JobShape
<1>8. Mistaken(call) \in BOOLEAN
  BY DEF Mistaken
<1>9. PICK undo : undo = TakesBack(call) \o job.undo
  OBVIOUS
<1>10. PICK calls : calls = IF Mistaken(call) THEN <<>> ELSE Tail(job.calls)
  OBVIOUS
<1>11. job' = [job EXCEPT !.calls = calls, !.undo = undo, !.failed = Mistaken(call)]
  BY <1>9, <1>10 DEF CallAnswered
<1>12. /\ job'.kind = job.kind /\ job'.chats = job.chats /\ job'.failed = Mistaken(call)
       /\ job'.calls = calls /\ job'.undo = undo
  BY <1>11 DEF Types, JobSet
<1>13. job.failed = FALSE
  BY <1>1 DEF Types, JobSet
<1>14. /\ TakesBack(call) \in Seq(CallSet)
       /\ \A i \in DOMAIN TakesBack(call) : TakesBack(call)[i].do = UndoOf(job.kind)
       /\ job.kind \in Deletions => TakesBack(call) = <<>>
       /\ Ons(TakesBack(call)) \subseteq {call.on} \cup ToSet(job.chats)
  BY <1>2, <1>3, <1>4, TakingBack
<1>15. /\ undo \in Seq(CallSet) /\ Ons(undo) = Ons(TakesBack(call)) \cup Ons(job.undo)
       /\ \A i \in DOMAIN undo : undo[i].do = UndoOf(job.kind) /\ undo[i].on \in Ons(undo)
  <2>1. PICK s : s = TakesBack(call)
    OBVIOUS
  <2>2. PICK t : t = job.undo
    OBVIOUS
  <2>3. s \in Seq(CallSet) /\ t \in Seq(CallSet) /\ undo = s \o t
    BY <1>2, <1>9, <1>14, <2>1, <2>2
  <2>4. /\ s \o t \in Seq(CallSet) /\ Ons(s \o t) = Ons(s) \cup Ons(t)
        /\ \A i \in DOMAIN (s \o t) :
             \/ i \in DOMAIN s /\ (s \o t)[i] = s[i]
             \/ i - Len(s) \in DOMAIN t /\ (s \o t)[i] = t[i - Len(s)]
    BY <2>3, OnsOfConcat
  <2>5. /\ \A i \in DOMAIN s : s[i].do = UndoOf(job.kind)
        /\ \A i \in DOMAIN t : t[i].do = UndoOf(job.kind)
    BY <1>2, <1>14, <2>1, <2>2 DEF JobShape
  <2>6. \A i \in DOMAIN undo : undo[i].do = UndoOf(job.kind)
    BY <2>3, <2>4, <2>5
  <2>7. \A i \in DOMAIN undo : undo[i].on \in Ons(undo)
    BY DEF Ons
  <2> QED BY <2>1, <2>2, <2>3, <2>4, <2>6, <2>7, ZenonT(60)
<1>16. calls \in Seq(CallSet) /\ Ons(calls) \subseteq Ons(job.calls)
  <2>1. <<>> \in Seq(CallSet) /\ Ons(<<>>) = {}
    BY EmptySeq DEF Ons
  <2> QED BY <1>3, <1>10, <2>1
<1>17. job' \in JobSet
  <2>1. job \in JobSet
    BY DEF Types
  <2> QED BY <1>8, <1>11, <1>15, <1>16, <2>1 DEF JobSet
<1>18. JobShape'
  <2>1. Existing' = Existing /\ Involved' = Involved
    BY <1>1, <1>12 DEF Existing, Involved
  <2>2. Ons(job.undo) \subseteq Involved
    BY <1>2 DEF JobShape, Ons
  <2>3. ASSUME NEW i \in DOMAIN undo PROVE undo[i].do = UndoOf(job.kind) /\ undo[i].on \in Involved
    <3>1. ToSet(job.chats) \subseteq Involved
      BY DEF Involved
    <3> QED BY <1>4, <1>14, <1>15, <2>2, <3>1
  <2>4. \A x \in Ons(calls) \cup Ons(undo) \cup ToSet(job.chats) : record[x] \in From(job.kind)
    BY <1>2, <1>4, <1>14, <1>15, <1>16 DEF JobShape
  <2>5. /\ \A i \in DOMAIN calls : calls[i].do = DoOf(job.kind) /\ calls[i].on \in Involved
        /\ \A i, j \in DOMAIN calls : calls[i].on = calls[j].on => i = j
        /\ job.kind = "releaseSession" => calls = <<>>
        /\ job.kind = "deleteSession" => \A i \in DOMAIN calls : calls[i].on = Whole => i = Len(calls)
    <3>1. CASE Mistaken(call)
      BY <1>10, <3>1
    <3>2. CASE ~Mistaken(call)
      <4>1. calls = Tail(job.calls)
        BY <1>10, <3>2
      <4>2. /\ \A i \in DOMAIN calls : calls[i].do = DoOf(job.kind) /\ calls[i].on \in Involved
        BY <1>2, <1>3, <4>1 DEF JobShape
      <4>3. ASSUME NEW i \in DOMAIN calls, NEW j \in DOMAIN calls, calls[i].on = calls[j].on PROVE i = j
        <5>1. i + 1 = j + 1
          BY <1>2, <1>3, <4>1, <4>3 DEF JobShape
        <5> QED BY <1>3, <4>1, <5>1
      <4>4. ASSUME job.kind = "deleteSession", NEW i \in DOMAIN calls, calls[i].on = Whole PROVE i = Len(calls)
        <5>1. i + 1 = Len(job.calls)
          BY <1>2, <1>3, <4>1, <4>4 DEF JobShape
        <5> QED BY <1>3, <4>1, <5>1
      <4> QED BY <1>6, <4>1, <4>2, <4>3, <4>4
    <3> QED BY <3>1, <3>2
  <2>6. job.kind = "releaseSession" => Len(calls) <= 1 /\ \A i \in DOMAIN calls : calls[i].on = Whole
    <3>1. Len(<<>>) = 0
      OBVIOUS
    <3> QED BY <2>5, <3>1
  <2>7. job.kind \in Deletions => undo = <<>>
    <3>1. job.kind \in Deletions => undo = <<>> \o job.undo /\ job.undo = <<>>
      BY <1>2, <1>9, <1>14 DEF JobShape
    <3> QED BY <3>1
  <2>8. job.kind \in {"releaseSession", "deleteSession"} =>
          record[Whole] \in From(job.kind) /\ ToSet(job.chats) = Existing \ {Whole}
    BY <1>2 DEF JobShape
  <2> QED BY <1>1, <1>12, <2>1, <2>3, <2>4, <2>5, <2>6, <2>7, <2>8 DEF JobShape
<1> QED
  BY <1>3, <1>4, <1>5, <1>6, <1>7, <1>9, <1>10, <1>12, <1>13, <1>15, <1>17, <1>18

LEMMA CallAnsweredKeeps ==
  ASSUME IInv, CallAnswered
  PROVE  IInv'
<1> USE DEF IInv
<1>1. PICK call : call = Head(job.calls)
  OBVIOUS
<1>2. /\ call \in CallSet /\ call.do = DoOf(job.kind) /\ call.on \in Involved /\ call.on \in Subjects
      /\ record[call.on] \in From(job.kind) /\ job.failed = FALSE
      /\ job'.kind = job.kind /\ job'.chats = job.chats /\ job'.failed = Mistaken(call)
      /\ Ons(job'.undo) = Ons(TakesBack(call)) \cup Ons(job.undo)
      /\ Mistaken(call) => job'.calls = <<>>
      /\ ~Mistaken(call) => job'.calls = Tail(job.calls)
      /\ Ons(job.calls) = {call.on} \cup Ons(Tail(job.calls)) /\ call.on \notin Ons(Tail(job.calls))
      /\ job.kind = "releaseSession" => Tail(job.calls) = <<>> /\ call.on = Whole /\ memo = Nothing
      /\ job.kind = "deleteSession" /\ call.on = Whole => Tail(job.calls) = <<>>
      /\ job' \in JobSet /\ JobShape'
  BY <1>1, CallAnsweredShape
<1>3. /\ job.calls # <<>> /\ UNCHANGED <<agent, prepared, record, failures, restarts>> /\ Answers(call)
  BY <1>1 DEF CallAnswered
<1>4. /\ job.kind \in Kinds /\ job.kind # "none" /\ job # Idle /\ (prepared <=> job.kind \notin Restorations)
      /\ job.calls \in Seq(CallSet) /\ job.undo \in Seq(CallSet) /\ job.chats \in Seq(Chats)
      /\ ToSet(job.chats) \subseteq Chats /\ Involved \subseteq Subjects /\ Whole \in Subjects
      /\ Whole \notin ToSet(job.chats)
  BY <1>3, Running
<1>5. Mistaken(call) => Repeated
  BY DEF Mistaken
<1>6. Types'
  <2>1. /\ loaded' \in [Subjects -> {"absent", "released", "loaded"}]
        /\ memo' \in Subjects \cup {Nothing} /\ doubt' \subseteq Subjects
    BY <1>2, <1>3, EffectOf DEF Answers, Types
  <2>2. job'.failed => job'.calls = <<>>
    BY <1>2
  <2> QED BY <1>2, <1>3, <1>4, <2>1, <2>2 DEF Types
<1>7. Records'
  BY <1>2, <1>3, <1>4 DEF Records
<1>8. \A x : Outcome(x)' = Outcome(x) /\ Now(x)' = Now(x)
  BY <1>2, <1>3 DEF Outcome, Now
<1>9. /\ Ons(<<>>) = {}
      /\ Todo = IF job.kind = "releaseSession" THEN Subjects ELSE Ons(job.calls)
      /\ Todo' = IF job.kind = "releaseSession" /\ job'.calls # <<>> THEN Subjects ELSE Ons(job'.calls)
  BY <1>2, <1>3 DEF Todo, Ons
<1>10. /\ job.kind \notin Deletions => call.on \in Ons(TakesBack(call))
       /\ job.kind = "releaseSession" => ToSet(job.chats) \subseteq Ons(TakesBack(call))
  BY <1>2, <1>4, TakingBack DEF Releases
<1>11. ASSUME NEW x \in Subjects \ doubt
       PROVE  /\ AgreesWith(x, IF x \in Todo THEN Now(x) ELSE Outcome(x))
              /\ x \in Ons(job.undo) \/ job.kind \in Deletions \/ AgreesWith(x, Now(x))
  BY <1>2, <1>4 DEF Agreed
<1>12. CASE Repeated
  <2>1. doubt' = doubt \cup {call.on} /\ loaded' = loaded
    BY <1>3, <1>12 DEF Answers
  <2>2. job.kind # "releaseSession"
    BY <1>2, <1>12 DEF Repeated
  <2>3. ASSUME NEW x \in Subjects \ doubt', ~job'.failed
        PROVE  AgreesWith(x, IF x \in Todo THEN Now(x) ELSE Outcome(x))'
    <3>1. x \in Todo' <=> x \in Todo
      BY <1>2, <1>9, <2>1, <2>2, <2>3
    <3> QED BY <1>3, <1>8, <1>11, <2>1, <3>1 DEF AgreesWith
  <2>4. ASSUME NEW x \in Subjects \ doubt'
        PROVE  x \in Ons(job'.undo) \/ (job'.kind \in Deletions /\ ~job'.failed) \/ AgreesWith(x, Now(x))'
    <3>1. Mistaken(call) => job.kind \notin Deletions
      BY <1>2, KindsDiffer DEF Mistaken
    <3> QED BY <1>2, <1>3, <1>8, <1>11, <2>1, <3>1 DEF AgreesWith
  <2> QED BY <1>2, <1>4, <1>6, <1>7, <2>3, <2>4 DEF Agreed
<1>13. CASE ~Repeated
  <2>1. doubt' = doubt /\ loaded' = Effect(call) /\ ~Mistaken(call)
    BY <1>3, <1>5, <1>13 DEF Answers
  <2>2. job'.calls = Tail(job.calls) /\ ~job'.failed
    BY <1>2, <2>1
  <2>3. ASSUME NEW x \in Subjects \ doubt', x # call.on, call.on # Whole \/ call.do \in {"create", "materialize"}
        PROVE  /\ AgreesWith(x, IF x \in Todo THEN Now(x) ELSE Outcome(x))'
               /\ x \in Ons(job'.undo) \/ job'.kind \in Deletions \/ AgreesWith(x, Now(x))'
    <3>1. loaded'[x] = loaded[x]
      BY <1>2, <2>1, <2>3, EffectOf
    <3>2. job.kind # "releaseSession"
      BY <1>2, <2>3, KindsDiffer DEF Releases
    <3>3. x \in Todo' <=> x \in Todo
      BY <1>2, <1>9, <2>2, <2>3, <3>2
    <3> QED BY <1>2, <1>3, <1>8, <1>11, <2>1, <3>1, <3>3 DEF AgreesWith
  <2>4. ASSUME NEW x \in Subjects \ doubt', x = call.on \/ ~(call.on # Whole \/ call.do \in {"create", "materialize"})
        PROVE  /\ AgreesWith(x, IF x \in Todo THEN Now(x) ELSE Outcome(x))'
               /\ x \in Ons(job'.undo) \/ job'.kind \in Deletions \/ AgreesWith(x, Now(x))'
    <3>1. CASE job.kind \in Creations \cup Materializations \cup Restorations
      <4>1. x = call.on /\ loaded'[x] = "loaded"
        BY <1>2, <2>1, <2>4, <3>1, EffectOf, KindsDiffer
      <4>2. x \notin Todo'
        BY <1>2, <1>9, <2>2, <3>1, <4>1, KindsDiffer DEF Releases
      <4>3. Outcome(x) = "available"
        BY <1>2, <1>4, <3>1, <4>1, OutcomeOf, KindsDiffer DEF Involved
      <4>4. x \in Ons(job'.undo)
        BY <1>2, <1>10, <3>1, <4>1, KindsDiffer
      <4> QED BY <1>8, <4>1, <4>2, <4>3, <4>4 DEF AgreesWith
    <3>2. CASE job.kind = "releaseChat"
      <4>1. job.kind \in Releases /\ job.kind \notin WholeKinds
        BY <3>2 DEF Releases, WholeKinds
      <4>2. x = call.on /\ x \in ToSet(job.chats)
        BY <1>2, <1>4, <2>4, <4>1 DEF Involved
      <4>3. loaded'[x] # "loaded" /\ Outcome(x) = "released"
        BY <1>2, <1>4, <2>1, <4>1, <4>2, EffectOf, OutcomeOf, KindsDiffer
      <4>4. x \notin Todo' /\ x \in Ons(job'.undo)
        BY <1>2, <1>9, <1>10, <2>2, <3>2, <4>1, <4>2, KindsDiffer
      <4> QED BY <1>8, <4>3, <4>4 DEF AgreesWith
    <3>3. CASE job.kind = "releaseSession"
      <4>1. job.kind \in Releases /\ call.on = Whole /\ Todo = Subjects /\ Todo' = {}
        BY <1>2, <1>9, <2>2, <3>3 DEF Releases
      <4>2. loaded'[x] = IF loaded[x] = "absent" THEN "absent" ELSE "released"
        BY <1>2, <2>1, <4>1, EffectOf, KindsDiffer
      <4>3. AgreesWith(x, record[x])
        <5>1. Now(x) = record[x]
          BY <1>4, <4>1, KindsDiffer DEF Now
        <5> QED BY <1>11, <2>1, <2>4, <4>1, <5>1
      <4>4. ToSet(job.chats) = Existing \ {Whole}
        BY <1>4, <3>3 DEF JobShape
      <4>5. CASE x = Whole \/ x \in Existing
        <5>1. Outcome(x) = "released" /\ x \in Ons(job'.undo)
          BY <1>2, <1>4, <1>10, <3>3, <4>1, <4>4, <4>5, OutcomeOf, KindsDiffer
        <5> QED BY <1>8, <4>1, <4>2, <5>1 DEF AgreesWith
      <4>6. CASE x # Whole /\ x \notin Existing
        <5>1. Outcome(x) = record[x] /\ record[x] \in {"none", "gone"}
          BY <1>4, <3>3, <4>1, <4>4, <4>6, OutcomeOf DEF Existing
        <5>2. Now(x) = record[x]
          BY <1>4, <4>1, KindsDiffer DEF Now
        <5> QED BY <1>8, <4>1, <4>2, <4>3, <5>1, <5>2 DEF AgreesWith
      <4> QED BY <4>5, <4>6
    <3>4. CASE job.kind \in Deletions
      <4>1. loaded'[x] = "absent"
        BY <1>2, <2>1, <2>4, <3>4, EffectOf, KindsDiffer
      <4>2. Outcome(x) \in {"none", "gone"} /\ x \notin Todo'
        <5>1. CASE call.on # Whole
          <6>1. x \in ToSet(job.chats)
            BY <1>2, <2>4, <5>1 DEF Involved
          <6>2. x \notin Todo'
            BY <1>2, <1>9, <2>2, <2>4, <3>4, <5>1, KindsDiffer DEF Releases
          <6> QED BY <1>4, <3>4, <6>1, <6>2, OutcomeOf
        <5>2. CASE call.on = Whole
          <6>1. job.kind = "deleteSession"
            BY <1>2, <1>4, <3>4, <5>2 DEF Involved, WholeKinds, Deletions
          <6>2. ToSet(job.chats) = Existing \ {Whole} /\ Todo' = {}
            BY <1>2, <1>4, <1>9, <2>2, <5>2, <6>1 DEF JobShape
          <6> QED BY <1>4, <3>4, <6>1, <6>2, OutcomeOf DEF Existing
        <5> QED BY <5>1, <5>2
      <4> QED BY <1>2, <1>8, <3>4, <4>1, <4>2 DEF AgreesWith
    <3> QED BY <1>4, <3>1, <3>2, <3>3, <3>4 DEF Kinds, Releases
  <2>5. \A x \in Subjects \ doubt' :
          /\ AgreesWith(x, IF x \in Todo THEN Now(x) ELSE Outcome(x))'
          /\ x \in Ons(job'.undo) \/ job'.kind \in Deletions \/ AgreesWith(x, Now(x))'
    BY <2>3, <2>4
  <2> QED BY <1>2, <1>4, <1>6, <1>7, <2>2, <2>5 DEF Agreed
<1> QED BY <1>12, <1>13

-----------------------------------------------------------------------------
(* A call or the commit fails. *)

\* What is deleted already is in doubt, all the rest is as it is recorded or
\* will be taken back.
LEMMA FailureKeeps ==
  ASSUME IInv, job # Idle, job.failed = FALSE, failures' \in 0 .. MaxFailures,
         job' = [job EXCEPT !.calls = <<>>, !.failed = TRUE], doubt' = doubt \cup Deleted(job),
         UNCHANGED <<agent, prepared, record, loaded, memo, restarts>>
  PROVE  IInv'
<1> USE DEF IInv
<1>1. /\ job \in JobSet /\ job.kind # "none" /\ job.kind \in Kinds
      /\ job'.kind = job.kind /\ job'.chats = job.chats /\ job'.undo = job.undo
      /\ job'.calls = <<>> /\ job'.failed = TRUE
  BY DEF Types, JobSet
<1>2. job' \in JobSet
  BY <1>1, EmptySeq DEF JobSet
<1>3. Types'
  BY <1>1, <1>2 DEF Types, Deleted
<1>4. Records'
  BY <1>1 DEF Records, Types
<1>5. JobShape'
  <2>1. Existing' = Existing /\ Involved' = Involved
    BY <1>1 DEF Existing, Involved
  <2>2. Ons(<<>>) = {} /\ Len(<<>>) = 0 /\ DOMAIN <<>> = {}
    BY DEF Ons
  <2> QED BY <1>1, <2>1, <2>2 DEF JobShape
<1>6. ASSUME NEW x \in Subjects \ doubt' PROVE x \in Ons(job.undo) \/ AgreesWith(x, Now(x))
  <2>1. CASE job.kind \notin Deletions
    BY <1>1, <1>6, <2>1 DEF Agreed
  <2>2. CASE job.kind \in Deletions
    <3>1. AgreesWith(x, IF x \in Todo THEN Now(x) ELSE Outcome(x))
      BY <1>1, <1>6 DEF Agreed
    <3>2. Outcome(x) # record[x] => Outcome(x) = "gone"
      BY <1>1, <2>2, OutcomeOf
    <3>3. loaded[x] = "absent" => record[x] \in {"none", "gone"}
      BY <1>6, <2>2 DEF Deleted, Existing
    <3>4. Now(x) = record[x]
      BY <1>1, <2>2, KindsDiffer DEF Types, Now, Restorations
    <3> QED BY <3>1, <3>2, <3>3, <3>4 DEF AgreesWith
  <2> QED BY <2>1, <2>2
<1>7. \A x : Now(x)' = Now(x)
  BY DEF Now
<1>8. Agreed'
  BY <1>1, <1>6, <1>7 DEF Agreed, AgreesWith
<1> QED BY <1>3, <1>4, <1>5, <1>8

LEMMA CallFailsKeeps ==
  ASSUME IInv, CallFails
  PROVE  IInv'
<1>1. job # Idle /\ job.failed = FALSE
  BY DEF CallFails, Idle, IInv, Types, JobSet
<1>2. failures' \in 0 .. MaxFailures
  BY BoundsAssumption DEF CallFails, Fails, IInv, Types
<1> QED BY <1>1, <1>2, FailureKeeps DEF CallFails

LEMMA CommitFailsKeeps ==
  ASSUME IInv, CommitFails
  PROVE  IInv'
<1>1. job # Idle /\ job.failed = FALSE /\ job.calls = <<>> /\ job \in JobSet
  BY DEF CommitFails, Committing, IInv, Types, JobSet
<1>2. failures' \in 0 .. MaxFailures
  BY BoundsAssumption DEF CommitFails, Fails, IInv, Types
<1>3. job' = [job EXCEPT !.calls = <<>>, !.failed = TRUE]
  BY <1>1 DEF CommitFails, JobSet
<1> QED BY <1>1, <1>2, <1>3, FailureKeeps DEF CommitFails

-----------------------------------------------------------------------------
(* The end of a mutation, a restart and its recovery. *)

LEMMA IdleKeeps ==
  ASSUME Types', Records', job' = Idle, \A x \in Subjects \ doubt' : AgreesWith(x, Now(x))'
  PROVE  IInv'
<1>1. job'.kind = "none"
  BY DEF Idle
<1> QED BY <1>1 DEF IInv, JobShape, Agreed

LEMMA IdleIsAJob == Idle \in JobSet /\ Idle.kind = "none" /\ Idle.failed = FALSE
BY EmptySeq DEF Idle, JobSet

LEMMA CommitKeeps ==
  ASSUME IInv, Commit
  PROVE  IInv'
<1> USE DEF IInv
<1>1. /\ job # Idle /\ job.calls = <<>> /\ ~job.failed /\ record' = [x \in Subjects |-> Outcome(x)] /\ job' = Idle
      /\ prepared' = TRUE /\ UNCHANGED <<agent, loaded, memo, doubt, failures, restarts>>
  BY DEF Commit, Committing
<1>2. /\ job.kind # "none" /\ job.kind \in Kinds /\ job.chats \in Seq(Chats) /\ job'.kind = "none"
      /\ prepared \/ agent = "comet"
  BY <1>1, IdleIsAJob DEF Types, JobSet
<1>3. ToSet(job.chats) \subseteq Chats /\ Whole \notin ToSet(job.chats) /\ Whole \in Subjects /\ Chats \subseteq Subjects
  BY <1>2, ElementOfSeq, LenProperties, WholeAssumption DEF ToSet, Subjects
<1>4. \A x \in Subjects : record'[x] = Outcome(x)
  BY <1>1
<1>5. \A x \in Subjects : record[x] \in {"none", "unavailable", "released", "available", "gone"}
  BY DEF Types
<1>6. ASSUME NEW x \in Subjects
      PROVE  Outcome(x) \in {"none", "unavailable", "released", "available", "gone"}
  BY <1>2, <1>5, OutcomeOf DEF Kinds
<1>7. Types'
  BY <1>1, <1>2, <1>6, IdleIsAJob DEF Types
<1>8. Records'
  <2>1. CASE job.kind \in Creations \cup Materializations
    <3>1. /\ record'[Whole] = "available"
          /\ \A x \in Subjects : record'[x] = "available" \/ record'[x] = record[x]
      BY <1>2, <1>3, <1>4, <2>1, OutcomeOf
    <3> QED BY <1>1, <1>2, <1>3, <3>1 DEF Records
  <2>2. CASE job.kind = "releaseSession"
    <3>1. job.kind \in Releases /\ ToSet(job.chats) = Existing \ {Whole}
      BY <1>2, <2>2 DEF Releases, JobShape
    <3>2. record'[Whole] = "released"
      BY <1>2, <1>3, <1>4, <2>2, <3>1, OutcomeOf
    <3>3. ASSUME NEW c \in Chats PROVE record'[c] \in {"released", "none", "gone"}
      <4>1. c \notin Existing => record[c] \in {"none", "gone"}
        BY <1>3 DEF Existing
      <4>2. c # Whole
        BY WholeAssumption
      <4> QED BY <1>2, <1>3, <1>4, <2>2, <3>1, <4>1, <4>2, OutcomeOf
    <3> QED BY <1>1, <1>2, <3>2, <3>3 DEF Records, Subjects
  <2>3. CASE job.kind = "releaseChat"
    <3>1. job.kind \in Releases /\ \A c \in ToSet(job.chats) : record[c] = "available"
      BY <1>2, <2>3, KindsDiffer DEF Releases, JobShape
    <3>2. /\ record'[Whole] = record[Whole]
          /\ \A c \in Chats : IF c \in ToSet(job.chats) THEN record'[c] = "released" ELSE record'[c] = record[c]
      BY <1>2, <1>3, <1>4, <2>3, <3>1, WholeAssumption, OutcomeOf
    <3>3. ToSet(job.chats) # {} => record[Whole] = "available"
      BY <1>3, <3>1 DEF Records
    <3> QED BY <1>1, <1>2, <1>3, <1>5, <3>2, <3>3 DEF Records, Subjects
  <2>4. CASE job.kind = "deleteSession"
    <3>1. job.kind \in Deletions /\ ToSet(job.chats) = Existing \ {Whole}
      BY <1>2, <2>4 DEF Deletions, JobShape
    <3>2. record'[Whole] = "gone"
      BY <1>2, <1>3, <1>4, <2>4, <3>1, OutcomeOf
    <3>3. ASSUME NEW c \in Chats PROVE record'[c] \in {"none", "gone"}
      <4>1. c \notin Existing => record[c] \in {"none", "gone"}
        BY <1>3 DEF Existing
      <4>2. c # Whole
        BY WholeAssumption
      <4> QED BY <1>2, <1>3, <1>4, <2>4, <3>1, <4>1, <4>2, OutcomeOf
    <3> QED BY <1>1, <1>2, <3>2, <3>3 DEF Records, Subjects
  <2>5. CASE job.kind = "deleteChat"
    <3>1. job.kind \in Deletions /\ \A c \in ToSet(job.chats) : record[c] \in {"unavailable", "released", "available"}
      BY <1>2, <2>5, KindsDiffer DEF Deletions, JobShape
    <3>2. /\ record'[Whole] = record[Whole]
          /\ \A c \in Chats : IF c \in ToSet(job.chats) THEN record'[c] = "gone" ELSE record'[c] = record[c]
      BY <1>2, <1>3, <1>4, <2>5, <3>1, WholeAssumption, OutcomeOf
    <3>3. ToSet(job.chats) # {} => record[Whole] # "none"
      BY <1>3, <3>1 DEF Records
    <3> QED BY <1>1, <1>2, <1>3, <1>5, <3>2, <3>3 DEF Records, Subjects
  <2>6. CASE job.kind \in Restorations
    <3>1. \A x \in Subjects : record'[x] = record[x]
      BY <1>2, <1>4, <2>6, OutcomeOf
    <3> QED BY <1>1, <1>2, <1>3, <3>1 DEF Records
  <2> QED BY <1>2, <2>1, <2>2, <2>3, <2>4, <2>5, <2>6 DEF Kinds, Releases, Deletions
<1>9. ASSUME NEW x \in Subjects \ doubt' PROVE AgreesWith(x, Now(x))'
  <2>1. Todo = {}
    BY <1>1 DEF Todo, Ons
  <2>2. AgreesWith(x, Outcome(x))
    BY <1>1, <1>2, <1>9, <2>1 DEF Agreed
  <2>3. Now(x)' = record'[x]
    BY <1>1 DEF Now
  <2> QED BY <1>1, <1>4, <1>9, <2>2, <2>3 DEF AgreesWith
<1> QED BY <1>1, <1>7, <1>8, <1>9, IdleKeeps

LEMMA ThrowKeeps ==
  ASSUME IInv, Throw
  PROVE  IInv'
<1>1. /\ job.failed /\ job.undo = <<>> /\ job' = Idle
      /\ UNCHANGED <<agent, prepared, record, loaded, memo, doubt, failures, restarts>>
  BY DEF Throw
<1>2. job.kind # "none" /\ prepared /\ job'.kind = "none"
  BY <1>1, IdleIsAJob DEF IInv, Types, JobSet, Throw
<1>3. Types' /\ Records'
  BY <1>1, <1>2, IdleIsAJob DEF IInv, Types, Records
<1>4. Ons(job.undo) = {}
  BY <1>1 DEF Ons
<1>5. \A x \in Subjects \ doubt' : AgreesWith(x, Now(x))'
  BY <1>1, <1>2, <1>4 DEF IInv, Agreed, AgreesWith, Now
<1> QED BY <1>1, <1>3, <1>5, IdleKeeps

LEMMA RestartKeeps ==
  ASSUME IInv, Restart
  PROVE  IInv'
<1>1. /\ restarts' \in 0 .. MaxRestarts
      /\ prepared' = FALSE /\ job' = Idle /\ memo' = Nothing /\ doubt' = {} /\ UNCHANGED <<agent, failures>>
      /\ record' = [x \in Subjects |-> IF agent = "codex" /\ x \in Existing THEN "unavailable" ELSE record[x]]
      /\ loaded' = [x \in Subjects |-> "absent"]
  BY BoundsAssumption DEF Restart, IInv, Types
<1>2. ASSUME NEW x \in Subjects
      PROVE  /\ agent = "codex" =>
                  /\ record'[x] \in {"none", "unavailable", "gone"}
                  /\ record'[x] = "unavailable" <=> record[x] \notin {"none", "gone"}
                  /\ record[x] \in {"none", "gone"} => record'[x] = record[x]
             /\ agent # "codex" => record'[x] = record[x]
             /\ record[x] \in {"none", "unavailable", "released", "available", "gone"}
             /\ loaded'[x] = "absent"
  BY <1>1, <1>2 DEF IInv, Types, Existing
<1>3. Types'
  BY <1>1, <1>2, IdleIsAJob DEF IInv, Types
<1>4. Records'
  <2>1. agent \in {"codex", "comet"}
    BY DEF IInv, Types
  <2>2. CASE agent = "codex"
    BY <1>1, <1>2, <2>2 DEF IInv, Records, Subjects
  <2>3. CASE agent = "comet"
    BY <1>1, <1>2, <2>3 DEF IInv, Records, Subjects
  <2> QED BY <2>1, <2>2, <2>3
<1>5. \A x \in Subjects \ doubt' : AgreesWith(x, Now(x))'
  BY <1>1, <1>2 DEF AgreesWith, Now
<1> QED BY <1>1, <1>3, <1>4, <1>5, IdleKeeps

\* The restoration begins, or finds nothing to restore.
LEMMA RestoreKeeps ==
  ASSUME IInv, Restore
  PROVE  IInv'
<1>1. agent = "comet" /\ prepared = FALSE
  BY DEF Restore, IInv, Types
<1>2. CASE record[Whole] = "available"
  <2>1. PICK chats : chats = SetToSeq({c \in Chats : record[c] = "available"})
    OBVIOUS
  <2>2. PICK calls : calls = <<Call("materialize", Whole)>> \o Each("materialize", chats)
    OBVIOUS
  <2>3. Begin("restore", chats, calls)
    BY <1>2, <2>1, <2>2 DEF Restore
  <2>4. IsFiniteSet({c \in Chats : record[c] = "available"})
    BY ChatsAssumption, FS_Subset
  <2>5. /\ chats \in Seq({c \in Chats : record[c] = "available"}) /\ Distinct(chats)
        /\ ToSet(chats) = {c \in Chats : record[c] = "available"}
    BY <2>1, <2>4, SetToSeqIsEnumeration DEF Distinct
  <2>6. chats \in Seq(Chats)
    BY <2>5, SeqMonotonic
  <2>7. CallsFor(calls, "materialize", {Whole} \cup ToSet(chats))
    BY <2>2, <2>5, <2>6, WholeFirst
  <2>8. Fits("restore", chats, calls)
    BY <1>1, <1>2, <2>5, <2>6, <2>7, KindsDiffer
       DEF Fits, CallsFor, Kinds, Restorations, WholeKinds, Subjects, Creations, Materializations
  <2> QED BY <2>3, <2>8, BeginKeeps
<1>3. CASE record[Whole] # "available"
  <2>1. prepared' = TRUE /\ UNCHANGED <<agent, record, loaded, job, memo, doubt, failures, restarts>>
    BY <1>3 DEF Restore
  <2>2. job' = Idle /\ job.kind = "none"
    BY <2>1, IdleIsAJob DEF Restore
  <2>3. Types' /\ Records'
    BY <1>1, <2>1, <2>2 DEF IInv, Types, Records
  <2>4. \A x \in Subjects : record[x] # "available"
    BY <1>3 DEF IInv, Records, Subjects
  <2>5. \A x \in Subjects \ doubt' : AgreesWith(x, Now(x))'
    BY <2>1, <2>2, <2>4 DEF IInv, Agreed, AgreesWith, Now
  <2> QED BY <2>2, <2>3, <2>5, IdleKeeps
<1> QED BY <1>2, <1>3

LEMMA PrepareKeeps ==
  ASSUME IInv, Prepare
  PROVE  IInv'
<1>1. /\ prepared = FALSE /\ prepared' = TRUE
      /\ UNCHANGED <<agent, loaded, job, memo, doubt, failures, restarts>>
      /\ record' = [x \in Subjects |-> IF x \in Existing THEN "released" ELSE record[x]]
  BY DEF Prepare, IInv, Types
<1>7. agent = "codex" /\ job.kind = "none"
  BY <1>1 DEF Prepare, IInv, Types
<1>2. ASSUME NEW x \in Subjects
      PROVE  /\ record'[x] \in {"none", "released", "gone"} /\ loaded'[x] = "absent"
             /\ record'[x] = "released" <=> record[x] \notin {"none", "gone"}
             /\ record[x] \in {"none", "gone"} => record'[x] = record[x]
  BY <1>7, <1>1, <1>2 DEF IInv, Types, Records, Existing
<1>3. job' = Idle
  BY <1>7, <1>1 DEF IInv, Types
<1>4. Types'
  BY <1>7, <1>1, <1>2, <1>3 DEF IInv, Types
<1>5. Records'
  BY <1>7, <1>1, <1>2 DEF IInv, Records, Subjects
<1>6. \A x \in Subjects \ doubt' : AgreesWith(x, Now(x))'
  BY <1>1, <1>2 DEF AgreesWith, Now
<1> QED BY <1>3, <1>4, <1>5, <1>6, IdleKeeps

-----------------------------------------------------------------------------
(* What a mutation that failed has done is taken back. *)

\* The shape of a mutation some of whose calls have been taken back.
LEMMA TakenBackShape ==
  ASSUME IInv, job.failed = TRUE, job.undo # <<>>, NEW undo \in {Tail(job.undo), <<>>},
         job' = [job EXCEPT !.undo = undo], UNCHANGED <<agent, prepared, record>>,
         loaded' \in [Subjects -> {"absent", "released", "loaded"}],
         memo' \in Subjects \cup {Nothing}, doubt' \subseteq Subjects,
         failures' \in 0 .. MaxFailures, UNCHANGED restarts
  PROVE  Types' /\ Records' /\ JobShape'
<1> USE DEF IInv
<1>1. /\ job.kind \in Kinds /\ job.kind # "none" /\ job # Idle
      /\ job.calls = <<>> /\ job.undo \in Seq(CallSet) /\ job \in JobSet
  BY Running DEF Types
<1>2. /\ job'.kind = job.kind /\ job'.chats = job.chats /\ job'.calls = <<>>
      /\ job'.undo = undo /\ job'.failed = TRUE
  BY <1>1 DEF JobSet
<1>3. /\ Tail(job.undo) \in Seq(CallSet) /\ Ons(Tail(job.undo)) \subseteq Ons(job.undo)
      /\ \A i \in DOMAIN Tail(job.undo) : i + 1 \in DOMAIN job.undo /\ Tail(job.undo)[i] = job.undo[i + 1]
  BY <1>1, FirstCall
<1>4. <<>> \in Seq(CallSet) /\ Ons(<<>>) = {} /\ Len(<<>>) = 0 /\ DOMAIN <<>> = {}
  BY EmptySeq DEF Ons
<1>5. undo \in Seq(CallSet) /\ Ons(undo) \subseteq Ons(job.undo)
  BY <1>3, <1>4
<1>6. Types'
  <2>1. job' \in JobSet
    BY <1>1, <1>5 DEF JobSet
  <2> QED BY <1>1, <1>2, <2>1 DEF Types
<1>7. Records'
  BY <1>1, <1>2 DEF Records
<1>8. JobShape'
  <2>1. Existing' = Existing /\ Involved' = Involved
    BY <1>2 DEF Existing, Involved
  <2>2. \A i \in DOMAIN undo : undo[i].do = UndoOf(job.kind) /\ undo[i].on \in Involved
    <3>1. \A i \in DOMAIN job.undo : job.undo[i].do = UndoOf(job.kind) /\ job.undo[i].on \in Involved
      BY <1>1 DEF JobShape
    <3>2. CASE undo = Tail(job.undo)
      BY <1>3, <3>1, <3>2
    <3>3. CASE undo = <<>>
      BY <1>4, <3>3
    <3> QED BY <3>2, <3>3
  <2>3. job.kind \notin Deletions
    BY <1>1 DEF JobShape
  <2>4. \A x \in Ons(undo) \cup ToSet(job.chats) : record[x] \in From(job.kind)
    BY <1>1, <1>5 DEF JobShape
  <2>5. job.kind \in {"releaseSession", "deleteSession"} =>
          record[Whole] \in From(job.kind) /\ ToSet(job.chats) = Existing \ {Whole}
    BY <1>1 DEF JobShape
  <2> QED BY <1>2, <1>4, <2>1, <2>2, <2>3, <2>4, <2>5 DEF JobShape
<1> QED BY <1>6, <1>7, <1>8

LEMMA UndoAnsweredKeeps ==
  ASSUME IInv, UndoAnswered
  PROVE  IInv'
<1>1. PICK call : call = Head(job.undo)
  OBVIOUS
<1>2. /\ job.failed = TRUE /\ job.undo # <<>> /\ Answers(call) /\ job' = [job EXCEPT !.undo = Tail(job.undo)]
      /\ UNCHANGED <<agent, prepared, record, failures, restarts>>
  BY <1>1 DEF UndoAnswered, IInv, Types, JobSet
<1>3. /\ job.kind \in Kinds /\ job.kind # "none" /\ job.undo \in Seq(CallSet) /\ job.chats \in Seq(Chats)
      /\ Involved \subseteq Subjects /\ Whole \in Subjects /\ (prepared <=> job.kind \notin Restorations)
  BY <1>2, Running
<1>4. /\ call \in CallSet /\ call = job.undo[1] /\ 1 \in DOMAIN job.undo
      /\ Ons(job.undo) = {call.on} \cup Ons(Tail(job.undo))
  BY <1>1, <1>2, <1>3, FirstCall
<1>5. call.do = UndoOf(job.kind) /\ call.on \in Subjects /\ record[call.on] \in From(job.kind)
  BY <1>3, <1>4 DEF IInv, JobShape
<1>6. job.kind \notin Deletions
  BY <1>2, <1>3 DEF IInv, JobShape
<1>7. /\ loaded' \in [Subjects -> {"absent", "released", "loaded"}]
      /\ memo' \in Subjects \cup {Nothing} /\ doubt' \subseteq Subjects
  BY <1>2, <1>4, <1>5, EffectOf DEF Answers, IInv, Types
<1>8. Types' /\ Records' /\ JobShape'
  <2>1. failures' \in 0 .. MaxFailures
    BY <1>2 DEF IInv, Types
  <2> QED BY <1>2, <1>7, <2>1, TakenBackShape
<1>9. job'.kind = job.kind /\ job'.failed = TRUE /\ job'.undo = Tail(job.undo)
  BY <1>2 DEF IInv, Types, JobSet
<1>13. \A x : Now(x)' = Now(x)
  BY <1>2 DEF Now
<1>14. \A x : job.kind \notin Restorations => Now(x) = record[x]
  BY <1>3 DEF Now
<1>10. ASSUME NEW x \in Subjects \ doubt PROVE x \in Ons(job.undo) \/ AgreesWith(x, Now(x))
  BY <1>2, <1>3, <1>10 DEF IInv, Agreed
<1>11. ASSUME NEW x \in Subjects \ doubt' PROVE x \in Ons(Tail(job.undo)) \/ AgreesWith(x, Now(x))'
  <2>1. x \in Subjects \ doubt
    BY <1>2, <1>11 DEF Answers
  <2>2. CASE Repeated
    <3>1. x # call.on /\ loaded' = loaded
      BY <1>2, <1>11, <2>2 DEF Answers
    <3> QED BY <1>2, <1>4, <1>10, <1>13, <2>1, <3>1 DEF AgreesWith
  <2>3. CASE ~Repeated
    <3>1. loaded' = Effect(call)
      BY <1>2, <2>3 DEF Answers
    <3>2. record[x] \in {"none", "unavailable", "released", "available", "gone"} /\ loaded[x] \in {"absent", "released", "loaded"}
      BY <2>1 DEF IInv, Types
    <3>3. CASE x # call.on /\ (call.on # Whole \/ call.do \in {"create", "materialize"})
      <4>1. loaded'[x] = loaded[x]
        BY <1>4, <2>1, <3>1, <3>3, EffectOf DEF IInv
      <4> QED BY <1>2, <1>4, <1>10, <1>13, <2>1, <3>3, <4>1 DEF AgreesWith
    <3>4. CASE ~(x # call.on /\ (call.on # Whole \/ call.do \in {"create", "materialize"}))
      <4>1. CASE job.kind \in Creations
        <5>1. call.do = "delete" /\ record[call.on] = "none"
          BY <1>5, <4>1, KindsDiffer
        <5>2. loaded'[x] = "absent"
          BY <1>4, <2>1, <3>1, <3>4, <5>1, EffectOf DEF IInv
        <5>3. record[x] = "none"
          BY <2>1, <3>4, <5>1 DEF IInv, Records, Subjects
        <5> QED BY <1>2, <1>13, <1>14, <4>1, <5>2, <5>3, KindsDiffer DEF AgreesWith
      <4>2. CASE job.kind \in Materializations
        <5>1. call.do = "release" /\ record[call.on] = "released"
          BY <1>5, <4>2, KindsDiffer
        <5>2. loaded'[x] = IF loaded[x] = "absent" THEN "absent" ELSE "released"
          BY <1>4, <2>1, <3>1, <3>4, <5>1, EffectOf DEF IInv
        <5>3. record[x] # "available"
          BY <2>1, <3>4, <5>1 DEF IInv, Records, Subjects
        <5>4. x \in Ons(job.undo) => record[x] = "released"
          BY <1>3, <4>2, KindsDiffer DEF IInv, JobShape
        <5> QED BY <1>2, <1>10, <1>13, <1>14, <2>1, <4>2, <5>2, <5>3, <5>4, KindsDiffer DEF AgreesWith
      <4>3. CASE job.kind \in Releases
        <5>1. call.do = "materialize" /\ record[call.on] = "available" /\ x = call.on
          BY <1>5, <3>4, <4>3, KindsDiffer
        <5>2. loaded'[x] = "loaded"
          BY <1>4, <2>1, <3>1, <5>1, EffectOf DEF IInv
        <5> QED BY <1>2, <1>13, <1>14, <4>3, <5>1, <5>2, KindsDiffer DEF AgreesWith
      <4>4. CASE job.kind \in Restorations
        <5>1. call.do = "release" /\ prepared = FALSE
          BY <1>3, <1>5, <4>4, KindsDiffer DEF IInv, Types
        <5>2. loaded'[x] = IF loaded[x] = "absent" THEN "absent" ELSE "released"
          BY <1>4, <2>1, <3>1, <3>4, <5>1, EffectOf DEF IInv
        <5>3. Now(x) # "available" /\ (Now(x) \in {"none", "gone"} => record[x] = Now(x))
          BY <5>1 DEF Now
        <5>4. x \in Ons(job.undo) => record[x] = "available"
          BY <1>3, <4>4, KindsDiffer DEF IInv, JobShape
        <5> QED BY <1>2, <1>10, <1>13, <2>1, <5>2, <5>3, <5>4 DEF AgreesWith
      <4> QED BY <1>3, <1>6, <4>1, <4>2, <4>3, <4>4 DEF Kinds
    <3> QED BY <3>3, <3>4
  <2> QED BY <2>2, <2>3
<1>12. Agreed'
  BY <1>3, <1>9, <1>11 DEF Agreed
<1> QED BY <1>8, <1>12 DEF IInv

LEMMA UndoFailsKeeps ==
  ASSUME IInv, UndoFails
  PROVE  IInv'
<1>1. PICK undo \in {Tail(job.undo), <<>>} :
        /\ job' = [job EXCEPT !.undo = undo]
        /\ \A x \in Ons(job.undo) : x \in Ons(undo) \/ x \in doubt'
        /\ doubt \subseteq doubt' /\ doubt' \subseteq doubt \cup Ons(job.undo)
  <2>1. job.undo \in Seq(CallSet) /\ job.undo # <<>>
    BY DEF UndoFails, IInv, Types, JobSet
  <2>2. 1 \in DOMAIN job.undo /\ Head(job.undo) = job.undo[1] /\ Ons(job.undo) = {Head(job.undo).on} \cup Ons(Tail(job.undo))
    BY <2>1, FirstCall
  <2>3. CASE job.kind \in Releases
    BY <2>3 DEF UndoFails, Ons
  <2>4. CASE job.kind \notin Releases
    BY <2>2, <2>4 DEF UndoFails
  <2> QED BY <2>3, <2>4
<1>2. /\ job.failed = TRUE /\ job.undo # <<>>
      /\ UNCHANGED <<agent, prepared, record, loaded, memo, restarts>>
  BY DEF UndoFails, IInv, Types, JobSet
<1>3. job.kind \in Kinds /\ job.kind # "none" /\ Ons(job.undo) \subseteq Subjects
  <2>1. job.kind \in Kinds /\ job.kind # "none" /\ Involved \subseteq Subjects
    BY <1>2, Running
  <2> QED BY <2>1 DEF IInv, JobShape, Ons
<1>4. failures' \in 0 .. MaxFailures
  BY BoundsAssumption DEF UndoFails, Fails, IInv, Types
<1>5. /\ loaded' \in [Subjects -> {"absent", "released", "loaded"}]
      /\ memo' \in Subjects \cup {Nothing} /\ doubt' \subseteq Subjects
  BY <1>1, <1>2, <1>3 DEF IInv, Types
<1>6. Types' /\ Records' /\ JobShape'
  BY <1>1, <1>2, <1>4, <1>5, TakenBackShape
<1>7. job'.kind = job.kind /\ job'.failed = TRUE /\ job'.undo = undo
  BY <1>1, <1>2 DEF IInv, Types, JobSet
<1>8. ASSUME NEW x \in Subjects \ doubt' PROVE x \in Ons(undo) \/ AgreesWith(x, Now(x))'
  <2>1. x \in Ons(job.undo) \/ AgreesWith(x, Now(x))
    BY <1>1, <1>2, <1>3, <1>8 DEF IInv, Agreed
  <2>2. Now(x)' = Now(x)
    BY <1>2 DEF Now
  <2> QED BY <1>1, <1>2, <1>8, <2>1, <2>2 DEF AgreesWith
<1>9. Agreed'
  BY <1>3, <1>7, <1>8 DEF Agreed
<1> QED BY <1>6, <1>9 DEF IInv

-----------------------------------------------------------------------------
(* The theorems. *)

\* The calls of a mutation and those that take them back are about what it will
\* record, and the backings are at each of its steps where its calls have led.
THEOREM InductiveInvariant == Spec => []IInv
<1>1. Init => IInv
  <2> SUFFICES ASSUME Init PROVE IInv
    OBVIOUS
  <2>1. Types
    <3>1. job = Idle /\ job \in JobSet /\ job.kind = "none" /\ job.failed = FALSE
      BY IdleIsAJob DEF Init
    <3>2. agent \in {"codex", "comet"} /\ prepared \in BOOLEAN /\ memo \in Subjects \cup {Nothing} /\ doubt \subseteq Subjects
      BY AgentsAssumption DEF Init
    <3>3. failures \in 0 .. MaxFailures /\ restarts \in 0 .. MaxRestarts
      BY BoundsAssumption DEF Init
    <3>4. /\ record \in [Subjects -> {"none", "unavailable", "released", "available", "gone"}]
          /\ loaded \in [Subjects -> {"absent", "released", "loaded"}]
      BY DEF Init
    <3> QED BY <3>1, <3>2, <3>3, <3>4 DEF Types
  <2>2. Records
    BY DEF Init, Records, Subjects
  <2>3. JobShape
    BY IdleIsAJob DEF Init, JobShape
  <2>4. Agreed
    BY IdleIsAJob DEF Init, Agreed, AgreesWith, Now
  <2> QED BY <2>1, <2>2, <2>3, <2>4 DEF IInv
<1>2. IInv /\ [Next]_vars => IInv'
  <2> SUFFICES ASSUME IInv, [Next]_vars PROVE IInv'
    OBVIOUS
  <2>1. CASE Mutate
    BY <2>1, MutateKeeps
  <2>2. CASE CallAnswered
    BY <2>2, CallAnsweredKeeps
  <2>3. CASE CallFails
    BY <2>3, CallFailsKeeps
  <2>4. CASE Commit
    BY <2>4, CommitKeeps
  <2>5. CASE CommitFails
    BY <2>5, CommitFailsKeeps
  <2>6. CASE UndoAnswered
    BY <2>6, UndoAnsweredKeeps
  <2>7. CASE UndoFails
    BY <2>7, UndoFailsKeeps
  <2>8. CASE Throw
    BY <2>8, ThrowKeeps
  <2>9. CASE Restart
    BY <2>9, RestartKeeps
  <2>10. CASE Prepare
    BY <2>10, PrepareKeeps
  <2>12. CASE Restore
    BY <2>12, RestoreKeeps
  <2>11. CASE UNCHANGED vars
    <3>1. Types' /\ Records'
      BY <2>11 DEF vars, IInv, Types, Records
    <3>2. Existing' = Existing /\ Involved' = Involved /\ Todo' = Todo /\ \A x : Outcome(x)' = Outcome(x) /\ Now(x)' = Now(x)
      BY <2>11 DEF vars, Existing, Involved, Todo, Outcome, Now
    <3>3. JobShape'
      BY <2>11, <3>2 DEF vars, IInv, JobShape
    <3>4. Agreed'
      BY <2>11, <3>2 DEF vars, IInv, Agreed, AgreesWith
    <3> QED BY <3>1, <3>3, <3>4 DEF IInv
  <2> QED
    BY <2>1, <2>2, <2>3, <2>4, <2>5, <2>6, <2>7, <2>8, <2>9, <2>10, <2>11, <2>12 DEF Next, Step
<1> QED BY <1>1, <1>2, PTL DEF Spec

\* Every state is well typed.
THEOREM TypeCorrect == Spec => []TypeOK
<1>1. IInv => TypeOK
  BY DEF IInv, Types, JobSet, TypeOK
<1> QED BY <1>1, InductiveInvariant, PTL

\* When a mutation has failed and all is taken back that can be, what is not in
\* doubt is as it was taken by the Host before.
LEMMA SettledAgrees ==
  ASSUME IInv, Settled, NEW x \in Subjects \ doubt
  PROVE  AgreesWith(x, Now(x))
<1>1. CASE job = Idle
  BY <1>1, IdleIsAJob DEF IInv, Agreed
<1>2. CASE job # Idle /\ job.failed /\ job.undo = <<>>
  <2>1. Ons(job.undo) = {}
    BY <1>2 DEF Ons
  <2>2. job.kind # "none"
    BY <1>2 DEF IInv, Types
  <2> QED BY <1>2, <2>1, <2>2 DEF IInv, Agreed
<1> QED BY <1>1, <1>2 DEF Settled

\* Between mutations, and after a restoration of the Host's start that failed,
\* the Agent has loaded exactly what a Host that runs takes for available,
\* except for what could not be taken back and for what Codex answered without
\* doing it.
THEOREM BackingsAgree == Spec => []BeliefMatchesAgent
<1>1. IInv => BeliefMatchesAgent
  <2> SUFFICES ASSUME IInv, Settled, NEW x \in Subjects \ doubt
               PROVE  (prepared /\ record[x] = "available") = (loaded[x] = "loaded")
    BY DEF BeliefMatchesAgent
  <2> QED BY SettledAgrees DEF AgreesWith, Now, IInv, Types
<1> QED BY <1>1, InductiveInvariant, PTL

\* What the Host does not have, because its creation failed or because it was
\* deleted, the Agent has not either, with the same exceptions.
THEOREM NothingIsLeaked == Spec => []NothingLeaks
<1>1. IInv => NothingLeaks
  <2> SUFFICES ASSUME IInv, Settled, NEW x \in Subjects \ doubt, record[x] \in {"none", "gone"}
               PROVE  loaded[x] = "absent"
    BY DEF NothingLeaks
  <2> QED BY SettledAgrees DEF AgreesWith, Now
<1> QED BY <1>1, InductiveInvariant, PTL
=============================================================================
