----------------------- MODULE HostReplication_proofs -----------------------
(***************************************************************************)
(* Proofs about one client of the Host, for any number of Sessions, Chats, *)
(* commits, refreshes and interruptions and for buffers of any size: what  *)
(* the client holds and shows of a channel is what the Host published, and *)
(* a replay leaves out nothing that was asked for.                         *)
(*                                                                         *)
(* The history of a channel only grows, so that whatever was authentic     *)
(* stays so; the invariant says it of everything a state can still come    *)
(* from: the reducers, the records, the queued and buffered actions and    *)
(* the answers on their way.  What a thread makes of an answer depends on  *)
(* what it asked for, which is why the invariant also relates the requests *)
(* and the answers in flight to the threads that await them.               *)
(***************************************************************************)
EXTENDS HostReplication, WellFoundedInduction, TLAPS

\* A set of naturals with an element has a least one.
LEMMA LeastElement ==
  ASSUME NEW S, S \subseteq Nat, S # {}
  PROVE  \E i \in S : \A j \in S : i <= j
<1> DEFINE R == {ss \in Nat \X Nat : ss[1] < ss[2]}
<1>1. IsWellFoundedOn(R, Nat)
  BY NatLessThanWellFounded DEF OpToRel
<1>2. PICK i \in S : \A j \in S : ~(<<j, i>> \in R)
  BY <1>1, WFMin
<1>3. \A j \in S : ~(j < i)
  BY <1>2
<1> QED BY <1>3

\* A set of naturals that holds 0 and, with a number, the next one up to a
\* bound, holds all numbers up to the bound.
LEMMA Induction ==
  ASSUME NEW n \in Nat, NEW S, 0 \in S, \A i \in 0 .. n - 1 : i \in S => i + 1 \in S
  PROVE  0 .. n \subseteq S
<1> SUFFICES ASSUME NEW k \in 0 .. n, k \notin S PROVE FALSE
  OBVIOUS
<1>1. PICK i \in (0 .. n) \ S : \A j \in (0 .. n) \ S : i <= j
  <2>1. (0 .. n) \ S \subseteq Nat /\ (0 .. n) \ S # {}
    OBVIOUS
  <2> QED BY <2>1, LeastElement
<1>2. i # 0 /\ i \in 0 .. n
  BY <1>1
<1>3. i - 1 \in 0 .. n - 1 /\ i - 1 \notin (0 .. n) \ S
  BY <1>1, <1>2
<1>4. i - 1 \in S
  BY <1>3
<1> QED BY <1>1, <1>3, <1>4

\* The recursion of Subsequence.
KeptBy(s, indices, n, f) ==
  f = [k \in 0 .. n |-> IF k = 0 THEN <<>>
                        ELSE IF k \in indices THEN Append(f[k - 1], s[k]) ELSE f[k - 1]]

\* The recursion of Subsequence has a solution for every length.
LEMMA KeptExists ==
  ASSUME NEW s, NEW indices, NEW n \in Nat
  PROVE  \E f : KeptBy(s, indices, n, f)
<1> DEFINE S == {m \in Nat : \E f : KeptBy(s, indices, m, f)}
<1>1. 0 \in S
  <2>1. KeptBy(s, indices, 0, [k \in 0 .. 0 |-> <<>>])
    BY DEF KeptBy
  <2> QED BY <2>1
<1>2. ASSUME NEW i \in 0 .. n - 1, i \in S PROVE i + 1 \in S
  <2>1. PICK f : KeptBy(s, indices, i, f)
    BY <1>2
  <2> DEFINE g == [k \in 0 .. i + 1 |->
                     IF k = i + 1
                     THEN IF i + 1 \in indices THEN Append(f[i], s[i + 1]) ELSE f[i]
                     ELSE f[k]]
  <2>2. \A k \in 0 .. i : f[k] = IF k = 0 THEN <<>>
                                ELSE IF k \in indices THEN Append(f[k - 1], s[k]) ELSE f[k - 1]
    BY <2>1 DEF KeptBy
  <2>3. \A k \in 0 .. i : g[k] = f[k]
    OBVIOUS
  <2>4. g[i + 1] = IF i + 1 \in indices THEN Append(f[i], s[i + 1]) ELSE f[i]
    OBVIOUS
  <2>5. \A k \in 0 .. i + 1 : g[k] = IF k = 0 THEN <<>>
                                    ELSE IF k \in indices THEN Append(g[k - 1], s[k]) ELSE g[k - 1]
    <3> HIDE DEF g
    <3> SUFFICES ASSUME NEW k \in 0 .. i + 1
                 PROVE  g[k] = IF k = 0 THEN <<>>
                               ELSE IF k \in indices THEN Append(g[k - 1], s[k]) ELSE g[k - 1]
      OBVIOUS
    <3>1. CASE k = i + 1
      BY <3>1, <2>3, <2>4
    <3>2. CASE k # i + 1
      BY <3>2, <2>2, <2>3
    <3> QED BY <3>1, <3>2
  <2>6. KeptBy(s, indices, i + 1, g)
    BY <2>5 DEF KeptBy
  <2> QED BY <2>6
<1>3. 0 .. n \subseteq S
  <2> HIDE DEF S
  <2> QED BY <1>1, <1>2, Induction
<1> QED BY <1>3

\* Subsequence is the last value of that solution.
LEMMA SubsequenceRecursion ==
  ASSUME NEW s, NEW indices, Len(s) \in Nat
  PROVE  \E f : Subsequence(s, indices) = f[Len(s)] /\ KeptBy(s, indices, Len(s), f)
<1> DEFINE f == CHOOSE f : KeptBy(s, indices, Len(s), f)
<1>1. KeptBy(s, indices, Len(s), f)
  BY KeptExists
<1>2. Subsequence(s, indices) = f[Len(s)]
  BY DEF Subsequence, KeptBy
<1> QED BY <1>1, <1>2

\* What a subsequence holds: the elements at the indices, all of them, in order.
LEMMA SubsequenceOf ==
  ASSUME NEW S, NEW s \in Seq(S), NEW indices \in SUBSET (DOMAIN s)
  PROVE  /\ Subsequence(s, indices) \in Seq(S)
         /\ \A i \in indices : \E j \in DOMAIN Subsequence(s, indices) : Subsequence(s, indices)[j] = s[i]
         /\ \A j \in DOMAIN Subsequence(s, indices) :
              \E i \in indices : Subsequence(s, indices)[j] = s[i]
         /\ \A j, k \in DOMAIN Subsequence(s, indices) : j < k =>
              \E i, l \in indices : /\ i < l /\ Subsequence(s, indices)[j] = s[i]
                                    /\ Subsequence(s, indices)[k] = s[l]
<1>1. PICK f : Subsequence(s, indices) = f[Len(s)] /\ KeptBy(s, indices, Len(s), f)
  BY SubsequenceRecursion
<1> DEFINE Good(n) ==
             /\ f[n] \in Seq(S)
             /\ \A i \in indices : i <= n => \E j \in DOMAIN f[n] : f[n][j] = s[i]
             /\ \A j \in DOMAIN f[n] : \E i \in indices : i <= n /\ f[n][j] = s[i]
             /\ \A j, k \in DOMAIN f[n] : j < k =>
                  \E i, l \in indices : i < l /\ f[n][j] = s[i] /\ f[n][k] = s[l]
           G == {n \in 0 .. Len(s) : Good(n)}
<1>2. \A n \in 0 .. Len(s) : f[n] = IF n = 0 THEN <<>>
                                    ELSE IF n \in indices THEN Append(f[n - 1], s[n]) ELSE f[n - 1]
  BY <1>1 DEF KeptBy
<1>3. 0 \in G
  <2>1. f[0] = <<>>
    BY <1>2
  <2>2. \A i \in indices : ~(i <= 0)
    OBVIOUS
  <2>3. Good(0)
    BY <2>1, <2>2
  <2> HIDE DEF Good
  <2> QED BY <2>3
<1>4. ASSUME NEW n \in 0 .. Len(s) - 1, n \in G PROVE n + 1 \in G
  <2>1. n \in Nat /\ n + 1 \in 1 .. Len(s) /\ Good(n)
    BY <1>4
  <2>2. CASE n + 1 \notin indices
    <3>1. f[n + 1] = f[n]
      BY <2>1, <2>2, <1>2
    <3>2. \A i \in indices : i <= n + 1 => i <= n
      BY <2>1, <2>2
    <3>3. \A i \in indices : i <= n => i <= n + 1
      BY <2>1
    <3>4. Good(n + 1)
      BY <3>1, <3>2, <3>3, <2>1
    <3> HIDE DEF Good
    <3> QED BY <3>4
  <2>3. CASE n + 1 \in indices
    <3> DEFINE a == s[n + 1]
               d == Len(f[n])
    <3>1. a \in S
      BY <2>1
    <3>2. f[n + 1] = Append(f[n], a)
      <4>1. n + 1 \in 0 .. Len(s) /\ n + 1 # 0 /\ n + 1 - 1 = n
        BY <2>1
      <4>2. f[n + 1] = IF n + 1 = 0 THEN <<>>
                       ELSE IF n + 1 \in indices THEN Append(f[n + 1 - 1], s[n + 1])
                       ELSE f[n + 1 - 1]
        <5> HIDE DEF Good
        <5> QED BY <4>1, <1>2
      <4>3. f[n + 1] = Append(f[n + 1 - 1], a)
        BY <4>1, <4>2, <2>3
      <4> QED BY <4>1, <4>3
    <3> HIDE DEF a
    <3>3. /\ f[n + 1] \in Seq(S) /\ d \in Nat /\ DOMAIN f[n] = 1 .. d /\ DOMAIN f[n + 1] = 1 .. d + 1
          /\ f[n + 1][d + 1] = a /\ \A j \in 1 .. d : f[n + 1][j] = f[n][j]
      BY <3>1, <3>2, <2>1
    <3>4. \A i \in indices : i <= n + 1 => \E j \in DOMAIN f[n + 1] : f[n + 1][j] = s[i]
      <4> SUFFICES ASSUME NEW i \in indices, i <= n + 1
                   PROVE  \E j \in DOMAIN f[n + 1] : f[n + 1][j] = s[i]
        OBVIOUS
      <4>1. CASE i = n + 1
        BY <4>1, <3>3 DEF a
      <4>2. CASE i # n + 1
        <5>1. i <= n
          BY <4>2
        <5>2. PICK j \in DOMAIN f[n] : f[n][j] = s[i]
          BY <5>1, <2>1
        <5> QED BY <5>2, <3>3, SMTT(40)
      <4> QED BY <4>1, <4>2
    <3>5. \A j \in DOMAIN f[n + 1] : \E i \in indices : i <= n + 1 /\ f[n + 1][j] = s[i]
      <4> SUFFICES ASSUME NEW j \in 1 .. d + 1
                   PROVE  \E i \in indices : i <= n + 1 /\ f[n + 1][j] = s[i]
        BY <3>3
      <4>1. CASE j = d + 1
        BY <4>1, <3>3, <2>3 DEF a
      <4>2. CASE j # d + 1
        <5>1. j \in 1 .. d
          BY <4>2, <3>3
        <5>2. PICK i \in indices : i <= n /\ f[n][j] = s[i]
          BY <5>1, <3>3, <2>1
        <5> QED BY <5>1, <5>2, <3>3
      <4> QED BY <4>1, <4>2
    <3>6. ASSUME NEW j \in DOMAIN f[n + 1], NEW k \in DOMAIN f[n + 1], j < k
          PROVE  \E i, l \in indices : i < l /\ f[n + 1][j] = s[i] /\ f[n + 1][k] = s[l]
      <4> HIDE DEF d
      <4>1. j \in 1 .. d /\ k \in 1 .. d + 1
        BY <3>3, <3>6
      <4>2. CASE k = d + 1
        <5>1. PICK i \in indices : i <= n /\ f[n][j] = s[i]
          BY <4>1, <3>3, <2>1
        <5>2. i < n + 1
          BY <5>1, <2>1
        <5> QED BY <5>1, <5>2, <4>1, <4>2, <3>3, <2>3 DEF a
      <4>3. CASE k # d + 1
        <5>1. k \in 1 .. d
          BY <4>1, <4>3, <3>3
        <5>2. j \in DOMAIN f[n] /\ k \in DOMAIN f[n]
          BY <5>1, <4>1, <3>3
        <5>3. \E i, l \in indices : i < l /\ f[n][j] = s[i] /\ f[n][k] = s[l]
          BY <5>2, <3>6, <2>1
        <5>4. f[n + 1][j] = f[n][j] /\ f[n + 1][k] = f[n][k]
          BY <5>1, <4>1, <3>3
        <5> QED BY <5>3, <5>4
      <4> QED BY <4>2, <4>3
    <3>7. Good(n + 1)
      BY <3>3, <3>4, <3>5, <3>6
    <3> HIDE DEF Good
    <3> QED BY <3>7, <2>1
  <2> QED BY <2>2, <2>3
<1>5. 0 .. Len(s) \subseteq G
  <2> HIDE DEF G
  <2> QED BY <1>3, <1>4, Induction
<1>6. Good(Len(s))
  BY <1>5
<1>7. \A i \in indices : i <= Len(s)
  OBVIOUS
<1> HIDE DEF Good
<1>8. /\ f[Len(s)] \in Seq(S)
      /\ \A i \in indices : i <= Len(s) => \E j \in DOMAIN f[Len(s)] : f[Len(s)][j] = s[i]
      /\ \A j \in DOMAIN f[Len(s)] : \E i \in indices : f[Len(s)][j] = s[i]
      /\ \A j, k \in DOMAIN f[Len(s)] : j < k =>
                  \E i, l \in indices : i < l /\ f[Len(s)][j] = s[i] /\ f[Len(s)][k] = s[l]
  BY <1>6 DEF Good
<1> QED BY <1>1, <1>7, <1>8

-----------------------------------------------------------------------------
(* The inductive invariant. *)

\* What is published, what answers the three requests, and what waits where.
Envelope == [kind: {"action"}, chan: Chan, seq: Nat, rev: Nat, state: State]
SnapshotRecord == [chan: Chan, seq: Nat, rev: Nat, state: State]
ReducerRecord ==
  [state: State \cup {NoState}, seq: Nat, rev: Nat, snapSeq: Nat, snapRev: Nat,
   applied: SUBSET Envelope, need: {"none", "gap", "conflict", "missingSnapshot"}]
Missable == SUBSET (Chan \ {Catalog})
Subscription ==
  [kind: {"subscribed", "snapshots"}, seq: Nat, snapshots: SUBSET SnapshotRecord, missing: Missable]
Replay ==
  [kind: {"replay"}, from: Int, through: Nat, actions: Seq(Envelope), missing: Missable]
Rejection == [kind |-> "rejected"]
Thread == {"init", "queue"}
Place == {"initialize", "refresh", "sessions", "topology", "resync", "reconnect"}
Pending == [why: {"initialize", "action", "refresh", "recover"}, at: Place,
            asked: SUBSET Chan, env: Envelope \cup {NoAction}]
Req == [from: Thread, at: Place, channels: SUBSET Chan, last: Nat \cup {Unnoted}]
Ans == [kind: {"answer"}, to: Thread, at: Place, result: Subscription \cup Replay \cup {Rejection}]
TaskRecord == [kind: {"action"}, env: Envelope, gen: Nat]
              \cup [kind: {"refresh", "recover", "complete"}, env: {NoAction}, gen: Nat]

\* Types of the Host.
HostTypes ==
  /\ hostSeq \in Nat /\ revs \in [Chan -> Nat] /\ live \subseteq Session \cup Chat
  /\ stamps \in [Chan -> Nat] /\ replay \in Seq(Envelope) /\ log \in Seq(Envelope)
  /\ commits \in Nat

\* Host sequences are contiguous, the revisions of a channel are distinct.
Numbered ==
  /\ hostSeq = Len(log)
  /\ \A i \in DOMAIN log :
       /\ log[i].seq = i /\ log[i].rev \in 1 .. revs[log[i].chan]
       /\ Children(log[i].state) \subseteq Listable(log[i].chan)
  /\ \A i, j \in DOMAIN log : i # j /\ log[i].chan = log[j].chan => log[i].rev # log[j].rev

\* What the Host holds of a channel is what it published of it last.
Published == \A ch \in {Catalog} \cup live : CurrentState(ch) = StateAt(ch, revs[ch])

\* The replay buffer holds the newest actions of the history.
Retaining == replay = Newest(log, MaximumReplay)

\* The channels that were ever published.
Known == {Catalog} \cup {ch \in Chan : revs[ch] > 0}

\* Whatever exists was published, and a Chat neither exists nor was published
\* without its Session.
Rooted ==
  /\ live \subseteq Known /\ InitialLive \subseteq Known
  /\ \A c \in Chat : /\ c \in live => Home[c] \in live
                     /\ c \in Known => Home[c] \in Known

\* A later revision of a channel has a later content, and every revision lists
\* published channels.
Aging ==
  \A ch \in Chan : \A rev \in 0 .. revs[ch] :
    /\ Children(StateAt(ch, rev)) \subseteq Known
    /\ StateAt(ch, rev).stamp \in 0 .. commits
    /\ \A later \in rev .. revs[ch] : StateAt(ch, rev).stamp <= StateAt(ch, later).stamp

\* The Host is consistent, whatever its clients do.
HostInv == HostTypes /\ Numbered /\ Published /\ Retaining /\ Rooted /\ Aging

\* A channel that does not exist and, because an identity is never reused, will
\* never exist again: it was published, or it is a Chat whose Session was.
Gone(ch) ==
  /\ ~Exists(ch)
  /\ ch \in Known \/ (ch \in Chat /\ Home[ch] \notin live /\ Home[ch] \in Known)

\* What is gone stays gone.
StaysGone == \A ch \in Chan : Gone(ch) => Gone(ch)'

-----------------------------------------------------------------------------
(* The Host *)

\* The catalog, the Sessions and the Chats are different channels.
LEMMA Distinct ==
  /\ Catalog \in Chan /\ Session \subseteq Chan /\ Chat \subseteq Chan
  /\ Catalog \notin Session /\ Catalog \notin Chat /\ \A s \in Session : s \notin Chat
  /\ \A c \in Chat : Home[c] \in Session
BY TopologyAssumption DEF Chan

\* Only Sessions and Chats are listed, and a Chat lists nothing.
LEMMA Lists ==
  ASSUME NEW ch
  PROVE  /\ Listable(ch) \subseteq Session \cup Chat
         /\ ch \in Chat => Listable(ch) = {}
BY Distinct DEF Listable

\* A state of a channel has members only that the channel may list.
LEMMA StateOfType ==
  ASSUME NEW ch \in Chan, NEW alive, NEW stamp \in [Chan -> Nat]
  PROVE  /\ StateOf(ch, alive, stamp) \in State
         /\ Children(StateOf(ch, alive, stamp)) \subseteq Listable(ch)
<1> DEFINE L == ListedIn(ch, alive)
<1>1. L \in SUBSET Chan
  BY Lists, Distinct DEF ListedIn
<1>2. [k \in L |-> stamp[k]] \in [L -> Nat]
  BY <1>1
<1>3. StateOf(ch, alive, stamp) = [stamp |-> stamp[ch], members |-> [k \in L |-> stamp[k]]]
  BY DEF StateOf
<1>4. L \subseteq Listable(ch)
  BY DEF ListedIn
<1> HIDE DEF L
<1>5. [k \in L |-> stamp[k]] \in UNION {[K -> Nat] : K \in SUBSET Chan}
  BY <1>1, <1>2
<1>6. StateOf(ch, alive, stamp) \in State
  BY <1>3, <1>5 DEF State
<1> QED BY <1>3, <1>4, <1>6 DEF Children

\* The published states of a channel stay what they are.
Grows ==
  /\ \A ch \in Chan : revs'[ch] >= revs[ch]
  /\ Len(log) <= Len(log')
  /\ \A i \in DOMAIN log : log'[i] = log[i] /\ i \in DOMAIN log'
  /\ \A ch \in Chan : \A rev \in 0 .. revs[ch] : StateAt(ch, rev)' = StateAt(ch, rev)

\* The elements of a concatenation.
LEMMA Concatenation ==
  ASSUME NEW S, NEW s \in Seq(S), NEW t \in Seq(S), NEW u, u = s \o t
  PROVE  /\ Len(s) \in Nat /\ DOMAIN s = 1 .. Len(s) /\ Len(t) \in Nat /\ DOMAIN t = 1 .. Len(t)
         /\ u \in Seq(S) /\ Len(u) = Len(s) + Len(t) /\ DOMAIN u = 1 .. Len(u)
         /\ \A i \in 1 .. Len(s) : u[i] = s[i]
         /\ \A i \in 1 .. Len(t) : u[Len(s) + i] = t[i]
         /\ \A i \in DOMAIN u : i \in DOMAIN s \/ \E j \in DOMAIN t : i = Len(s) + j
<1>1. /\ Len(s) \in Nat /\ DOMAIN s = 1 .. Len(s) /\ Len(t) \in Nat /\ DOMAIN t = 1 .. Len(t)
  OBVIOUS
<1>2. u \in Seq(S) /\ Len(u) = Len(s) + Len(t)
  OBVIOUS
<1>3. DOMAIN u = 1 .. Len(u)
  BY <1>2
<1>4. ASSUME NEW i \in DOMAIN u, i \notin DOMAIN s PROVE \E j \in DOMAIN t : i = Len(s) + j
  <2>1. i - Len(s) \in DOMAIN t /\ i = Len(s) + (i - Len(s))
    BY <1>1, <1>2, <1>3, <1>4
  <2> QED BY <2>1
<1>5. \A i \in 1 .. Len(s) : u[i] = s[i]
  BY <1>1
<1>6. \A i \in 1 .. Len(t) : u[Len(s) + i] = t[i]
  BY <1>1
<1> QED BY <1>1, <1>2, <1>3, <1>4, <1>5, <1>6

\* A history that is continued with later revisions keeps every published state.
LEMMA HistoryStays ==
  ASSUME HostTypes, NEW envs \in Seq(Envelope), log' = log \o envs, revs' \in [Chan -> Nat],
         \A ch \in Chan : revs'[ch] >= revs[ch],
         \A i \in DOMAIN envs : envs[i].rev > revs[envs[i].chan]
  PROVE  Grows
<1>1. /\ Len(log) \in Nat /\ Len(envs) \in Nat /\ Len(log') = Len(log) + Len(envs)
      /\ DOMAIN log = 1 .. Len(log) /\ DOMAIN log' = 1 .. Len(log')
      /\ \A i \in 1 .. Len(log) : log'[i] = log[i]
      /\ \A i \in DOMAIN log' : i \notin DOMAIN log => log'[i] = envs[i - Len(log)] /\ i - Len(log) \in DOMAIN envs
  BY DEF HostTypes
<1>2. ASSUME NEW ch \in Chan, NEW rev \in 0 .. revs[ch]
      PROVE  StateAt(ch, rev)' = StateAt(ch, rev)
  <2>1. revs[ch] \in Nat
    BY DEF HostTypes
  <2>2. ASSUME NEW i \in DOMAIN log', i \notin DOMAIN log, log'[i].chan = ch
        PROVE  log'[i].rev # rev
    <3>1. log'[i] = envs[i - Len(log)] /\ i - Len(log) \in DOMAIN envs
      BY <1>1, <2>2
    <3>2. log'[i].rev > revs[ch]
      BY <3>1, <2>2
    <3>3. log'[i] \in Envelope
      BY <3>1
    <3>4. log'[i].rev \in Nat
      BY <3>3 DEF Envelope
    <3> QED BY <3>2, <3>4, <2>1
  <2> DEFINE A == {i \in DOMAIN log : log[i].chan = ch /\ log[i].rev = rev}
             B == {i \in DOMAIN log' : log'[i].chan = ch /\ log'[i].rev = rev}
  <2>3. A = B
    BY <1>1, <2>2
  <2>4. StateAt(ch, rev) = IF A = {} THEN InitialState(ch) ELSE log[CHOOSE i \in A : TRUE].state
    BY DEF StateAt
  <2>5. StateAt(ch, rev)' = IF B = {} THEN InitialState(ch) ELSE log'[CHOOSE i \in B : TRUE].state
    BY DEF StateAt, InitialState, StateOf, ListedIn
  <2>6. A # {} => (CHOOSE i \in A : TRUE) \in DOMAIN log
    OBVIOUS
  <2> HIDE DEF A, B
  <2> QED BY <2>3, <2>4, <2>5, <2>6, <1>1
<1> QED BY <1>1, <1>2 DEF Grows

\* The newest elements, by their places from the end.
LEMMA NewestIs ==
  ASSUME NEW S, NEW s \in Seq(S), NEW n \in Nat
  PROVE  /\ Newest(s, n) \in Seq(S)
         /\ Len(Newest(s, n)) = IF Len(s) <= n THEN Len(s) ELSE n
         /\ \A k \in 1 .. Len(Newest(s, n)) : Newest(s, n)[k] = s[Len(s) - Len(Newest(s, n)) + k]
<1>1. CASE Len(s) <= n
  BY <1>1 DEF Newest
<1>2. CASE ~(Len(s) <= n)
  <2>1. Newest(s, n) = SubSeq(s, Len(s) - n + 1, Len(s))
    BY <1>2 DEF Newest
  <2>2. Len(s) \in Nat /\ Len(s) - n + 1 \in 1 .. Len(s) + 1 /\ DOMAIN s = 1 .. Len(s)
    BY <1>2
  <2>3. \A i \in 1 .. Len(s) : s[i] \in S
    OBVIOUS
  <2>4. Newest(s, n) \in Seq(S) /\ Len(Newest(s, n)) = n
    BY <2>1, <2>2, <2>3
  <2>5. \A k \in 1 .. n : Newest(s, n)[k] = s[Len(s) - n + k]
    BY <2>1, <2>2
  <2> QED BY <2>4, <2>5, <1>2
<1> QED BY <1>1, <1>2

\* Retaining the newest of the retained actions loses none that is new enough.
LEMMA NewestOfNewest ==
  ASSUME NEW S, NEW s \in Seq(S), NEW t \in Seq(S), NEW n \in Nat
  PROVE  Newest(Newest(s, n) \o t, n) = Newest(s \o t, n)
<1> DEFINE a == Newest(s, n)
           d == s \o t
           e == a \o t
           b == Newest(e, n)
           c == Newest(d, n)
<1>1. /\ a \in Seq(S) /\ Len(a) = (IF Len(s) <= n THEN Len(s) ELSE n)
      /\ \A k \in 1 .. Len(a) : a[k] = s[Len(s) - Len(a) + k]
  BY NewestIs
<1>2. Len(s) \in Nat /\ Len(t) \in Nat /\ Len(a) \in Nat /\ Len(a) <= Len(s) /\ Len(a) <= n
  BY <1>1
<1> HIDE DEF a
<1>3. /\ d \in Seq(S) /\ Len(d) = Len(s) + Len(t)
      /\ \A k \in 1 .. Len(s) : d[k] = s[k]
      /\ \A k \in 1 .. Len(t) : d[Len(s) + k] = t[k]
  OBVIOUS
<1>4. /\ e \in Seq(S) /\ Len(e) = Len(a) + Len(t)
      /\ \A k \in 1 .. Len(a) : e[k] = a[k]
      /\ \A k \in 1 .. Len(t) : e[Len(a) + k] = t[k]
  BY <1>1
<1> HIDE DEF d, e
<1>5. /\ b \in Seq(S) /\ Len(b) = (IF Len(e) <= n THEN Len(e) ELSE n)
      /\ \A k \in 1 .. Len(b) : b[k] = e[Len(e) - Len(b) + k]
  <2>1. e \in Seq(S)
    BY <1>4
  <2> QED BY <2>1, NewestIs
<1>6. /\ c \in Seq(S) /\ Len(c) = (IF Len(d) <= n THEN Len(d) ELSE n)
      /\ \A k \in 1 .. Len(c) : c[k] = d[Len(d) - Len(c) + k]
  <2>1. d \in Seq(S)
    BY <1>3
  <2> QED BY <2>1, NewestIs
<1> HIDE DEF b, c
<1>7. Len(b) = Len(c)
  BY <1>1, <1>2, <1>3, <1>4, <1>5, <1>6
<1>8. ASSUME NEW k \in 1 .. Len(b) PROVE b[k] = c[k]
  <2> DEFINE i == Len(e) - Len(b) + k
             m == Len(s) - Len(a)
  <2>1. m \in Nat /\ Len(d) = Len(e) + m /\ i \in 1 .. Len(e) /\ i \in Nat
    <3>1. m \in Nat
      BY <1>2
    <3>2. Len(d) = Len(e) + m
      BY <1>2, <1>3, <1>4
    <3>3. Len(e) \in Nat /\ Len(b) \in Nat /\ Len(b) <= Len(e) /\ k \in 1 .. Len(b)
      BY <1>2, <1>4, <1>5
    <3>4. i \in 1 .. Len(e)
      BY <3>3
    <3> QED BY <3>1, <3>2, <3>4
  <2>2. b[k] = e[i] /\ c[k] = d[i + m]
    <3>1. b[k] = e[i]
      BY <1>5
    <3>2. Len(d) - Len(c) + k = i + m
      BY <1>7, <2>1
    <3>3. c[k] = d[Len(d) - Len(c) + k]
      BY <1>6, <1>7
    <3> QED BY <3>1, <3>2, <3>3
  <2>3. CASE i <= Len(a)
    <3>1. i \in 1 .. Len(a) /\ i + m \in 1 .. Len(s) /\ Len(s) - Len(a) + i = i + m
      BY <1>2, <2>1, <2>3
    <3>2. e[i] = a[i] /\ a[i] = s[Len(s) - Len(a) + i]
      BY <1>1, <1>4, <3>1
    <3>3. d[i + m] = s[i + m]
      BY <1>3, <3>1
    <3> QED BY <3>1, <3>2, <3>3, <2>2
  <2>4. CASE ~(i <= Len(a))
    <3>1. i - Len(a) \in 1 .. Len(t) /\ Len(a) + (i - Len(a)) = i /\ Len(s) + (i - Len(a)) = i + m
      BY <1>1, <1>2, <1>4, <2>1, <2>4
    <3>2. e[i] = t[i - Len(a)] /\ d[i + m] = t[i - Len(a)]
      BY <3>1, <1>3, <1>4
    <3> QED BY <3>2, <2>2
  <2> QED BY <2>3, <2>4
<1>9. b = c
  BY <1>5, <1>6, <1>7, <1>8
<1> QED BY <1>9 DEF b, c, a, d, e

\* The channels an action list names.
Touched(batch) == {batch[i] : i \in DOMAIN batch}

\* Chats come with their Sessions and leave with them, and whatever begins to
\* exist is named in the action list and was never published.
Orderly(batch, alive) ==
  /\ \A c \in Chat : /\ c \in alive => Home[c] \in alive
                     /\ c \in Touched(batch) => Home[c] \in Touched(batch)
  /\ \A ch \in alive : ch \notin live =>
       /\ ch \in Touched(batch) /\ ch \notin Known
       /\ ch \in Chat => Home[ch] \in live \/ Home[ch] \notin Known

\* The next revision of a channel that a commit names.
LEMMA TouchedChannels ==
  ASSUME HostTypes, NEW batch \in Seq(Chan), NEW alive, CommitHostState(batch, alive)
  PROVE  /\ Touched(batch) \subseteq Chan /\ live' = alive /\ commits' = commits + 1
         /\ \A ch \in Chan : /\ revs[ch] \in Nat /\ revs'[ch] \in Nat
                             /\ ch \in Touched(batch) => revs'[ch] = revs[ch] + 1
                             /\ ch \notin Touched(batch) => revs'[ch] = revs[ch]
                             /\ ch \in Touched(batch) => stamps'[ch] = commits + 1
<1>1. /\ Touched(batch) \subseteq Chan
      /\ live' = alive /\ commits' = commits + 1 /\ revs \in [Chan -> Nat]
      /\ revs' = [ch \in Chan |-> IF ch \in Touched(batch) THEN revs[ch] + 1 ELSE revs[ch]]
      /\ stamps' = [ch \in Chan |-> IF ch \in Touched(batch) THEN commits + 1 ELSE stamps[ch]]
  <2> DEFINE touched == {batch[i] : i \in DOMAIN batch}
  <2>1. touched = Touched(batch) /\ touched \subseteq Chan
    BY DEF Touched
  <2>2. /\ live' = alive /\ commits' = commits + 1
        /\ revs' = [ch \in Chan |-> IF ch \in touched THEN revs[ch] + 1 ELSE revs[ch]]
        /\ stamps' = [ch \in Chan |-> IF ch \in touched THEN commits + 1 ELSE stamps[ch]]
    BY Zenon DEF CommitHostState
  <2> HIDE DEF touched
  <2> QED BY <2>1, <2>2 DEF HostTypes
<1>2. ASSUME NEW ch \in Chan
      PROVE  /\ revs[ch] \in Nat
             /\ ch \in Touched(batch) => revs'[ch] = revs[ch] + 1 /\ stamps'[ch] = commits + 1
             /\ ch \notin Touched(batch) => revs'[ch] = revs[ch]
  BY <1>1
<1> QED BY <1>1, <1>2

\* What a commit leaves published, and what it leaves gone.
LEMMA CommitRoots ==
  ASSUME HostTypes, Rooted, NEW batch \in Seq(Chan), NEW alive \in SUBSET (Session \cup Chat),
         Orderly(batch, alive), CommitHostState(batch, alive)
  PROVE  /\ Known \subseteq Known' /\ alive \subseteq Known' /\ Rooted' /\ StaysGone
<1>1. /\ Touched(batch) \subseteq Chan /\ live' = alive /\ commits' = commits + 1
      /\ \A ch \in Chan : /\ revs[ch] \in Nat /\ revs'[ch] \in Nat
                          /\ ch \in Touched(batch) => revs'[ch] = revs[ch] + 1
                          /\ ch \notin Touched(batch) => revs'[ch] = revs[ch]
                          /\ ch \in Touched(batch) => stamps'[ch] = commits + 1
  BY TouchedChannels
<1>2. /\ live \subseteq Known /\ InitialLive \subseteq Known
      /\ \A c \in Chat : c \in Known => Home[c] \in Known
  BY DEF Rooted
<1>3. \A ch \in Chan : ch \in Known' <=> ch \in Known \/ ch \in Touched(batch)
  <2> SUFFICES ASSUME NEW ch \in Chan PROVE ch \in Known' <=> ch \in Known \/ ch \in Touched(batch)
    OBVIOUS
  <2>1. /\ revs[ch] \in Nat /\ revs'[ch] \in Nat
        /\ ch \in Touched(batch) => revs'[ch] = revs[ch] + 1
        /\ ch \notin Touched(batch) => revs'[ch] = revs[ch]
    BY <1>1
  <2>2. /\ ch \in Known <=> ch = Catalog \/ revs[ch] > 0
        /\ ch \in Known' <=> ch = Catalog \/ revs'[ch] > 0
    BY DEF Known
  <2>3. CASE ch \in Touched(batch)
    BY <2>1, <2>2, <2>3
  <2>4. CASE ch \notin Touched(batch)
    BY <2>1, <2>2, <2>4
  <2> QED BY <2>3, <2>4
<1>4. Known \subseteq Chan /\ Known' \subseteq Chan /\ alive \subseteq Chan /\ \A c \in Chat : c \in Chan /\ Home[c] \in Chan
  BY Distinct DEF Known
<1>5. Known \subseteq Known'
  BY <1>3, <1>4
<1>6. /\ \A c \in Chat : /\ c \in alive => Home[c] \in alive
                         /\ c \in Touched(batch) => Home[c] \in Touched(batch)
      /\ \A ch \in alive : ch \notin live =>
           /\ ch \in Touched(batch) /\ ch \notin Known
           /\ ch \in Chat => Home[ch] \in live \/ Home[ch] \notin Known
  BY DEF Orderly
<1>7. alive \subseteq Known'
  BY <1>2, <1>3, <1>4, <1>6
<1>8. Rooted'
  <2>1. \A c \in Chat : c \in Known' => Home[c] \in Known'
    BY <1>2, <1>3, <1>4, <1>6
  <2> QED BY <1>1, <1>2, <1>5, <1>6, <1>7, <2>1 DEF Rooted
<1>9. StaysGone
  <2> SUFFICES ASSUME NEW ch \in Chan, Gone(ch) PROVE Gone(ch)'
    BY DEF StaysGone
  <2>1. /\ ch # Catalog /\ ch \notin live
        /\ ch \in Known \/ (ch \in Chat /\ Home[ch] \notin live /\ Home[ch] \in Known)
    BY DEF Gone, Exists
  <2>2. ch \notin alive
    BY <1>6, <2>1
  <2>3. ch \in Chat /\ Home[ch] \notin live /\ Home[ch] \in Known => Home[ch] \notin alive
    BY <1>6
  <2> QED BY <1>1, <1>5, <2>1, <2>2, <2>3 DEF Gone, Exists
<1> QED BY <1>5, <1>7, <1>8, <1>9

\* The revision a commit adds to a channel is its latest.
LEMMA CommitAges ==
  ASSUME HostTypes, Aging, Grows, NEW batch \in Seq(Chan), NEW alive, CommitHostState(batch, alive),
         Known \subseteq Known', alive \subseteq Known',
         \A ch \in Touched(batch) : StateAt(ch, revs[ch])' = StateOf(ch, alive, stamps')
  PROVE  Aging'
<1>1. /\ Touched(batch) \subseteq Chan /\ commits' = commits + 1 /\ commits \in Nat
      /\ \A ch \in Chan : /\ revs[ch] \in Nat /\ revs'[ch] \in Nat
                          /\ ch \in Touched(batch) => revs'[ch] = revs[ch] + 1
                          /\ ch \notin Touched(batch) => revs'[ch] = revs[ch]
                          /\ ch \in Touched(batch) => stamps'[ch] = commits + 1
  BY TouchedChannels DEF HostTypes
<1>2. ASSUME NEW ch \in Chan, NEW rev \in 0 .. revs'[ch]
      PROVE  \/ rev \in 0 .. revs[ch] /\ StateAt(ch, rev)' = StateAt(ch, rev)
             \/ /\ rev = revs'[ch] /\ StateAt(ch, rev)'.stamp = commits + 1
                /\ Children(StateAt(ch, rev)') \subseteq alive
  <2>1. CASE rev \in 0 .. revs[ch]
    BY <2>1 DEF Grows
  <2>2. CASE rev \notin 0 .. revs[ch]
    <3>1. ch \in Touched(batch) /\ rev = revs'[ch]
      <4>1. /\ revs[ch] \in Nat /\ revs'[ch] \in Nat
            /\ ch \in Touched(batch) => revs'[ch] = revs[ch] + 1
            /\ ch \notin Touched(batch) => revs'[ch] = revs[ch]
        BY <1>1
      <4> QED BY <2>2, <4>1
    <3>2. StateAt(ch, rev)' = StateOf(ch, alive, stamps')
      BY <3>1
    <3>3. /\ StateOf(ch, alive, stamps').stamp = stamps'[ch]
          /\ Children(StateOf(ch, alive, stamps')) \subseteq alive
      BY DEF StateOf, Children, ListedIn
    <3>4. StateAt(ch, rev)'.stamp = commits + 1
      BY <1>1, <3>1, <3>2, <3>3
    <3>5. Children(StateAt(ch, rev)') \subseteq alive
      BY <3>2, <3>3
    <3> QED BY <3>1, <3>4, <3>5
  <2> QED BY <2>1, <2>2
<1>3. ASSUME NEW ch \in Chan, NEW rev \in 0 .. revs[ch]
      PROVE  /\ Children(StateAt(ch, rev)) \subseteq Known /\ StateAt(ch, rev).stamp \in 0 .. commits
             /\ \A later \in rev .. revs[ch] : StateAt(ch, rev).stamp <= StateAt(ch, later).stamp
  BY DEF Aging
<1> SUFFICES ASSUME NEW ch \in Chan, NEW rev \in 0 .. revs'[ch]
             PROVE  /\ Children(StateAt(ch, rev)') \subseteq Known' /\ StateAt(ch, rev)'.stamp \in 0 .. commits'
                    /\ \A later \in rev .. revs'[ch] : StateAt(ch, rev)'.stamp <= StateAt(ch, later)'.stamp
  BY DEF Aging
<1>4. Children(StateAt(ch, rev)') \subseteq Known' /\ StateAt(ch, rev)'.stamp \in 0 .. commits'
  <2>1. CASE rev \in 0 .. revs[ch] /\ StateAt(ch, rev)' = StateAt(ch, rev)
    BY <1>1, <1>3, <2>1
  <2>2. CASE StateAt(ch, rev)'.stamp = commits + 1 /\ Children(StateAt(ch, rev)') \subseteq alive
    BY <1>1, <2>2
  <2> QED BY <1>2, <2>1, <2>2
<1>5. ASSUME NEW later \in rev .. revs'[ch]
      PROVE  StateAt(ch, rev)'.stamp <= StateAt(ch, later)'.stamp
  <2>1. revs'[ch] \in Nat /\ rev \in Nat /\ later \in 0 .. revs'[ch] /\ rev <= later
    <3>1. revs'[ch] \in Nat
      BY <1>1
    <3> QED BY <3>1
  <2>2. CASE later \in 0 .. revs[ch] /\ StateAt(ch, later)' = StateAt(ch, later)
    <3>1. rev \in 0 .. revs[ch] /\ later \in rev .. revs[ch]
      BY <1>1, <2>1, <2>2
    <3>2. StateAt(ch, rev)' = StateAt(ch, rev)
      BY <3>1 DEF Grows
    <3> QED BY <1>3, <2>2, <3>1, <3>2
  <2>3. CASE StateAt(ch, later)'.stamp = commits + 1
    BY <1>1, <1>4, <2>3
  <2> QED BY <1>2, <2>1, <2>2, <2>3
<1> QED BY <1>4, <1>5

\* A commit keeps the Host consistent when its action list names, once each,
\* every channel that exists afterwards and changed.
LEMMA CommitKeeps ==
  ASSUME HostInv, NEW batch \in Seq(Chan), NEW alive \in SUBSET (Session \cup Chat),
         \A i, j \in DOMAIN batch : i # j => batch[i] # batch[j],
         \A ch \in {Catalog} \cup alive : ch \notin {batch[i] : i \in DOMAIN batch} =>
           /\ ch \in {Catalog} \cup live
           /\ ListedIn(ch, alive) = ListedIn(ch, live)
           /\ ListedIn(ch, live) \cap {batch[i] : i \in DOMAIN batch} = {},
         Orderly(batch, alive), CommitHostState(batch, alive)
  PROVE  HostInv' /\ Grows /\ StaysGone
<1> DEFINE touched == {batch[i] : i \in DOMAIN batch}
           stamp == [ch \in Chan |-> IF ch \in touched THEN commits + 1 ELSE stamps[ch]]
           envs == Envelopes(batch, alive, stamp)
<1>1. /\ commits' = commits + 1
      /\ hostSeq' = hostSeq + Len(batch)
      /\ revs' = [ch \in Chan |-> IF ch \in touched THEN revs[ch] + 1 ELSE revs[ch]]
      /\ live' = alive
      /\ stamps' = stamp
      /\ replay' = Newest(replay \o envs, MaximumReplay)
      /\ log' = log \o envs
  BY DEF CommitHostState
<1>2. /\ HostTypes /\ Numbered /\ Published /\ Retaining /\ Rooted /\ Aging
  BY DEF HostInv
<1>3. /\ Len(batch) \in Nat /\ DOMAIN batch = 1 .. Len(batch) /\ \A i \in DOMAIN batch : batch[i] \in Chan
  OBVIOUS
<1>4. /\ hostSeq \in Nat /\ revs \in [Chan -> Nat] /\ live \subseteq Session \cup Chat
      /\ stamps \in [Chan -> Nat] /\ replay \in Seq(Envelope) /\ log \in Seq(Envelope)
      /\ commits \in Nat
  BY <1>2 DEF HostTypes
<1>5. stamp \in [Chan -> Nat] /\ revs' \in [Chan -> Nat]
  BY <1>1, <1>4, SMTT(40)
<1> HIDE DEF stamp
<1>6. ASSUME NEW i \in 1 .. Len(batch)
      PROVE  /\ envs[i].kind = "action" /\ envs[i].chan = batch[i] /\ envs[i].seq = hostSeq + i
             /\ envs[i].rev = revs[batch[i]] + 1 /\ envs[i].state = StateOf(batch[i], alive, stamp)
             /\ envs[i] \in Envelope
  <2>1. envs[i] = [kind |-> "action", chan |-> batch[i], seq |-> hostSeq + i,
                   rev |-> revs[batch[i]] + 1, state |-> StateOf(batch[i], alive, stamp)]
    BY DEF Envelopes
  <2>2. StateOf(batch[i], alive, stamp) \in State
    BY <1>3, <1>5, StateOfType
  <2>3. hostSeq + i \in Nat /\ revs[batch[i]] + 1 \in Nat /\ batch[i] \in Chan
    BY <1>3, <1>4
  <2> HIDE DEF envs
  <2> QED BY <2>1, <2>2, <2>3 DEF Envelope
<1>7. envs \in Seq(Envelope) /\ Len(envs) = Len(batch) /\ DOMAIN envs = 1 .. Len(batch)
  <2>1. envs = [i \in 1 .. Len(batch) |-> envs[i]]
    BY DEF Envelopes
  <2> HIDE DEF envs
  <2> QED BY <2>1, <1>3, <1>6
<1> HIDE DEF envs
<1>8. \A ch \in Chan : revs'[ch] >= revs[ch] /\ (ch \notin touched => revs'[ch] = revs[ch])
  BY <1>1, <1>4
<1>9. Grows
  <2>1. ASSUME NEW i \in DOMAIN envs PROVE envs[i].rev > revs[envs[i].chan]
    <3>1. batch[i] \in Chan /\ i \in 1 .. Len(batch)
      BY <1>3, <1>7
    <3>2. revs[batch[i]] \in Nat
      BY <3>1, <1>4
    <3>3. envs[i].rev = revs[batch[i]] + 1 /\ envs[i].chan = batch[i]
      BY <3>1, <1>6
    <3> QED BY <3>2, <3>3
  <2> QED BY <1>1, <1>2, <1>5, <1>7, <1>8, <2>1, HistoryStays
<1>10. /\ Len(log) \in Nat /\ Len(log') = Len(log) + Len(batch)
       /\ DOMAIN log = 1 .. Len(log) /\ DOMAIN log' = 1 .. Len(log')
       /\ \A i \in 1 .. Len(log) : log'[i] = log[i]
       /\ \A i \in 1 .. Len(batch) : log'[Len(log) + i] = envs[i]
       /\ log' \in Seq(Envelope)
  <2>1. log \in Seq(Envelope) /\ envs \in Seq(Envelope) /\ log' = log \o envs
    BY <1>1, <1>4, <1>7
  <2>2. /\ Len(log) \in Nat /\ DOMAIN log = 1 .. Len(log) /\ Len(envs) \in Nat /\ DOMAIN envs = 1 .. Len(envs)
        /\ log' \in Seq(Envelope) /\ Len(log') = Len(log) + Len(envs) /\ DOMAIN log' = 1 .. Len(log')
        /\ \A i \in 1 .. Len(log) : log'[i] = log[i]
        /\ \A i \in 1 .. Len(envs) : log'[Len(log) + i] = envs[i]
    BY <2>1, Concatenation
  <2> QED BY <1>7, <2>1, <2>2
<1>11. HostTypes'
  <2>1. replay \o envs \in Seq(Envelope)
    BY <1>4, <1>7
  <2>2. replay' \in Seq(Envelope)
    BY <2>1, <1>1, NewestIs, ReplayAssumption
  <2>3. hostSeq' \in Nat /\ commits' \in Nat /\ live' \subseteq Session \cup Chat
    BY <1>1, <1>3, <1>4
  <2> QED BY <1>1, <1>5, <1>10, <2>2, <2>3 DEF HostTypes
<1>12. Retaining'
  <2>1. MaximumReplay \in Nat
    BY ReplayAssumption
  <2> QED BY <1>1, <1>2, <1>4, <1>7, <2>1, NewestOfNewest DEF Retaining
<1>13. Numbered'
  <2>1. hostSeq' = Len(log')
    BY <1>1, <1>2, <1>3, <1>10 DEF Numbered
  <2>2. ASSUME NEW i \in DOMAIN log'
        PROVE  /\ log'[i].seq = i /\ log'[i].rev \in 1 .. revs'[log'[i].chan]
               /\ Children(log'[i].state) \subseteq Listable(log'[i].chan)
    <3>1. CASE i \in DOMAIN log
      <4>1. log[i] \in Envelope
        BY <3>1, <1>4
      <4>2. log[i].chan \in Chan /\ log[i].rev \in Nat
        BY <4>1 DEF Envelope
      <4>3. revs'[log[i].chan] >= revs[log[i].chan] /\ revs'[log[i].chan] \in Nat /\ revs[log[i].chan] \in Nat
        BY <4>2, <1>4, <1>5, <1>8
      <4>4. /\ log[i].seq = i /\ log[i].rev \in 1 .. revs[log[i].chan]
            /\ Children(log[i].state) \subseteq Listable(log[i].chan)
        BY <3>1, <1>2 DEF Numbered
      <4> QED BY <3>1, <4>2, <4>3, <4>4, <1>10
    <3>2. CASE i \notin DOMAIN log
      <4>1. PICK k \in 1 .. Len(batch) : i = Len(log) + k
        <5>1. i - Len(log) \in 1 .. Len(batch) /\ i = Len(log) + (i - Len(log))
          BY <3>2, <1>3, <1>10
        <5> QED BY <5>1
      <4>2. log'[i] = envs[k] /\ batch[k] \in Chan /\ batch[k] \in touched
        BY <4>1, <1>3, <1>10
      <4>3. Children(envs[k].state) \subseteq Listable(batch[k])
        <5>1. envs[k].state = StateOf(batch[k], alive, stamp)
          BY <1>6
        <5>2. Children(StateOf(batch[k], alive, stamp)) \subseteq Listable(batch[k])
          BY <4>2, <1>5, StateOfType
        <5> QED BY <5>1, <5>2
      <4>4. revs'[batch[k]] = revs[batch[k]] + 1 /\ revs[batch[k]] \in Nat
        BY <4>2, <1>1, <1>4
      <4>5. envs[k].seq = i
        BY <4>1, <1>6, <1>2 DEF Numbered
      <4> QED BY <4>2, <4>3, <4>4, <4>5, <1>6
    <3> QED BY <3>1, <3>2
  <2>3. ASSUME NEW i \in DOMAIN log', NEW j \in DOMAIN log', i < j, log'[i].chan = log'[j].chan
        PROVE  log'[i].rev # log'[j].rev
    <3>1. CASE j \in DOMAIN log
      <4>1. i \in DOMAIN log
        BY <3>1, <2>3, <1>10
      <4>2. log'[i] = log[i] /\ log'[j] = log[j]
        BY <4>1, <3>1, <1>10
      <4>3. i # j
        BY <2>3, <1>10
      <4> QED BY <4>1, <4>2, <4>3, <3>1, <2>3, <1>2 DEF Numbered
    <3>2. CASE j \notin DOMAIN log
      <4>1. PICK k \in 1 .. Len(batch) : j = Len(log) + k
        <5>1. j - Len(log) \in 1 .. Len(batch) /\ j = Len(log) + (j - Len(log))
          BY <3>2, <1>3, <1>10
        <5> QED BY <5>1
      <4>2. log'[j] = envs[k] /\ batch[k] \in Chan /\ envs[k].rev = revs[batch[k]] + 1 /\ envs[k].chan = batch[k]
        BY <4>1, <1>3, <1>6, <1>10
      <4>3. CASE i \in DOMAIN log
        <5>1. log'[i] = log[i] /\ log[i].rev \in 1 .. revs[log[i].chan]
          BY <4>3, <1>2, <1>10 DEF Numbered
        <5>2. log[i].chan = batch[k] /\ revs[batch[k]] \in Nat
          BY <5>1, <4>2, <2>3, <1>4
        <5> QED BY <5>1, <5>2, <4>2
      <4>4. CASE i \notin DOMAIN log
        <5>1. PICK m \in 1 .. Len(batch) : i = Len(log) + m
          <6>1. i - Len(log) \in 1 .. Len(batch) /\ i = Len(log) + (i - Len(log))
            BY <4>4, <1>3, <1>10
          <6> QED BY <6>1
        <5>2. log'[i] = envs[m] /\ envs[m].chan = batch[m]
          BY <5>1, <1>6, <1>10
        <5>3. m # k
          BY <5>1, <4>1, <2>3, <1>10
        <5> QED BY <5>2, <5>3, <4>2, <2>3, <1>3
      <4> QED BY <4>3, <4>4
    <3> QED BY <3>1, <3>2
  <2>4. \A i, j \in DOMAIN log' : i # j /\ log'[i].chan = log'[j].chan => log'[i].rev # log'[j].rev
    <3> SUFFICES ASSUME NEW i \in DOMAIN log', NEW j \in DOMAIN log', i # j, log'[i].chan = log'[j].chan
                 PROVE  log'[i].rev # log'[j].rev
      OBVIOUS
    <3>1. i < j \/ j < i
      BY <1>10
    <3> QED BY <3>1, <2>3
  <2> QED BY <2>1, <2>2, <2>4 DEF Numbered
<1>14. ASSUME NEW ch \in touched
       PROVE  StateAt(ch, revs[ch])' = StateOf(ch, alive, stamp)
  <2>1. ch \in Chan
    BY <1>3
  <2>2. PICK k \in 1 .. Len(batch) : batch[k] = ch
    BY <1>3
  <2> DEFINE i == Len(log) + k
             B == {n \in DOMAIN log' : log'[n].chan = ch /\ log'[n].rev = revs'[ch]}
  <2>3. i \in DOMAIN log' /\ log'[i] = envs[k]
    BY <2>2, <1>3, <1>10
  <2>4. revs'[ch] = revs[ch] + 1
    BY <2>1, <1>1
  <2>5. log'[i].chan = ch /\ log'[i].rev = revs'[ch] /\ log'[i].state = StateOf(ch, alive, stamp)
    BY <2>2, <2>3, <2>4, <1>6
  <2>6. \A n \in DOMAIN log' : n # i /\ log'[n].chan = ch => log'[n].rev # revs'[ch]
    BY <2>3, <2>5, <1>13 DEF Numbered
  <2>7. B = {i}
    BY <2>3, <2>5, <2>6
  <2>8. StateAt(ch, revs[ch])' = IF B = {} THEN InitialState(ch) ELSE log'[CHOOSE n \in B : TRUE].state
    BY DEF StateAt, InitialState, StateOf, ListedIn
  <2> HIDE DEF B, i
  <2>9. (CHOOSE n \in B : TRUE) = i /\ B # {}
    BY <2>7
  <2> QED BY <2>5, <2>8, <2>9
<1>15. Published'
  <2> SUFFICES ASSUME NEW ch \in {Catalog} \cup alive
               PROVE  CurrentState(ch)' = StateAt(ch, revs[ch])'
    BY <1>1 DEF Published
  <2>1. ch \in Chan
    BY Distinct
  <2>2. CurrentState(ch)' = StateOf(ch, alive, stamp)
    BY <1>1 DEF CurrentState, StateOf, ListedIn
  <2>3. CASE ch \in touched
    BY <1>14, <2>2, <2>3
  <2>4. CASE ch \notin touched
    <3>1. ch \in {Catalog} \cup live /\ ListedIn(ch, alive) = ListedIn(ch, live)
          /\ ListedIn(ch, live) \cap touched = {}
      BY <2>4
    <3>2. stamp[ch] = stamps[ch] /\ \A k \in ListedIn(ch, live) : stamp[k] = stamps[k]
      <4>1. ListedIn(ch, live) \subseteq Chan
        BY Distinct, Lists DEF ListedIn
      <4> QED BY <4>1, <3>1, <2>1, <2>4 DEF stamp
    <3>3. StateOf(ch, alive, stamp) = CurrentState(ch)
      BY <3>1, <3>2 DEF StateOf, CurrentState
    <3>4. CurrentState(ch) = StateAt(ch, revs[ch])
      BY <3>1, <1>2 DEF Published
    <3>5. revs'[ch] = revs[ch] /\ revs[ch] \in 0 .. revs[ch]
      BY <2>1, <2>4, <1>1, <1>4
    <3>6. StateAt(ch, revs[ch])' = StateAt(ch, revs[ch])
      <4>1. \A rev \in 0 .. revs[ch] : StateAt(ch, rev)' = StateAt(ch, rev)
        BY <1>9, <2>1 DEF Grows
      <4> QED BY <4>1, <3>5
    <3> QED BY <2>2, <3>3, <3>4, <3>6
  <2> QED BY <2>3, <2>4
<1>16. Known \subseteq Known' /\ alive \subseteq Known' /\ Rooted' /\ StaysGone
  BY <1>2, CommitRoots
<1>17. Aging'
  <2>1. touched = Touched(batch)
    BY DEF Touched
  <2> HIDE DEF touched
  <2>2. \A ch \in Touched(batch) : StateAt(ch, revs[ch])' = StateOf(ch, alive, stamps')
    BY <1>1, <1>14, <2>1
  <2> QED BY <1>2, <1>9, <1>16, <2>2, CommitAges
<1> QED BY <1>9, <1>11, <1>12, <1>13, <1>15, <1>16, <1>17 DEF HostInv

\* Every commit of the Host keeps it consistent.
LEMMA CommitsKeep ==
  ASSUME HostInv, Commit
  PROVE  HostInv' /\ Grows /\ StaysGone
<1>1. /\ live \subseteq Session \cup Chat /\ live \subseteq Known
      /\ \A c \in Chat : /\ c \in live => Home[c] \in live
                         /\ c \in Known => Home[c] \in Known
      /\ \A ch \in Chan : ch # Catalog /\ revs[ch] = 0 => ch \notin Known
  BY DEF HostInv, HostTypes, Rooted, Known
<1> USE DEF ListedIn, Listable
<1>2. ASSUME NEW s \in Session, CreateSession(s, <<>>) PROVE HostInv' /\ Grows /\ StaysGone
  <2> DEFINE batch == <<Catalog, s>>
             alive == live \cup {s}
  <2>1. CommitHostState(batch, alive) /\ s \notin live
    <3>1. <<Catalog, s>> \o <<>> = <<Catalog, s>>
      OBVIOUS
    <3>2. live \cup {s} \cup {<<>>[i] : i \in DOMAIN <<>>} = live \cup {s}
      OBVIOUS
    <3> QED BY <1>2, <3>1, <3>2 DEF CreateSession
  <2>2. /\ batch \in Seq(Chan) /\ {batch[i] : i \in DOMAIN batch} = {Catalog, s}
        /\ \A i, j \in DOMAIN batch : i # j => batch[i] # batch[j]
    BY Distinct
  <2>3. \A ch \in {Catalog} \cup alive : ch \notin {Catalog, s} =>
           /\ ch \in {Catalog} \cup live
           /\ ListedIn(ch, alive) = ListedIn(ch, live)
           /\ ListedIn(ch, live) \cap {Catalog, s} = {}
    BY <1>1, Distinct
  <2>4. alive \in SUBSET (Session \cup Chat) /\ revs[s] = 0
    BY <1>1, <1>2 DEF CreateSession
  <2>5. Orderly(batch, alive)
    <3>1. Touched(batch) = {Catalog, s}
      BY <2>2 DEF Touched
    <3> HIDE DEF batch
    <3> QED BY <1>1, <2>4, <3>1, Distinct DEF Orderly
  <2> HIDE DEF batch, alive, ListedIn, Listable
  <2> QED BY <2>1, <2>2, <2>3, <2>4, <2>5, CommitKeeps
<1>3. ASSUME NEW s \in Session, NEW c \in Chat, CreateSession(s, <<c>>) PROVE HostInv' /\ Grows /\ StaysGone
  <2> DEFINE batch == <<Catalog, s, c>>
             alive == live \cup {s, c}
  <2>1. CommitHostState(batch, alive) /\ s \notin live /\ Home[c] = s
    <3>1. <<Catalog, s>> \o <<c>> = <<Catalog, s, c>>
      <4> DEFINE u == <<Catalog, s>> \o <<c>>
      <4>1. <<Catalog, s>> \in Seq({Catalog, s, c}) /\ <<c>> \in Seq({Catalog, s, c})
        OBVIOUS
      <4>2. Len(<<Catalog, s>>) = 2 /\ Len(<<c>>) = 1
        OBVIOUS
      <4>3. u \in Seq({Catalog, s, c}) /\ Len(u) = 3
        BY <4>1, <4>2
      <4>4. u[1] = Catalog /\ u[2] = s /\ u[3] = c
        OBVIOUS
      <4>5. <<Catalog, s, c>> \in Seq({Catalog, s, c}) /\ Len(<<Catalog, s, c>>) = 3
        OBVIOUS
      <4> HIDE DEF u
      <4>6. \A i \in 1 .. 3 : u[i] = <<Catalog, s, c>>[i]
        BY <4>4
      <4>7. u = <<Catalog, s, c>>
        BY <4>3, <4>5, <4>6
      <4> QED BY <4>7 DEF u
    <3>2. live \cup {s} \cup {<<c>>[i] : i \in DOMAIN <<c>>} = live \cup {s, c}
      OBVIOUS
    <3>3. Home[c] = s
      BY <1>3 DEF CreateSession
    <3> QED BY <1>3, <3>1, <3>2, <3>3 DEF CreateSession
  <2>2. /\ batch \in Seq(Chan) /\ {batch[i] : i \in DOMAIN batch} = {Catalog, s, c}
        /\ \A i, j \in DOMAIN batch : i # j => batch[i] # batch[j]
    BY Distinct
  <2>3. \A ch \in {Catalog} \cup alive : ch \notin {Catalog, s, c} =>
           /\ ch \in {Catalog} \cup live
           /\ ListedIn(ch, alive) = ListedIn(ch, live)
           /\ ListedIn(ch, live) \cap {Catalog, s, c} = {}
    BY <1>1, <2>1, Distinct
  <2>4. alive \in SUBSET (Session \cup Chat) /\ revs[s] = 0
    BY <1>1, <1>3 DEF CreateSession
  <2>5. Orderly(batch, alive)
    <3>1. Touched(batch) = {Catalog, s, c}
      BY <2>2 DEF Touched
    <3> HIDE DEF batch
    <3> QED BY <1>1, <2>1, <2>4, <3>1, Distinct DEF Orderly
  <2> HIDE DEF batch, alive, ListedIn, Listable
  <2> QED BY <2>1, <2>2, <2>3, <2>4, <2>5, CommitKeeps
<1>4. ASSUME NEW c \in Chat, NEW alive \in SUBSET (Session \cup Chat),
             CommitHostState(<<Catalog, Home[c], c>>, alive), alive = live \/ alive = live \cup {c},
             Home[c] \in live, c \in live \/ revs[c] = 0
      PROVE  HostInv' /\ Grows /\ StaysGone
  <2> DEFINE batch == <<Catalog, Home[c], c>>
  <2>2. /\ batch \in Seq(Chan) /\ {batch[i] : i \in DOMAIN batch} = {Catalog, Home[c], c}
        /\ \A i, j \in DOMAIN batch : i # j => batch[i] # batch[j]
    BY Distinct
  <2>3. \A ch \in {Catalog} \cup alive : ch \notin {Catalog, Home[c], c} =>
           /\ ch \in {Catalog} \cup live
           /\ ListedIn(ch, alive) = ListedIn(ch, live)
           /\ ListedIn(ch, live) \cap {Catalog, Home[c], c} = {}
    BY <1>1, <1>4, Distinct
  <2>5. CommitHostState(batch, alive)
    BY <1>4
  <2>6. Orderly(batch, alive)
    <3>1. Touched(batch) = {Catalog, Home[c], c}
      BY <2>2 DEF Touched
    <3> HIDE DEF batch
    <3> QED BY <1>1, <1>4, <3>1, Distinct DEF Orderly
  <2> HIDE DEF batch, ListedIn, Listable
  <2> QED BY <2>2, <2>3, <2>5, <2>6, CommitKeeps
<1>5. ASSUME NEW c \in Chat, CreateChat(c) \/ UpdateChat(c) PROVE HostInv' /\ Grows /\ StaysGone
  <2>1. live \cup {c} \in SUBSET (Session \cup Chat) /\ live \in SUBSET (Session \cup Chat)
    BY <1>1
  <2> QED BY <1>1, <1>4, <1>5, <2>1 DEF CreateChat, UpdateChat
<1>6. ASSUME NEW s \in Session, UpdateSession(s) PROVE HostInv' /\ Grows /\ StaysGone
  <2> DEFINE batch == <<Catalog, s>>
  <2>2. /\ batch \in Seq(Chan) /\ {batch[i] : i \in DOMAIN batch} = {Catalog, s}
        /\ \A i, j \in DOMAIN batch : i # j => batch[i] # batch[j]
    BY Distinct
  <2>3. \A ch \in {Catalog} \cup live : ch \notin {Catalog, s} => ListedIn(ch, live) \cap {Catalog, s} = {}
    BY <1>1, Distinct
  <2>4. CommitHostState(batch, live) /\ live \in SUBSET (Session \cup Chat)
    BY <1>1, <1>6 DEF UpdateSession
  <2>5. Orderly(batch, live)
    <3>1. Touched(batch) = {Catalog, s}
      BY <2>2 DEF Touched
    <3> HIDE DEF batch
    <3> QED BY <1>1, <3>1, Distinct DEF Orderly
  <2> HIDE DEF batch, ListedIn, Listable
  <2> QED BY <2>2, <2>3, <2>4, <2>5, CommitKeeps
<1>7. ASSUME NEW c \in Chat, DeleteChat(c) PROVE HostInv' /\ Grows /\ StaysGone
  <2> DEFINE batch == <<Catalog, Home[c]>>
             alive == live \ {c}
  <2>2. /\ batch \in Seq(Chan) /\ {batch[i] : i \in DOMAIN batch} = {Catalog, Home[c]}
        /\ \A i, j \in DOMAIN batch : i # j => batch[i] # batch[j]
    BY Distinct
  <2>3. \A ch \in {Catalog} \cup alive : ch \notin {Catalog, Home[c]} =>
           /\ ch \in {Catalog} \cup live
           /\ ListedIn(ch, alive) = ListedIn(ch, live)
           /\ ListedIn(ch, live) \cap {Catalog, Home[c]} = {}
    BY <1>1, Distinct
  <2>4. CommitHostState(batch, alive) /\ alive \in SUBSET (Session \cup Chat)
    BY <1>1, <1>7 DEF DeleteChat
  <2>5. Orderly(batch, alive)
    <3>1. Touched(batch) = {Catalog, Home[c]}
      BY <2>2 DEF Touched
    <3> HIDE DEF batch
    <3> QED BY <1>1, <3>1, Distinct DEF Orderly
  <2> HIDE DEF batch, alive, ListedIn, Listable
  <2> QED BY <2>2, <2>3, <2>4, <2>5, CommitKeeps
<1>8. ASSUME NEW s \in Session, DeleteSession(s) PROVE HostInv' /\ Grows /\ StaysGone
  <2> DEFINE batch == <<Catalog>>
             alive == live \ ({s} \cup Listable(s))
  <2>2. /\ batch \in Seq(Chan) /\ {batch[i] : i \in DOMAIN batch} = {Catalog}
        /\ \A i, j \in DOMAIN batch : i # j => batch[i] # batch[j]
    BY Distinct
  <2>3. \A ch \in {Catalog} \cup alive : ch \notin {Catalog} =>
           /\ ch \in {Catalog} \cup live
           /\ ListedIn(ch, alive) = ListedIn(ch, live)
           /\ ListedIn(ch, live) \cap {Catalog} = {}
    BY <1>1, Distinct
  <2>4. CommitHostState(batch, alive) /\ alive \in SUBSET (Session \cup Chat)
    BY <1>1, <1>8 DEF DeleteSession
  <2>5. Orderly(batch, alive)
    <3>1. Touched(batch) = {Catalog}
      BY <2>2 DEF Touched
    <3> HIDE DEF batch
    <3> QED BY <1>1, <3>1, Distinct DEF Orderly
  <2> HIDE DEF batch, alive, ListedIn, Listable
  <2> QED BY <2>2, <2>3, <2>4, <2>5, CommitKeeps
<1> QED BY <1>2, <1>3, <1>5, <1>6, <1>7, <1>8 DEF Commit

-----------------------------------------------------------------------------
(* The replica *)

\* A channel had this state at this revision.
Had(ch, rev, state) == rev \in 0 .. revs[ch] /\ state = StateAt(ch, rev)

\* Every reducer that has a state has one of its channel.
GoodReducers(red) ==
  /\ red \in [DOMAIN red -> ReducerRecord]
  /\ DOMAIN red \subseteq Chan /\ Catalog \in DOMAIN red
  /\ \A ch \in DOMAIN red : HasState(red[ch]) => Had(ch, red[ch].rev, red[ch].state)

\* Every record shown is a state its channel had.
GoodShown(shown) ==
  /\ shown \in [DOMAIN shown -> State]
  /\ DOMAIN shown \subseteq Session \cup Chat
  /\ \A ch \in DOMAIN shown : \E rev \in 0 .. revs[ch] : shown[ch] = StateAt(ch, rev)

\* An authentic replica; nothing is shown before the catalog is known.
GoodReplica(q) ==
  /\ q = [red |-> q.red, subs |-> q.subs, last |-> q.last, shown |-> q.shown]
  /\ GoodReducers(q.red) /\ GoodShown(q.shown)
  /\ q.subs \subseteq Chan /\ q.last \in Nat \cup {Unnoted}
  /\ DOMAIN q.shown # {} => HasState(q.red[Catalog])

\* Snapshots of states that were published.
GoodSnapshots(snapshots) ==
  /\ snapshots \subseteq SnapshotRecord
  /\ \A snap \in snapshots : Had(snap.chan, snap.rev, snap.state)

\* What a published state lists.
LEMMA StateShape ==
  ASSUME HostInv, NEW ch \in Chan, NEW rev, NEW state, Had(ch, rev, state)
  PROVE  state \in State /\ Children(state) \subseteq Listable(ch)
<1> DEFINE A == {i \in DOMAIN log : log[i].chan = ch /\ log[i].rev = rev}
<1>1. state = IF A = {} THEN InitialState(ch) ELSE log[CHOOSE i \in A : TRUE].state
  BY DEF Had, StateAt
<1>2. CASE A = {}
  <2>1. [k \in Chan |-> 0] \in [Chan -> Nat]
    OBVIOUS
  <2> QED BY <1>1, <1>2, <2>1, StateOfType DEF InitialState
<1>3. CASE A # {}
  <2>1. PICK i \in DOMAIN log : state = log[i].state /\ log[i].chan = ch
    BY <1>1, <1>3
  <2>2. log[i] \in Envelope
    BY DEF HostInv, HostTypes
  <2> QED BY <2>1, <2>2 DEF HostInv, Numbered, Envelope
<1> QED BY <1>2, <1>3

\* The snapshot of a channel that the answer has one of.
LEMMA SnapshotOfChannel ==
  ASSUME NEW snapshots, GoodSnapshots(snapshots), NEW ch \in Channels(snapshots)
  PROVE  /\ SnapshotOf(snapshots, ch) \in snapshots /\ SnapshotOf(snapshots, ch).chan = ch
         /\ ch \in Chan
         /\ SnapshotOf(snapshots, ch).seq \in Nat /\ SnapshotOf(snapshots, ch).rev \in Nat
         /\ SnapshotOf(snapshots, ch).state \in State
         /\ Had(ch, SnapshotOf(snapshots, ch).rev, SnapshotOf(snapshots, ch).state)
<1>1. PICK snap \in snapshots : snap.chan = ch
  BY DEF Channels
<1>2. SnapshotOf(snapshots, ch) \in snapshots /\ SnapshotOf(snapshots, ch).chan = ch
  BY <1>1 DEF SnapshotOf
<1>3. SnapshotOf(snapshots, ch) \in SnapshotRecord
  BY <1>2 DEF GoodSnapshots
<1> QED BY <1>2, <1>3 DEF GoodSnapshots, SnapshotRecord

\* Noting a Host sequence changes nothing else (noteHostSequence).
LEMMA NoteKeeps ==
  ASSUME NEW q, GoodReplica(q), NEW seq \in Nat
  PROVE  /\ GoodReplica(Note(q, seq))
         /\ Note(q, seq).red = q.red /\ Note(q, seq).shown = q.shown /\ Note(q, seq).subs = q.subs
<1>1. CASE ~(seq > q.last)
  BY <1>1 DEF Note
<1>2. CASE seq > q.last
  <2>1. Note(q, seq) = [red |-> q.red, subs |-> q.subs, last |-> seq, shown |-> q.shown]
    BY <1>2 DEF Note, GoodReplica
  <2> QED BY <2>1 DEF GoodReplica
<1> QED BY <1>1, <1>2

\* Reducers may be given up, but the catalog's.
LEMMA FewerReducers ==
  ASSUME NEW red, GoodReducers(red), NEW K \in SUBSET (DOMAIN red), Catalog \in K
  PROVE  /\ GoodReducers([ch \in K |-> red[ch]])
         /\ [ch \in K |-> red[ch]][Catalog] = red[Catalog]
BY DEF GoodReducers

\* A replica without the missing channels (dropMissingChannels).
LEMMA DropKeeps ==
  ASSUME NEW q, GoodReplica(q), NEW missing, Catalog \notin missing
  PROVE  /\ GoodReplica(DropMissing(q, missing))
         /\ DropMissing(q, missing).red[Catalog] = q.red[Catalog]
         /\ DropMissing(q, missing).shown = q.shown
<1> DEFINE K == {k \in DOMAIN q.red : k \notin missing /\ (k \in Chat => Home[k] \notin missing)}
           red == [ch \in K |-> q.red[ch]]
<1>1. DropMissing(q, missing) = [red |-> red, subs |-> q.subs \ missing, last |-> q.last, shown |-> q.shown]
  <2>1. DropMissing(q, missing) = [q EXCEPT !.subs = @ \ missing, !.red = red]
    BY Zenon DEF DropMissing
  <2> HIDE DEF red
  <2> QED BY <2>1 DEF GoodReplica
<1>2. Catalog \in K /\ K \in SUBSET (DOMAIN q.red)
  BY Distinct DEF GoodReplica, GoodReducers
<1> HIDE DEF K
<1>3. GoodReducers(red) /\ red[Catalog] = q.red[Catalog]
  BY <1>2, FewerReducers DEF GoodReplica
<1> HIDE DEF red
<1> QED BY <1>1, <1>3 DEF GoodReplica

\* A replica with the subscriptions of an answer.
LEMMA SubscribedKeeps ==
  ASSUME NEW q, GoodReplica(q), NEW result \in Subscription, GoodSnapshots(result.snapshots)
  PROVE  /\ GoodReplica(Subscribed(q, result))
         /\ Subscribed(q, result).red[Catalog] = q.red[Catalog]
         /\ Subscribed(q, result).shown = q.shown
<1> DEFINE o == [q EXCEPT !.subs = Channels(result.snapshots)]
<1>1. o = [red |-> q.red, subs |-> Channels(result.snapshots), last |-> q.last, shown |-> q.shown]
  BY DEF GoodReplica
<1>2. Channels(result.snapshots) \subseteq Chan
  BY SnapshotOfChannel
<1> HIDE DEF o
<1>3. GoodReplica(o) /\ o.red = q.red /\ o.shown = q.shown
  BY <1>1, <1>2 DEF GoodReplica
<1>4. Catalog \notin result.missing
  BY DEF Subscription, Missable
<1>5. Subscribed(q, result) = DropMissing(o, result.missing)
  BY DEF Subscribed, o
<1> QED BY <1>3, <1>4, <1>5, DropKeeps

\* New baselines for some channels the answer has snapshots of.
LEMMA ApplyKeeps ==
  ASSUME NEW q, GoodReplica(q), NEW snapshots, GoodSnapshots(snapshots),
         NEW channels \in SUBSET Channels(snapshots)
  PROVE  LET r == ApplySnapshots(q, snapshots, channels) IN
         /\ GoodReplica(r) /\ r.shown = q.shown /\ r.subs = q.subs /\ r.last = q.last
         /\ DOMAIN r.red = DOMAIN q.red \cup channels
         /\ \A ch \in DOMAIN q.red \ channels : r.red[ch] = q.red[ch]
         /\ \A ch \in channels : /\ r.red[ch].state = SnapshotOf(snapshots, ch).state
                                 /\ r.red[ch].rev = SnapshotOf(snapshots, ch).rev
                                 /\ r.red[ch].state \in State /\ HasState(r.red[ch])
<1> DEFINE New(ch) == ApplySnapshot(Reducer(q, ch), SnapshotOf(snapshots, ch))
           red == [ch \in DOMAIN q.red \cup channels |-> IF ch \in channels THEN New(ch) ELSE q.red[ch]]
<1>1. ASSUME NEW ch \in channels
      PROVE  /\ New(ch) \in ReducerRecord /\ New(ch).state = SnapshotOf(snapshots, ch).state
             /\ New(ch).rev = SnapshotOf(snapshots, ch).rev
             /\ HasState(New(ch)) /\ Had(ch, New(ch).rev, New(ch).state)
             /\ New(ch).state \in State /\ ch \in Chan
  <2> DEFINE snap == SnapshotOf(snapshots, ch)
  <2>1. /\ snap.seq \in Nat /\ snap.rev \in Nat /\ snap.state \in State /\ Had(ch, snap.rev, snap.state)
        /\ ch \in Chan
    BY SnapshotOfChannel
  <2>2. New(ch) = [state |-> snap.state, seq |-> snap.seq, rev |-> snap.rev, snapSeq |-> snap.seq,
                   snapRev |-> snap.rev, applied |-> {}, need |-> "none"]
    BY DEF ApplySnapshot
  <2> HIDE DEF snap, New
  <2>3. New(ch) \in ReducerRecord
    BY <2>1, <2>2 DEF ReducerRecord
  <2>4. New(ch).state = snap.state /\ New(ch).rev = snap.rev
    BY <2>2
  <2>5. HasState(New(ch))
    BY <2>1, <2>4, NoStateAssumption DEF HasState
  <2> QED BY <2>1, <2>3, <2>4, <2>5 DEF snap
<1>2. ApplySnapshots(q, snapshots, channels) = [red |-> red, subs |-> q.subs, last |-> q.last, shown |-> q.shown]
  BY DEF ApplySnapshots, GoodReplica
<1> HIDE DEF New
<1>3. /\ DOMAIN red = DOMAIN q.red \cup channels
      /\ \A ch \in channels : red[ch] = New(ch)
      /\ \A ch \in DOMAIN q.red \ channels : red[ch] = q.red[ch]
      /\ red \in [DOMAIN red -> ReducerRecord]
  BY <1>1 DEF GoodReplica, GoodReducers
<1> HIDE DEF red
<1>4. GoodReducers(red)
  BY <1>1, <1>3 DEF GoodReplica, GoodReducers
<1>5. HasState(q.red[Catalog]) => HasState(red[Catalog])
  BY <1>1, <1>3 DEF GoodReplica, GoodReducers
<1>6. GoodReplica(ApplySnapshots(q, snapshots, channels))
  BY <1>2, <1>4, <1>5 DEF GoodReplica
<1> QED BY <1>1, <1>2, <1>3, <1>6

-----------------------------------------------------------------------------
(* What a computation of the provider leaves behind *)

\* What a computation leaves: an authentic replica, and a request for channels.
GoodOut(q, out) ==
  /\ GoodReplica(out.p)
  /\ HasState(q.red[Catalog]) => HasState(out.p.red[Catalog])
  /\ \/ out.then \in {"done", "failed"}
     \/ out.then = "ask" /\ out.at \in {"sessions", "topology", "resync"} /\ out.asked \subseteq Chan

\* A computation that resumes with an answer is done with a catalog.
GoodAnswer(q, out) ==
  /\ GoodOut(q, out)
  /\ out.then = "done" => HasState(out.p.red[Catalog])
  /\ out.then = "ask" => out.at # "resync"

\* An answer that is not refused has a snapshot of every channel it was asked for.
LEMMA NotRegressing ==
  ASSUME NEW q, NEW snapshots, NEW channels, ~Regresses(q, snapshots, channels)
  PROVE  channels \subseteq Channels(snapshots)
BY DEF Regresses

\* Asking for the Sessions the catalog lists.
LEMMA AskSessionsGood ==
  ASSUME HostInv, NEW q, GoodReplica(q), HasState(q.red[Catalog])
  PROVE  /\ GoodAnswer(q, AskSessions(q)) /\ AskSessions(q).then = "ask"
         /\ AskSessions(q).p = q
         /\ SessionChannels(q) \subseteq Session
<1>1. Children(q.red[Catalog].state) \subseteq Listable(Catalog)
  BY StateShape, Distinct DEF GoodReplica, GoodReducers
<1>2. SessionChannels(q) \subseteq Session
  BY <1>1 DEF SessionChannels, Listable
<1>3. {Catalog} \cup SessionChannels(q) \subseteq Chan
  BY <1>2, Distinct
<1> QED BY <1>2, <1>3 DEF AskSessions, Ask, GoodAnswer, GoodOut

\* A computation that fails leaves the replica it failed with.
LEMMA FailedGood ==
  ASSUME NEW q, NEW r, GoodReplica(r), r.red[Catalog] = q.red[Catalog]
  PROVE  GoodAnswer(q, Failed(r))
BY DEF Failed, GoodAnswer, GoodOut

\* What every stage does with its answer first.
LEMMA CatalogAnswerGood ==
  ASSUME HostInv, NEW q, GoodReplica(q), NEW result \in Subscription, GoodSnapshots(result.snapshots),
         ~Regresses(q, result.snapshots, {Catalog})
  PROVE  LET r == CatalogAnswer(q, result) IN
         /\ GoodReplica(r) /\ HasState(r.red[Catalog])
         /\ r.red[Catalog].state = SnapshotOf(result.snapshots, Catalog).state
         /\ Catalog \in Channels(result.snapshots)
<1>1. Catalog \in Channels(result.snapshots)
  BY NotRegressing
<1> DEFINE o == Subscribed(q, result)
           a == ApplySnapshots(o, result.snapshots, {Catalog})
<1>2. GoodReplica(o)
  BY SubscribedKeeps
<1> HIDE DEF o
<1>3. /\ GoodReplica(a) /\ HasState(a.red[Catalog])
      /\ a.red[Catalog].state = SnapshotOf(result.snapshots, Catalog).state
  <2>1. {Catalog} \in SUBSET Channels(result.snapshots)
    BY <1>1
  <2> QED BY <1>2, <2>1, ApplyKeeps
<1>4. CatalogAnswer(q, result) = Note(a, result.seq) /\ result.seq \in Nat
  BY DEF CatalogAnswer, o, Subscription
<1> HIDE DEF a
<1> QED BY <1>1, <1>3, <1>4, NoteKeeps

\* The answer to initialize and to a refresh.
LEMMA BaselineAnswerGood ==
  ASSUME HostInv, NEW q, GoodReplica(q), NEW result \in Subscription, GoodSnapshots(result.snapshots)
  PROVE  GoodAnswer(q, BaselineAnswer(q, result))
<1>1. CASE Regresses(q, result.snapshots, {Catalog})
  BY <1>1, SubscribedKeeps, FailedGood DEF BaselineAnswer
<1>2. CASE ~Regresses(q, result.snapshots, {Catalog})
  <2>1. GoodReplica(CatalogAnswer(q, result)) /\ HasState(CatalogAnswer(q, result).red[Catalog])
    BY <1>2, CatalogAnswerGood
  <2>2. GoodAnswer(CatalogAnswer(q, result), AskSessions(CatalogAnswer(q, result)))
    BY <2>1, AskSessionsGood
  <2>3. GoodAnswer(q, AskSessions(CatalogAnswer(q, result)))
    BY <2>1, <2>2 DEF GoodAnswer, GoodOut
  <2> QED BY <1>2, <2>3 DEF BaselineAnswer
<1> QED BY <1>1, <1>2

\* The Sessions a catalog lists have got their baselines.
LEMMA SessionsApplied ==
  ASSUME HostInv, NEW q, GoodReplica(q), HasState(q.red[Catalog]), NEW snapshots, GoodSnapshots(snapshots),
         Catalog \in Channels(snapshots), q.red[Catalog].state = SnapshotOf(snapshots, Catalog).state,
         SessionChannels(q) \subseteq Channels(snapshots)
  PROVE  LET r == ApplySnapshots(q, snapshots, SessionChannels(q)) IN
         /\ GoodReplica(r) /\ HasState(r.red[Catalog])
         /\ SessionChannels(q) \subseteq Session
         /\ r.red[Catalog].state = SnapshotOf(snapshots, Catalog).state
         /\ SessionChannels(r) = SessionChannels(q)
         /\ \A s \in SessionChannels(q) : s \in DOMAIN r.red /\ r.red[s].state = SnapshotOf(snapshots, s).state
         /\ ChatChannels(r) = UNION {Children(SnapshotOf(snapshots, s).state) : s \in SessionChannels(q)}
         /\ ChatChannels(r) \subseteq Chat
<1> DEFINE listed == SessionChannels(q)
           r == ApplySnapshots(q, snapshots, listed)
<1>1. listed \in SUBSET Channels(snapshots) /\ listed \subseteq Session
  BY AskSessionsGood
<1>2. listed = Children(SnapshotOf(snapshots, Catalog).state)
  BY DEF SessionChannels
<1> HIDE DEF listed
<1>3. /\ GoodReplica(r) /\ DOMAIN r.red = DOMAIN q.red \cup listed
      /\ \A ch \in DOMAIN q.red \ listed : r.red[ch] = q.red[ch]
      /\ \A ch \in listed : r.red[ch].state = SnapshotOf(snapshots, ch).state
  BY <1>1, ApplyKeeps
<1>4. Catalog \in DOMAIN q.red /\ Catalog \notin listed
  BY <1>1, Distinct DEF GoodReplica, GoodReducers
<1> HIDE DEF r
<1>5. r.red[Catalog] = q.red[Catalog]
  BY <1>3, <1>4
<1>6. SessionChannels(r) = listed
  BY <1>2, <1>5 DEF SessionChannels
<1>7. ChatChannels(r) = UNION {Children(SnapshotOf(snapshots, s).state) : s \in listed}
  BY <1>3, <1>6 DEF ChatChannels
<1>8. ASSUME NEW s \in listed PROVE Children(SnapshotOf(snapshots, s).state) \subseteq Chat
  <2>1. s \in Channels(snapshots) /\ s \in Session
    BY <1>1
  <2>2. Had(s, SnapshotOf(snapshots, s).rev, SnapshotOf(snapshots, s).state) /\ s \in Chan
    BY <2>1, SnapshotOfChannel
  <2>3. Children(SnapshotOf(snapshots, s).state) \subseteq Listable(s)
    BY <2>2, StateShape
  <2> QED BY <2>1, <2>3, Distinct DEF Listable
<1>9. ChatChannels(r) \subseteq Chat
  BY <1>7, <1>8
<1> QED BY <1>1, <1>3, <1>5, <1>6, <1>7, <1>9 DEF listed, r

\* The answer of the first stage of hydrateCatalog.
LEMMA SessionsAnswerGood ==
  ASSUME HostInv, NEW q, GoodReplica(q), NEW result \in Subscription, GoodSnapshots(result.snapshots),
         NEW asked
  PROVE  GoodAnswer(q, SessionsAnswer(q, asked, result))
<1> DEFINE c == CatalogAnswer(q, result)
           listed == SessionChannels(c)
           r == ApplySnapshots(c, result.snapshots, listed)
           out == SessionsAnswer(q, asked, result)
<1>1. CASE Regresses(q, result.snapshots, {Catalog})
  <2>1. out = Failed(Subscribed(q, result))
    BY <1>1 DEF SessionsAnswer
  <2> QED BY <2>1, SubscribedKeeps, FailedGood
<1>2. CASE ~Regresses(q, result.snapshots, {Catalog})
  <2>1. /\ GoodReplica(c) /\ HasState(c.red[Catalog])
        /\ c.red[Catalog].state = SnapshotOf(result.snapshots, Catalog).state
        /\ Catalog \in Channels(result.snapshots)
    BY <1>2, CatalogAnswerGood
  <2>2. out = IF asked \ {Catalog} # listed THEN AskSessions(c)
              ELSE IF Regresses(c, result.snapshots, listed) THEN Failed(c)
              ELSE Ask(r, "topology", {Catalog} \cup listed \cup ChatChannels(r))
    BY <1>2 DEF SessionsAnswer
  <2>3. GoodAnswer(q, AskSessions(c)) /\ GoodAnswer(q, Failed(c))
    <3> HIDE DEF c
    <3> QED BY <2>1, AskSessionsGood DEF GoodAnswer, GoodOut, Failed
  <2>4. CASE ~Regresses(c, result.snapshots, listed)
    <3>1. listed \subseteq Channels(result.snapshots)
      BY <2>4, NotRegressing
    <3> HIDE DEF c
    <3>2. /\ GoodReplica(r) /\ HasState(r.red[Catalog])
          /\ listed \subseteq Session /\ ChatChannels(r) \subseteq Chat
      BY <2>1, <3>1, SessionsApplied
    <3>3. {Catalog} \cup listed \cup ChatChannels(r) \subseteq Chan
      BY <3>2, Distinct
    <3> HIDE DEF r, listed
    <3>4. GoodAnswer(q, Ask(r, "topology", {Catalog} \cup listed \cup ChatChannels(r)))
      BY <3>2, <3>3 DEF GoodAnswer, GoodOut, Ask
    <3> QED BY <2>2, <2>3, <3>4
  <2> HIDE DEF c, r, listed, out
  <2> QED BY <2>2, <2>3, <2>4 DEF out
<1> QED BY <1>1, <1>2

\* The answer of the second stage, after which the records are replaced.
LEMMA TopologyAnswerGood ==
  ASSUME HostInv, NEW q, GoodReplica(q), NEW result \in Subscription, GoodSnapshots(result.snapshots),
         NEW asked
  PROVE  GoodAnswer(q, TopologyAnswer(q, asked, result))
<1> DEFINE snaps == result.snapshots
           c == CatalogAnswer(q, result)
           listed == SessionChannels(c)
           r == ApplySnapshots(c, snaps, listed)
           chats == ChatChannels(r)
           t == ApplySnapshots(r, snaps, chats)
           u == RetainReducers(t)
           out == TopologyAnswer(q, asked, result)
<1>1. CASE Regresses(q, snaps, {Catalog})
  <2>1. out = Failed(Subscribed(q, result))
    BY <1>1 DEF TopologyAnswer
  <2> QED BY <2>1, SubscribedKeeps, FailedGood
<1>2. CASE ~Regresses(q, snaps, {Catalog})
  <2>1. /\ GoodReplica(c) /\ HasState(c.red[Catalog])
        /\ c.red[Catalog].state = SnapshotOf(snaps, Catalog).state
        /\ Catalog \in Channels(snaps)
    BY <1>2, CatalogAnswerGood
  <2>2. out = IF asked \cap Session # listed THEN AskSessions(c)
              ELSE IF Regresses(c, snaps, listed) THEN Failed(c)
              ELSE IF asked \cap Chat # chats THEN AskSessions(r)
              ELSE IF Regresses(r, snaps, chats) THEN Failed(r)
              ELSE Done(ReconcileCatalog(u))
    BY <1>2 DEF TopologyAnswer
  <2>3. GoodAnswer(q, AskSessions(c)) /\ GoodAnswer(q, Failed(c))
    <3> HIDE DEF c
    <3> QED BY <2>1, AskSessionsGood DEF GoodAnswer, GoodOut, Failed
  <2>4. ASSUME ~Regresses(c, snaps, listed)
        PROVE  GoodAnswer(q, AskSessions(r)) /\ GoodAnswer(q, Failed(r))
    <3>1. listed \subseteq Channels(snaps)
      BY <2>4, NotRegressing
    <3> HIDE DEF c
    <3>2. GoodReplica(r) /\ HasState(r.red[Catalog])
      BY <2>1, <3>1, SessionsApplied
    <3> HIDE DEF r
    <3> QED BY <3>2, AskSessionsGood DEF GoodAnswer, GoodOut, Failed
  <2>5. ASSUME ~Regresses(c, snaps, listed), ~Regresses(r, snaps, chats)
        PROVE  GoodAnswer(q, Done(ReconcileCatalog(u)))
    <3>1. listed \subseteq Channels(snaps) /\ chats \subseteq Channels(snaps)
      BY <2>5, NotRegressing
    <3> HIDE DEF c
    <3>2. /\ GoodReplica(r) /\ HasState(r.red[Catalog]) /\ listed \subseteq Session
          /\ SessionChannels(r) = listed
          /\ \A s \in listed : s \in DOMAIN r.red /\ r.red[s].state = SnapshotOf(snaps, s).state
          /\ chats \subseteq Chat
      BY <2>1, <3>1, SessionsApplied
    <3> DEFINE All == listed \cup chats
               K == DOMAIN t.red \cap ({Catalog} \cup SessionChannels(t) \cup ChatChannels(t))
    <3>3. \A ch \in All : /\ SnapshotOf(snaps, ch).state \in State /\ ch \in Session \cup Chat
                          /\ Had(ch, SnapshotOf(snaps, ch).rev, SnapshotOf(snaps, ch).state)
      BY <3>1, <3>2, SnapshotOfChannel
    <3>4. /\ GoodReplica(t) /\ DOMAIN t.red = DOMAIN r.red \cup chats
          /\ \A ch \in DOMAIN r.red \ chats : t.red[ch] = r.red[ch]
          /\ \A ch \in chats : t.red[ch].state = SnapshotOf(snaps, ch).state
      <4> HIDE DEF r, chats, listed
      <4> QED BY <3>1, <3>2, ApplyKeeps
    <3>5. Catalog \in DOMAIN r.red
      BY <3>2 DEF GoodReplica, GoodReducers
    <3>6. Catalog \notin chats /\ \A s \in listed : s \notin chats
      BY <3>2, Distinct
    <3>7. ChatChannels(r) = UNION {Children(r.red[s].state) : s \in listed}
      BY <3>2 DEF ChatChannels
    <3> HIDE DEF t, listed
    <3>8. t.red[Catalog] = r.red[Catalog] /\ \A s \in listed : t.red[s] = r.red[s]
      <4> HIDE DEF r, chats
      <4> QED BY <3>2, <3>4, <3>5, <3>6
    <3>9. SessionChannels(t) = listed
      BY <3>2, <3>8 DEF SessionChannels
    <3>10. ChatChannels(t) = chats
      BY <3>7, <3>8, <3>9 DEF ChatChannels
    <3> HIDE DEF r, chats
    <3>11. K = {Catalog} \cup All
      <4>1. {Catalog} \cup All \subseteq DOMAIN t.red
        BY <3>2, <3>4, <3>5
      <4> QED BY <4>1, <3>9, <3>10
    <3>12. /\ K \in SUBSET (DOMAIN t.red) /\ Catalog \in K
           /\ \A ch \in All : t.red[ch].state = SnapshotOf(snaps, ch).state
      <4>1. K \in SUBSET (DOMAIN t.red) /\ Catalog \in K
        BY <3>4, <3>5, <3>11
      <4>2. \A ch \in listed : t.red[ch].state = SnapshotOf(snaps, ch).state
        BY <3>2, <3>8
      <4> QED BY <4>1, <4>2, <3>4
    <3> DEFINE red == [ch \in K |-> t.red[ch]]
    <3>13. u = [red |-> red, subs |-> t.subs, last |-> t.last, shown |-> t.shown]
      <4>1. u = [t EXCEPT !.red = red]
        BY DEF RetainReducers
      <4>2. t = [red |-> t.red, subs |-> t.subs, last |-> t.last, shown |-> t.shown]
        BY <3>4 DEF GoodReplica
      <4> HIDE DEF red, u
      <4> QED BY <4>1, <4>2
    <3> HIDE DEF K
    <3>14. GoodReducers(red) /\ red[Catalog] = t.red[Catalog]
      <4>1. GoodReducers(t.red)
        BY <3>4 DEF GoodReplica
      <4> QED BY <3>12, <4>1, FewerReducers
    <3>15. \A ch \in All : red[ch].state = SnapshotOf(snaps, ch).state /\ red[ch] = t.red[ch]
      BY <3>11, <3>12
    <3> HIDE DEF red, u
    <3>16. SessionChannels(u) = listed
      BY <3>9, <3>13, <3>14 DEF SessionChannels
    <3>17. ChatChannels(u) = chats
      <4>1. \A s \in listed : u.red[s] = t.red[s]
        BY <3>13, <3>15
      <4> QED BY <3>9, <3>10, <3>16, <4>1 DEF ChatChannels
    <3> DEFINE shown == [ch \in All |-> red[ch].state]
    <3>18. GoodShown(shown)
      <4>1. \A ch \in All : shown[ch] = SnapshotOf(snaps, ch).state
        BY <3>15
      <4>2. \A ch \in All : \E rev \in 0 .. revs[ch] : shown[ch] = StateAt(ch, rev)
        BY <4>1, <3>3 DEF Had
      <4>3. shown \in [All -> State] /\ DOMAIN shown = All
        BY <4>1, <3>3
      <4> HIDE DEF shown
      <4> QED BY <4>2, <4>3, <3>3 DEF GoodShown
    <3>19. ReconcileCatalog(u) = [red |-> red, subs |-> t.subs, last |-> t.last, shown |-> shown]
      <4>1. ReconcileCatalog(u) = [u EXCEPT !.shown = shown]
        BY <3>13, <3>16, <3>17 DEF ReconcileCatalog
      <4> HIDE DEF shown
      <4> QED BY <4>1, <3>13
    <3>20. HasState(red[Catalog])
      BY <3>2, <3>8, <3>14
    <3> HIDE DEF shown
    <3>21. GoodReplica(ReconcileCatalog(u)) /\ HasState(ReconcileCatalog(u).red[Catalog])
      BY <3>4, <3>14, <3>18, <3>19, <3>20 DEF GoodReplica
    <3> QED BY <3>21 DEF GoodAnswer, GoodOut, Done
  <2> HIDE DEF c, r, listed, chats, t, u, out
  <2> QED BY <2>2, <2>3, <2>4, <2>5 DEF out
<1> QED BY <1>1, <1>2


\* An action the Host published.
Logged(a) == \E i \in DOMAIN log : a = log[i]

\* An action of the history carries the state its channel had at its revision.
LEMMA LoggedHad ==
  ASSUME HostInv, NEW a, Logged(a)
  PROVE  /\ a \in Envelope /\ a.chan \in Chan /\ a.seq \in Nat /\ a.rev \in Nat /\ a.state \in State
         /\ Had(a.chan, a.rev, a.state)
<1>1. PICK i \in DOMAIN log : a = log[i]
  BY DEF Logged
<1>2. a \in Envelope
  BY <1>1 DEF HostInv, HostTypes
<1>3. a.chan \in Chan /\ a.seq \in Nat /\ a.rev \in Nat /\ a.state \in State
  BY <1>2 DEF Envelope
<1>4. a.rev \in 0 .. revs[a.chan]
  <2>1. a.rev \in 1 .. revs[a.chan] /\ revs[a.chan] \in Nat
    BY <1>1, <1>3 DEF HostInv, HostTypes, Numbered
  <2> QED BY <2>1, <1>3
<1> DEFINE A == {j \in DOMAIN log : log[j].chan = a.chan /\ log[j].rev = a.rev}
<1>5. A = {i}
  BY <1>1 DEF HostInv, Numbered
<1>6. StateAt(a.chan, a.rev) = IF A = {} THEN InitialState(a.chan) ELSE log[CHOOSE j \in A : TRUE].state
  BY DEF StateAt
<1> HIDE DEF A
<1>7. A # {} /\ (CHOOSE j \in A : TRUE) = i
  BY <1>5
<1>8. a.state = StateAt(a.chan, a.rev)
  BY <1>1, <1>6, <1>7
<1> QED BY <1>2, <1>3, <1>4, <1>8 DEF Had

\* The record the user sees follows a channel whose reducer has a state.
LEMMA FollowGood ==
  ASSUME HostInv, NEW q, GoodReplica(q), NEW ch \in DOMAIN q.red, HasState(q.red[ch])
  PROVE  GoodAnswer(q, Follow(q, ch))
<1>1. GoodAnswer(q, Failed(q))
  BY FailedGood
<1>2. CASE ch = Catalog
  <2>1. Follow(q, ch) = AskSessions(q)
    BY <1>2, Distinct DEF Follow
  <2> QED BY <1>2, <2>1, AskSessionsGood
<1>3. CASE ch # Catalog /\ ch \in Session
  <2>1. Follow(q, ch) = IF ch \in DOMAIN q.shown THEN AskSessions(q) ELSE Failed(q)
    BY <1>3 DEF Follow
  <2>2. CASE ch \in DOMAIN q.shown
    <3>1. HasState(q.red[Catalog])
      BY <2>2 DEF GoodReplica
    <3> QED BY <2>1, <2>2, <3>1, AskSessionsGood
  <2> QED BY <1>1, <2>1, <2>2
<1>4. CASE ch # Catalog /\ ch \notin Session
  <2>1. Follow(q, ch) = ShowChat(q, ch)
    BY <1>4 DEF Follow
  <2> DEFINE shown == [q.shown EXCEPT ![ch] = q.red[ch].state]
             r == [q EXCEPT !.shown[ch] = q.red[ch].state]
  <2>2. CASE ch \notin DOMAIN q.shown
    <3>1. ShowChat(q, ch) = Failed(q)
      BY <2>2 DEF ShowChat
    <3> QED BY <1>1, <2>1, <3>1
  <2>3. CASE ch \in DOMAIN q.shown
    <3>1. ShowChat(q, ch) \in {Done(r), Failed(q)}
      BY DEF ShowChat
    <3>2. r = [red |-> q.red, subs |-> q.subs, last |-> q.last, shown |-> shown]
      <4>1. q = [red |-> q.red, subs |-> q.subs, last |-> q.last, shown |-> q.shown]
        BY DEF GoodReplica
      <4>2. r = [q EXCEPT !.shown = shown]
        BY Zenon
      <4> HIDE DEF shown, r
      <4> QED BY <4>1, <4>2
    <3>3. /\ q.red[ch].state \in State
          /\ \E rev \in 0 .. revs[ch] : q.red[ch].state = StateAt(ch, rev)
      BY DEF GoodReplica, GoodReducers, Had, HasState, ReducerRecord
    <3>4. GoodShown(shown)
      <4>1. DOMAIN shown = DOMAIN q.shown /\ shown[ch] = q.red[ch].state
            /\ \A k \in DOMAIN shown : k # ch => shown[k] = q.shown[k]
        BY <2>3
      <4>2. GoodShown(q.shown)
        BY DEF GoodReplica
      <4>3. shown \in [DOMAIN shown -> State]
        BY <3>3, <4>2 DEF GoodShown
      <4> HIDE DEF shown
      <4> QED BY <3>3, <4>1, <4>2, <4>3 DEF GoodShown
    <3>5. HasState(q.red[Catalog])
      BY <2>3 DEF GoodReplica
    <3> HIDE DEF r, shown
    <3>6. GoodReplica(r) /\ HasState(r.red[Catalog])
      BY <3>2, <3>4, <3>5 DEF GoodReplica
    <3>7. GoodAnswer(q, Done(r))
      BY <3>6 DEF GoodAnswer, GoodOut, Done
    <3> QED BY <1>1, <2>1, <3>1, <3>7
  <2> QED BY <2>2, <2>3
<1> QED BY <1>2, <1>3, <1>4

\* A reducer's state is one its channel had at its revision.
GoodReducer(r, ch) == r \in ReducerRecord /\ (HasState(r) => Had(ch, r.rev, r.state))

\* An action a reducer applies leaves it with the state the action carries.
LEMMA ApplyActionGood ==
  ASSUME HostInv, NEW a, Logged(a), NEW r, GoodReducer(r, a.chan)
  PROVE  /\ GoodReducer(ApplyAction(r, a), a.chan)
         /\ HasState(r) => HasState(ApplyAction(r, a)) /\ r.rev <= ApplyAction(r, a).rev
         /\ Verdict(r, a) = "applied" => HasState(ApplyAction(r, a))
<1> DEFINE v == Verdict(r, a)
<1>1. /\ r = [state |-> r.state, seq |-> r.seq, rev |-> r.rev, snapSeq |-> r.snapSeq,
              snapRev |-> r.snapRev, applied |-> r.applied, need |-> r.need]
      /\ r.state \in State \cup {NoState} /\ r.seq \in Nat /\ r.rev \in Nat /\ r.snapSeq \in Nat
      /\ r.snapRev \in Nat /\ r.applied \subseteq Envelope
      /\ r.need \in {"none", "gap", "conflict", "missingSnapshot"}
  BY DEF GoodReducer, ReducerRecord
<1>2. /\ a \in Envelope /\ a.seq \in Nat /\ a.rev \in Nat /\ a.state \in State
      /\ Had(a.chan, a.rev, a.state)
  BY LoggedHad
<1> HIDE DEF v
<1>3. CASE v = "applied"
  <2>1. ApplyAction(r, a) = [r EXCEPT !.state = a.state, !.seq = a.seq, !.rev = a.rev,
                                      !.applied = Remember(r, a)]
    BY <1>3 DEF ApplyAction, v
  <2>2. ApplyAction(r, a) = [state |-> a.state, seq |-> a.seq, rev |-> a.rev, snapSeq |-> r.snapSeq,
                             snapRev |-> r.snapRev, applied |-> Remember(r, a), need |-> r.need]
    BY <1>1, <2>1
  <2>3. Remember(r, a) \subseteq Envelope
    BY <1>1, <1>2 DEF Remember
  <2>4. ApplyAction(r, a) \in ReducerRecord
    BY <1>1, <1>2, <2>2, <2>3 DEF ReducerRecord
  <2>5. HasState(ApplyAction(r, a))
    BY <1>2, <2>2, NoStateAssumption DEF HasState
  <2>6. r.rev <= ApplyAction(r, a).rev
    <3>1. a.rev = r.rev + 1
      BY <1>3 DEF Verdict, v
    <3> QED BY <1>1, <2>2, <3>1
  <2> QED BY <1>2, <2>2, <2>4, <2>5, <2>6 DEF GoodReducer
<1>4. CASE v \in {"gap", "conflict", "missingSnapshot"}
  <2>1. ApplyAction(r, a) = [r EXCEPT !.need = v]
    BY <1>4 DEF ApplyAction, v
  <2>2. ApplyAction(r, a) = [state |-> r.state, seq |-> r.seq, rev |-> r.rev, snapSeq |-> r.snapSeq,
                             snapRev |-> r.snapRev, applied |-> r.applied, need |-> v]
    BY <1>1, <2>1
  <2>3. ApplyAction(r, a) \in ReducerRecord
    BY <1>1, <1>4, <2>2 DEF ReducerRecord
  <2>4. ApplyAction(r, a).state = r.state /\ ApplyAction(r, a).rev = r.rev
    BY <2>2
  <2> QED BY <1>1, <1>4, <2>3, <2>4 DEF GoodReducer, HasState, v
<1>5. CASE v \notin {"applied", "gap", "conflict", "missingSnapshot"}
  <2>1. ApplyAction(r, a) = r
    BY <1>5 DEF ApplyAction, v
  <2> QED BY <1>1, <1>5, <2>1 DEF v
<1> QED BY <1>3, <1>4, <1>5

\* A replica with one other reducer.
LEMMA ReducersAre ==
  ASSUME NEW red
  PROVE  GoodReducers(red) <=>
           /\ red \in [DOMAIN red -> ReducerRecord]
           /\ DOMAIN red \subseteq Chan /\ Catalog \in DOMAIN red
           /\ \A ch \in DOMAIN red : GoodReducer(red[ch], ch)
BY DEF GoodReducers, GoodReducer

\* A live action is ignored, applied, refused or answered by a request.
LEMMA LiveActionGood ==
  ASSUME HostInv, NEW q, GoodReplica(q), NEW a, Logged(a)
  PROVE  GoodOut(q, LiveAction(q, a))
<1> DEFINE v == Verdict(q.red[a.chan], a)
           r == [q EXCEPT !.red[a.chan] = ApplyAction(@, a)]
           red == [q.red EXCEPT ![a.chan] = ApplyAction(@, a)]
<1>1. GoodOut(q, Done(q)) /\ GoodOut(q, Failed(q))
  BY DEF GoodOut, Done, Failed
<1>2. CASE a.chan \notin DOMAIN q.red
  <2>1. LiveAction(q, a) \in {Done(q), Failed(q)}
    BY <1>2 DEF LiveAction
  <2> QED BY <1>1, <2>1
<1>3. CASE a.chan \in DOMAIN q.red
  <2>1. LiveAction(q, a) = CASE v = "duplicate" -> Done(q)
                             [] v = "applied"   -> Follow(Note(r, a.seq), a.chan)
                             [] OTHER -> IF a.chan \in q.subs THEN Ask(r, "resync", q.subs) ELSE Failed(r)
    BY <1>3 DEF LiveAction
  <2>2. GoodReducers(q.red)
    BY DEF GoodReplica
  <2>3. GoodReducer(q.red[a.chan], a.chan)
    BY <1>3, <2>2, ReducersAre
  <2>4. /\ GoodReducer(ApplyAction(q.red[a.chan], a), a.chan)
        /\ HasState(q.red[a.chan]) => HasState(ApplyAction(q.red[a.chan], a))
        /\ v = "applied" => HasState(ApplyAction(q.red[a.chan], a))
    BY <2>3, ApplyActionGood
  <2>5. /\ DOMAIN red = DOMAIN q.red /\ red[a.chan] = ApplyAction(q.red[a.chan], a)
        /\ \A ch \in DOMAIN red : ch # a.chan => red[ch] = q.red[ch]
        /\ red = [ch \in DOMAIN red |-> red[ch]]
    BY <1>3
  <2>6. r = [red |-> red, subs |-> q.subs, last |-> q.last, shown |-> q.shown]
    <3>1. r = [q EXCEPT !.red = red]
      BY Zenon
    <3>2. q = [red |-> q.red, subs |-> q.subs, last |-> q.last, shown |-> q.shown]
      BY DEF GoodReplica
    <3> HIDE DEF r, red
    <3> QED BY <3>1, <3>2
  <2> HIDE DEF r, red, v
  <2>7. GoodReducers(red) /\ (HasState(q.red[Catalog]) => HasState(red[Catalog]))
    <3>1. \A ch \in DOMAIN red : GoodReducer(red[ch], ch)
      BY <2>2, <2>4, <2>5, ReducersAre
    <3>2. \A ch \in DOMAIN red : red[ch] \in ReducerRecord
      BY <3>1 DEF GoodReducer
    <3>3. red \in [DOMAIN red -> ReducerRecord]
      BY <3>2, <2>5
    <3>4. DOMAIN red \subseteq Chan /\ Catalog \in DOMAIN red
      BY <2>2, <2>5 DEF GoodReducers
    <3>5. GoodReducers(red)
      BY <3>1, <3>3, <3>4, ReducersAre
    <3> QED BY <3>4, <3>5, <2>4, <2>5
  <2>8. GoodReplica(r)
    BY <2>6, <2>7 DEF GoodReplica
  <2>9. r.red = red
    BY <2>6
  <2>10. ASSUME v = "applied" PROVE GoodOut(q, Follow(Note(r, a.seq), a.chan))
    <3>1. a.seq \in Nat
      BY LoggedHad
    <3> DEFINE n == Note(r, a.seq)
    <3>2. GoodReplica(n) /\ n.red = red
      BY <2>8, <2>9, <3>1, NoteKeeps
    <3> HIDE DEF n
    <3>3. a.chan \in DOMAIN n.red /\ HasState(n.red[a.chan])
      BY <1>3, <2>4, <2>5, <2>10, <3>2
    <3>4. GoodAnswer(n, Follow(n, a.chan))
      BY <3>2, <3>3, FollowGood
    <3>5. GoodOut(q, Follow(n, a.chan))
      BY <2>7, <3>2, <3>4 DEF GoodAnswer, GoodOut
    <3> QED BY <3>5 DEF n
  <2>11. GoodOut(q, Ask(r, "resync", q.subs)) /\ GoodOut(q, Failed(r))
    <3>1. q.subs \subseteq Chan
      BY DEF GoodReplica
    <3> QED BY <2>7, <2>8, <2>9, <3>1 DEF GoodOut, Ask, Failed
  <2> QED BY <1>1, <2>1, <2>10, <2>11
<1> QED BY <1>2, <1>3

\* The baseline that a gap or a conflict asked for.
LEMMA ResyncAnswerGood ==
  ASSUME HostInv, NEW q, GoodReplica(q), NEW result \in Subscription, GoodSnapshots(result.snapshots),
         NEW a, a \in Envelope
  PROVE  GoodAnswer(q, ResyncAnswer(q, a, result))
<1> DEFINE o == Note(Subscribed(q, result), result.seq)
           s == ApplySnapshots(o, result.snapshots, {a.chan})
           n == Note(s, a.seq)
<1>1. result.seq \in Nat /\ a.seq \in Nat
  BY DEF Subscription, Envelope
<1>2. GoodReplica(o) /\ o.red[Catalog] = q.red[Catalog]
  BY <1>1, SubscribedKeeps, NoteKeeps
<1>3. ResyncAnswer(q, a, result) =
        IF Regresses(o, result.snapshots, {a.chan}) \/ a.chan \notin DOMAIN o.red
        THEN Failed(o) ELSE Follow(n, a.chan)
  BY DEF ResyncAnswer
<1>4. GoodAnswer(q, Failed(o))
  BY <1>2, FailedGood
<1> HIDE DEF o
<1>5. ASSUME ~Regresses(o, result.snapshots, {a.chan}), a.chan \in DOMAIN o.red
      PROVE  GoodAnswer(q, Follow(n, a.chan))
  <2> DEFINE C == {a.chan}
  <2>1. C \in SUBSET Channels(result.snapshots)
    BY <1>5, NotRegressing
  <2>2. /\ GoodReplica(s) /\ DOMAIN s.red = DOMAIN o.red \cup {a.chan}
        /\ \A ch \in DOMAIN o.red \ {a.chan} : s.red[ch] = o.red[ch]
        /\ HasState(s.red[a.chan])
    <3>1. a.chan \in C
      OBVIOUS
    <3>2. s = ApplySnapshots(o, result.snapshots, C)
      OBVIOUS
    <3> HIDE DEF C, s
    <3>3. /\ GoodReplica(s) /\ DOMAIN s.red = DOMAIN o.red \cup C
          /\ \A ch \in DOMAIN o.red \ C : s.red[ch] = o.red[ch]
          /\ \A ch \in C : HasState(s.red[ch])
      BY <1>2, <2>1, <3>2, ApplyKeeps
    <3> QED BY <3>1, <3>3 DEF C
  <2> HIDE DEF s
  <2>3. GoodReplica(n) /\ n.red = s.red
    BY <1>1, <2>2, NoteKeeps
  <2> HIDE DEF n
  <2>4. HasState(q.red[Catalog]) => HasState(n.red[Catalog])
    <3>1. Catalog \in DOMAIN o.red
      BY <1>2 DEF GoodReplica, GoodReducers
    <3> QED BY <1>2, <2>2, <2>3, <3>1
  <2>5. GoodAnswer(n, Follow(n, a.chan))
    BY <2>2, <2>3, FollowGood
  <2> QED BY <2>4, <2>5 DEF GoodAnswer, GoodOut
<1> HIDE DEF n
<1> QED BY <1>3, <1>4, <1>5


\* A reconnect answered with snapshots.
LEMMA ReconnectSnapshotsGood ==
  ASSUME HostInv, NEW q, GoodReplica(q), NEW result \in Subscription, GoodSnapshots(result.snapshots)
  PROVE  GoodAnswer(q, ReconnectSnapshots(q, result))
<1> DEFINE snaps == result.snapshots
           o == Subscribed(q, result)
           c == ApplySnapshots(o, snaps, {Catalog})
           sessions == SessionChannels(c) \cap c.subs
           r == ApplySnapshots(c, snaps, sessions)
           known == {s \in SessionChannels(r) \cap DOMAIN r.red : HasState(r.red[s])}
           chats == (UNION {Children(r.red[s].state) : s \in known}) \cap r.subs
           t == ApplySnapshots(r, snaps, chats)
           n == Note(t, result.seq)
           bad == \/ Regresses(q, snaps, {Catalog})
                  \/ Regresses(c, snaps, sessions)
                  \/ Regresses(r, snaps, chats)
<1>1. ReconnectSnapshots(q, result) = IF bad THEN Failed(q) ELSE AskSessions(n)
  BY DEF ReconnectSnapshots
<1>2. GoodAnswer(q, Failed(q))
  BY FailedGood
<1>3. ASSUME ~bad PROVE GoodAnswer(q, AskSessions(n))
  <2>1. /\ Catalog \in Channels(snaps) /\ sessions \in SUBSET Channels(snaps)
        /\ chats \in SUBSET Channels(snaps)
    <3> HIDE DEF c, r, sessions, chats
    <3> QED BY <1>3, NotRegressing
  <2>2. GoodReplica(o)
    BY SubscribedKeeps
  <2> HIDE DEF o
  <2>3. GoodReplica(c) /\ HasState(c.red[Catalog])
    <3>1. {Catalog} \in SUBSET Channels(snaps)
      BY <2>1
    <3> QED BY <2>2, <3>1, ApplyKeeps
  <2> HIDE DEF c, sessions
  <2>4. GoodReplica(r) /\ HasState(r.red[Catalog])
    <3>1. /\ GoodReplica(r) /\ \A ch \in DOMAIN c.red \ sessions : r.red[ch] = c.red[ch]
          /\ \A ch \in sessions : HasState(r.red[ch])
      BY <2>1, <2>3, ApplyKeeps
    <3> HIDE DEF r
    <3> QED BY <2>3, <3>1 DEF GoodReplica, GoodReducers
  <2> HIDE DEF r, chats
  <2>5. GoodReplica(t) /\ HasState(t.red[Catalog])
    <3>1. /\ GoodReplica(t) /\ \A ch \in DOMAIN r.red \ chats : t.red[ch] = r.red[ch]
          /\ \A ch \in chats : HasState(t.red[ch])
      BY <2>1, <2>4, ApplyKeeps
    <3> HIDE DEF t
    <3> QED BY <2>4, <3>1 DEF GoodReplica, GoodReducers
  <2> HIDE DEF t
  <2>6. GoodReplica(n) /\ HasState(n.red[Catalog])
    <3>1. result.seq \in Nat
      BY DEF Subscription
    <3> QED BY <2>5, <3>1, NoteKeeps
  <2> HIDE DEF n
  <2>7. GoodAnswer(n, AskSessions(n))
    BY <2>6, AskSessionsGood
  <2> QED BY <2>6, <2>7 DEF GoodAnswer, GoodOut
<1> HIDE DEF bad, n
<1> QED BY <1>1, <1>2, <1>3

\* The recursion of Replayed.
AppliedBy(r, actions, n, f) ==
  f = [k \in 0 .. n |-> IF k = 0 THEN r ELSE ApplyAction(f[k - 1], actions[k])]

\* The recursion of Replayed has a solution for every length.
LEMMA AppliedExists ==
  ASSUME NEW r, NEW actions, NEW n \in Nat
  PROVE  \E f : AppliedBy(r, actions, n, f)
<1> DEFINE S == {m \in Nat : \E f : AppliedBy(r, actions, m, f)}
<1>1. 0 \in S
  <2>1. AppliedBy(r, actions, 0, [k \in 0 .. 0 |-> r])
    BY DEF AppliedBy
  <2> QED BY <2>1
<1>2. ASSUME NEW i \in 0 .. n - 1, i \in S PROVE i + 1 \in S
  <2>1. PICK f : AppliedBy(r, actions, i, f)
    BY <1>2
  <2> DEFINE g == [k \in 0 .. i + 1 |-> IF k = i + 1 THEN ApplyAction(f[i], actions[i + 1]) ELSE f[k]]
  <2>2. \A k \in 0 .. i : f[k] = IF k = 0 THEN r ELSE ApplyAction(f[k - 1], actions[k])
    BY <2>1 DEF AppliedBy
  <2>3. \A k \in 0 .. i : g[k] = f[k]
    OBVIOUS
  <2>4. g[i + 1] = ApplyAction(f[i], actions[i + 1])
    OBVIOUS
  <2>5. \A k \in 0 .. i + 1 : g[k] = IF k = 0 THEN r ELSE ApplyAction(g[k - 1], actions[k])
    <3> HIDE DEF g
    <3> SUFFICES ASSUME NEW k \in 0 .. i + 1
                 PROVE  g[k] = IF k = 0 THEN r ELSE ApplyAction(g[k - 1], actions[k])
      OBVIOUS
    <3>1. CASE k = i + 1
      BY <3>1, <2>3, <2>4
    <3>2. CASE k # i + 1
      BY <3>2, <2>2, <2>3
    <3> QED BY <3>1, <3>2
  <2>6. AppliedBy(r, actions, i + 1, g)
    BY <2>5 DEF AppliedBy
  <2> QED BY <2>6
<1>3. 0 .. n \subseteq S
  <2> HIDE DEF S
  <2> QED BY <1>1, <1>2, Induction
<1> QED BY <1>3

\* Published actions of a channel, applied one after the other.
LEMMA AppliedGood ==
  ASSUME HostInv, NEW ch, NEW r, GoodReducer(r, ch), NEW actions, NEW n \in Nat,
         \A k \in 1 .. n : Logged(actions[k]) /\ actions[k].chan = ch,
         NEW f, AppliedBy(r, actions, n, f)
  PROVE  GoodReducer(f[n], ch) /\ (HasState(r) => HasState(f[n]) /\ r.rev <= f[n].rev)
<1> DEFINE Ok(g) == GoodReducer(g, ch) /\ (HasState(r) => HasState(g) /\ r.rev <= g.rev)
           G == {k \in 0 .. n : Ok(f[k])}
<1>1. \A k \in 0 .. n : f[k] = IF k = 0 THEN r ELSE ApplyAction(f[k - 1], actions[k])
  BY DEF AppliedBy
<1>2. 0 \in G
  <2>1. f[0] = r /\ r.rev \in Nat
    BY <1>1 DEF GoodReducer, ReducerRecord
  <2> QED BY <2>1
<1>3. ASSUME NEW i \in 0 .. n - 1, i \in G PROVE i + 1 \in G
  <2>1. f[i + 1] = ApplyAction(f[i], actions[i + 1]) /\ i + 1 \in 0 .. n
    <3>1. i + 1 \in 0 .. n /\ i + 1 # 0 /\ (i + 1) - 1 = i
      OBVIOUS
    <3>2. f[i + 1] = IF i + 1 = 0 THEN r ELSE ApplyAction(f[(i + 1) - 1], actions[i + 1])
      BY <3>1, <1>1
    <3> QED BY <3>1, <3>2
  <2>2. Logged(actions[i + 1]) /\ actions[i + 1].chan = ch
    <3>1. i + 1 \in 1 .. n
      OBVIOUS
    <3> QED BY <3>1
  <2>3. GoodReducer(f[i], ch) /\ (HasState(r) => HasState(f[i]) /\ r.rev <= f[i].rev)
    BY <1>3
  <2> DEFINE g == ApplyAction(f[i], actions[i + 1])
  <2>4. GoodReducer(g, ch) /\ (HasState(f[i]) => HasState(g) /\ f[i].rev <= g.rev)
    BY <2>2, <2>3, ApplyActionGood
  <2> HIDE DEF g
  <2>5. r.rev \in Nat /\ f[i].rev \in Nat /\ g.rev \in Nat
    BY <2>3, <2>4 DEF GoodReducer, ReducerRecord
  <2>6. Ok(g)
    BY <2>3, <2>4, <2>5
  <2> QED BY <2>1, <2>6 DEF g
<1>4. 0 .. n \subseteq G
  <2> HIDE DEF G
  <2> QED BY <1>2, <1>3, Induction
<1> QED BY <1>4

\* A replica after a replay of published actions.
LEMMA ReplayedGood ==
  ASSUME HostInv, NEW q, GoodReplica(q), NEW actions \in Seq(Envelope),
         \A i \in DOMAIN actions : Logged(actions[i])
  PROVE  /\ GoodReplica(Replayed(q, actions))
         /\ Replayed(q, actions).subs = q.subs /\ Replayed(q, actions).shown = q.shown
         /\ DOMAIN Replayed(q, actions).red = DOMAIN q.red
         /\ \A ch \in DOMAIN q.red : HasState(q.red[ch]) =>
              /\ HasState(Replayed(q, actions).red[ch])
              /\ q.red[ch].rev <= Replayed(q, actions).red[ch].rev
         /\ HasState(q.red[Catalog]) => HasState(Replayed(q, actions).red[Catalog])
<1> DEFINE Mine(ch) == Subsequence(actions, {i \in DOMAIN actions : actions[i].chan = ch})
           State0(ch) == CHOOSE f : f = [n \in 0 .. Len(Mine(ch)) |->
                                          IF n = 0 THEN q.red[ch] ELSE ApplyAction(f[n - 1], Mine(ch)[n])]
           red == [ch \in DOMAIN q.red |-> State0(ch)[Len(Mine(ch))]]
           r == Replayed(q, actions)
<1>1. r = [q EXCEPT !.red = red]
  BY DEF Replayed
<1>2. /\ q = [red |-> q.red, subs |-> q.subs, last |-> q.last, shown |-> q.shown]
      /\ GoodReducers(q.red)
  BY DEF GoodReplica
<1>3. ASSUME NEW ch \in DOMAIN q.red
      PROVE  /\ GoodReducer(red[ch], ch)
             /\ HasState(q.red[ch]) => HasState(red[ch]) /\ q.red[ch].rev <= red[ch].rev
  <2> DEFINE f == State0(ch)
             mine == Mine(ch)
             indices == {i \in DOMAIN actions : actions[i].chan = ch}
  <2>1. /\ mine \in Seq(Envelope)
        /\ \A j \in DOMAIN mine : \E i \in indices : mine[j] = actions[i]
    <3>1. indices \in SUBSET (DOMAIN actions)
      OBVIOUS
    <3>2. mine = Subsequence(actions, indices)
      OBVIOUS
    <3> HIDE DEF indices, mine
    <3> QED BY <3>1, <3>2, SubsequenceOf
  <2>2. red[ch] = f[Len(mine)]
    OBVIOUS
  <2>3. f = CHOOSE g : AppliedBy(q.red[ch], mine, Len(mine), g)
    BY DEF AppliedBy
  <2>4. \A j \in DOMAIN mine : Logged(mine[j]) /\ mine[j].chan = ch
    BY <2>1
  <2>5. GoodReducer(q.red[ch], ch)
    BY <1>2, ReducersAre
  <2> HIDE DEF f, mine, red
  <2>6. Len(mine) \in Nat /\ DOMAIN mine = 1 .. Len(mine)
    BY <2>1
  <2>7. AppliedBy(q.red[ch], mine, Len(mine), f)
    BY <2>3, <2>6, AppliedExists
  <2>8. /\ GoodReducer(f[Len(mine)], ch)
        /\ HasState(q.red[ch]) => HasState(f[Len(mine)]) /\ q.red[ch].rev <= f[Len(mine)].rev
    BY <2>4, <2>5, <2>6, <2>7, AppliedGood
  <2> QED BY <2>2, <2>8
<1>4. DOMAIN red = DOMAIN q.red /\ red = [ch \in DOMAIN red |-> red[ch]]
  OBVIOUS
<1> HIDE DEF red, r
<1>5. r = [red |-> red, subs |-> q.subs, last |-> q.last, shown |-> q.shown]
  BY <1>1, <1>2
<1>6. red \in [DOMAIN red -> ReducerRecord]
  BY <1>3, <1>4 DEF GoodReducer
<1>7. GoodReducers(red) /\ Catalog \in DOMAIN q.red
  BY <1>2, <1>3, <1>4, <1>6, ReducersAre
<1> QED BY <1>3, <1>4, <1>5, <1>7 DEF GoodReplica, r

\* A reconnect, however it is answered.
LEMMA ReconnectAnswerGood ==
  ASSUME HostInv, NEW q, GoodReplica(q), HasState(q.red[Catalog]), NEW result,
         \/ result \in Subscription /\ result.kind = "snapshots" /\ GoodSnapshots(result.snapshots)
         \/ result \in Replay /\ \A i \in DOMAIN result.actions : Logged(result.actions[i])
         \/ result = Rejection
  PROVE  GoodAnswer(q, ReconnectAnswer(q, result))
<1>1. GoodAnswer(q, Failed(q))
  BY FailedGood
<1>2. CASE result \in Subscription /\ result.kind = "snapshots" /\ GoodSnapshots(result.snapshots)
  <2>1. ReconnectAnswer(q, result) = ReconnectSnapshots(q, result)
    BY <1>2 DEF ReconnectAnswer
  <2> QED BY <1>2, <2>1, ReconnectSnapshotsGood
<1>3. CASE result = Rejection
  <2>1. ReconnectAnswer(q, result) = Failed(q)
    BY <1>3 DEF ReconnectAnswer, Rejection
  <2> QED BY <1>1, <2>1
<1>4. CASE result \in Replay /\ \A i \in DOMAIN result.actions : Logged(result.actions[i])
  <2> DEFINE y == Replayed(q, result.actions)
             d == DropMissing(y, result.missing)
             n == [d EXCEPT !.last = result.through]
  <2>1. /\ result.kind = "replay" /\ result.through \in Nat /\ result.actions \in Seq(Envelope)
        /\ Catalog \notin result.missing
    BY <1>4 DEF Replay, Missable
  <2>2. ReconnectAnswer(q, result) \in {AskSessions(n), Failed(q)}
    BY <2>1 DEF ReconnectAnswer
  <2>3. GoodReplica(y) /\ HasState(y.red[Catalog])
    BY <1>4, <2>1, ReplayedGood
  <2> HIDE DEF y
  <2>4. GoodReplica(d) /\ HasState(d.red[Catalog])
    BY <2>1, <2>3, DropKeeps
  <2> HIDE DEF d
  <2>5. n = [red |-> d.red, subs |-> d.subs, last |-> result.through, shown |-> d.shown]
    BY <2>4 DEF GoodReplica
  <2> HIDE DEF n
  <2>6. GoodReplica(n) /\ HasState(n.red[Catalog])
    BY <2>1, <2>4, <2>5 DEF GoodReplica
  <2>7. GoodAnswer(n, AskSessions(n))
    BY <2>6, AskSessionsGood
  <2>8. GoodAnswer(q, AskSessions(n))
    BY <2>6, <2>7 DEF GoodAnswer, GoodOut
  <2> QED BY <1>1, <2>2, <2>8
<1> QED BY <1>2, <1>3, <1>4


-----------------------------------------------------------------------------
(* What is in flight *)

\* Every action and every snapshot on its way is one of the Host's.
LoggedActions == {log[i] : i \in DOMAIN log}

\* An answer with published states and actions only.
GoodResult(result) ==
  /\ result \in Subscription => GoodSnapshots(result.snapshots)
  /\ result \in Replay => \A i \in DOMAIN result.actions : Logged(result.actions[i])

\* What may be in flight to the client.
GoodItems == LoggedActions \cup {x \in Ans : GoodResult(x.result)}

\* What may be queued in the client.
GoodTasks ==
  {x \in TaskRecord : /\ x.kind = "action" => Logged(x.env)
                      /\ x.kind = "recover" => ready}

\* A thread awaits at most one answer, and the answer is one to its question.
Fits(at, result) ==
  IF at = "reconnect" THEN result.kind # "subscribed" ELSE result.kind = "subscribed"

\* Nothing is in flight of what thread t asked for.
Quiet(t, u, d) ==
  /\ \A i \in DOMAIN u : u[i].from # t
  /\ \A i \in DOMAIN d : d[i].kind = "answer" => d[i].to # t

\* Thread t awaits the answer to a request of this place.
Asked(th, t, at) == th[t] # Idle /\ th[t].at = at

\* Requests and answers in flight are those the threads await: of every thread at
\* most one is on its way, and an answer fits the place it was asked at.
Matched(u, d, th) ==
  /\ \A i \in DOMAIN u : Asked(th, u[i].from, u[i].at)
  /\ \A i \in DOMAIN d :
       d[i].kind = "answer" => Asked(th, d[i].to, d[i].at) /\ Fits(d[i].at, d[i].result)
  /\ \A i, j \in DOMAIN u : u[i].from = u[j].from => i = j
  /\ \A i, j \in DOMAIN d :
       d[i].kind = "answer" /\ d[j].kind = "answer" /\ d[i].to = d[j].to => i = j
  /\ \A i \in DOMAIN u, j \in DOMAIN d : d[j].kind = "answer" => u[i].from # d[j].to

\* The elements of a queue without its head.
LEMMA TailOf ==
  ASSUME NEW S, NEW s \in Seq(S), s # <<>>
  PROVE  /\ Head(s) = s[1] /\ 1 \in DOMAIN s /\ Head(s) \in S /\ Tail(s) \in Seq(S)
         /\ Len(Tail(s)) = Len(s) - 1
         /\ \A i \in DOMAIN Tail(s) : i + 1 \in DOMAIN s /\ Tail(s)[i] = s[i + 1] /\ i \in Nat /\ i + 1 # 1
<1>1. Len(s) \in Nat /\ DOMAIN s = 1 .. Len(s) /\ Len(s) # 0
  OBVIOUS
<1>2. Tail(s) \in Seq(S) /\ Len(Tail(s)) = Len(s) - 1 /\ Head(s) = s[1]
  OBVIOUS
<1>3. DOMAIN Tail(s) = 1 .. Len(s) - 1
  BY <1>2
<1>4. \A i \in 1 .. Len(s) - 1 : Tail(s)[i] = s[i + 1]
  BY <1>1
<1> QED BY <1>1, <1>2, <1>3, <1>4

\* A sequence over a set is one over a larger set.
LEMMA SeqMonotone ==
  ASSUME NEW S, NEW T, S \subseteq T, NEW s \in Seq(S)
  PROVE  s \in Seq(T)
<1>1. \A i \in 1 .. Len(s) : s[i] \in S
  OBVIOUS
<1>2. \A i \in 1 .. Len(s) : s[i] \in T
  BY <1>1
<1>3. s = [i \in 1 .. Len(s) |-> s[i]] /\ Len(s) \in Nat
  OBVIOUS
<1> QED BY <1>2, <1>3

\* A thread of which nothing is in flight may end.
LEMMA MatchedIdle ==
  ASSUME NEW u, NEW d, NEW th \in [Thread -> {Idle} \cup Pending], Matched(u, d, th),
         NEW t \in Thread, Quiet(t, u, d), NEW x
  PROVE  Matched(u, d, [th EXCEPT ![t] = x])
<1>1. \A k : k # t => [th EXCEPT ![t] = x][k] = th[k]
  OBVIOUS
<1> HIDE DEF Fits
<1> QED BY <1>1 DEF Matched, Quiet, Asked

\* A thread of which nothing is in flight may send a request.
LEMMA MatchedRequest ==
  ASSUME NEW u \in Seq(Req), NEW d, NEW th \in [Thread -> {Idle} \cup Pending], Matched(u, d, th),
         NEW t \in Thread, Quiet(t, u, d), NEW x, x # Idle, NEW q, q.from = t, q.at = x.at
  PROVE  Matched(Append(u, q), d, [th EXCEPT ![t] = x])
<1> DEFINE th2 == [th EXCEPT ![t] = x]
           u2 == Append(u, q)
           n == Len(u) + 1
<1>1. Matched(u, d, th2)
  BY MatchedIdle
<1>2. th2[t] = x
  OBVIOUS
<1>3. /\ \A i \in DOMAIN u : i \in DOMAIN u2 /\ u2[i] = u[i] /\ i # n
      /\ n \in DOMAIN u2 /\ u2[n] = q
      /\ \A i \in DOMAIN u2 : i = n \/ i \in DOMAIN u
  OBVIOUS
<1> HIDE DEF th2, u2, n
<1>4. \A i \in DOMAIN u2 : Asked(th2, u2[i].from, u2[i].at)
  BY <1>1, <1>2, <1>3 DEF Matched, Asked
<1>5. \A i, j \in DOMAIN u2 : u2[i].from = u2[j].from => i = j
  BY <1>1, <1>3 DEF Matched, Quiet
<1>6. \A i \in DOMAIN u2, j \in DOMAIN d : d[j].kind = "answer" => u2[i].from # d[j].to
  BY <1>1, <1>3 DEF Matched, Quiet
<1> HIDE DEF Fits, Asked
<1>7. Matched(u2, d, th2)
  BY <1>1, <1>4, <1>5, <1>6 DEF Matched
<1> QED BY <1>7 DEF u2, th2

\* The client may receive what comes first.
LEMMA MatchedTail ==
  ASSUME NEW u, NEW S, NEW d \in Seq(S), d # <<>>, NEW th, Matched(u, d, th)
  PROVE  /\ Matched(u, Tail(d), th)
         /\ Head(d).kind = "answer" =>
              /\ Quiet(Head(d).to, u, Tail(d))
              /\ Asked(th, Head(d).to, Head(d).at) /\ Fits(Head(d).at, Head(d).result)
<1> DEFINE e == Tail(d)
<1>1. /\ Head(d) = d[1] /\ 1 \in DOMAIN d
      /\ \A i \in DOMAIN e : i + 1 \in DOMAIN d /\ e[i] = d[i + 1] /\ i \in Nat /\ i + 1 # 1
  BY TailOf
<1>2. \A i, j \in DOMAIN e : i + 1 = j + 1 => i = j
  BY <1>1
<1> HIDE DEF e, Fits, Asked
<1>3. Matched(u, e, th)
  <2>1. \A i \in DOMAIN e :
          e[i].kind = "answer" => Asked(th, e[i].to, e[i].at) /\ Fits(e[i].at, e[i].result)
    BY <1>1 DEF Matched
  <2>2. \A i, j \in DOMAIN e :
          e[i].kind = "answer" /\ e[j].kind = "answer" /\ e[i].to = e[j].to => i = j
    BY <1>1, <1>2 DEF Matched
  <2>3. \A i \in DOMAIN u, j \in DOMAIN e : e[j].kind = "answer" => u[i].from # e[j].to
    BY <1>1 DEF Matched
  <2> QED BY <2>1, <2>2, <2>3 DEF Matched
<1>4. Head(d).kind = "answer" => Quiet(Head(d).to, u, e)
  <2> SUFFICES ASSUME d[1].kind = "answer" PROVE Quiet(d[1].to, u, e)
    BY <1>1
  <2>1. \A i \in DOMAIN u : u[i].from # d[1].to
    BY <1>1 DEF Matched
  <2>2. \A i \in DOMAIN e : e[i].kind = "answer" => e[i].to # d[1].to
    BY <1>1 DEF Matched
  <2> QED BY <2>1, <2>2 DEF Quiet
<1>5. Head(d).kind = "answer" =>
        Asked(th, Head(d).to, Head(d).at) /\ Fits(Head(d).at, Head(d).result)
  BY <1>1 DEF Matched
<1> QED BY <1>3, <1>4, <1>5 DEF e

\* The Host may answer the request that comes first.
LEMMA MatchedAnswer ==
  ASSUME NEW u \in Seq(Req), u # <<>>, NEW S, NEW d \in Seq(S), NEW th, Matched(u, d, th),
         NEW x, x.kind = "answer", x.to = Head(u).from, x.at = Head(u).at, Fits(x.at, x.result)
  PROVE  Matched(Tail(u), Append(d, x), th)
<1> DEFINE v == Tail(u)
           e == Append(d, x)
           n == Len(d) + 1
<1>1. /\ Head(u) = u[1] /\ 1 \in DOMAIN u
      /\ \A i \in DOMAIN v : i + 1 \in DOMAIN u /\ v[i] = u[i + 1] /\ i \in Nat /\ i + 1 # 1
  BY TailOf
<1>2. \A i, j \in DOMAIN v : i + 1 = j + 1 => i = j
  BY <1>1
<1>3. /\ \A i \in DOMAIN d : i \in DOMAIN e /\ e[i] = d[i] /\ i # n
      /\ n \in DOMAIN e /\ e[n] = x
      /\ \A i \in DOMAIN e : i = n \/ i \in DOMAIN d
  OBVIOUS
<1> HIDE DEF v, e, n, Fits, Asked
<1>4. \A i \in DOMAIN v : Asked(th, v[i].from, v[i].at)
  BY <1>1 DEF Matched
<1>5. \A i, j \in DOMAIN v : v[i].from = v[j].from => i = j
  BY <1>1, <1>2 DEF Matched
<1>6. \A i \in DOMAIN e :
        e[i].kind = "answer" => Asked(th, e[i].to, e[i].at) /\ Fits(e[i].at, e[i].result)
  <2>1. Asked(th, x.to, x.at)
    BY <1>1 DEF Matched
  <2>2. \A i \in DOMAIN d :
        d[i].kind = "answer" => Asked(th, d[i].to, d[i].at) /\ Fits(d[i].at, d[i].result)
    BY DEF Matched
  <2> QED BY <1>3, <2>1, <2>2
<1>7. \A i \in DOMAIN d : d[i].kind = "answer" => d[i].to # x.to
  BY <1>1 DEF Matched
<1>8. \A i, j \in DOMAIN e :
        e[i].kind = "answer" /\ e[j].kind = "answer" /\ e[i].to = e[j].to => i = j
  BY <1>3, <1>7 DEF Matched
<1>9. \A i \in DOMAIN v, j \in DOMAIN e : e[j].kind = "answer" => v[i].from # e[j].to
  <2>1. \A i \in DOMAIN v : v[i].from # x.to
    BY <1>1 DEF Matched
  <2>2. \A i \in DOMAIN v, j \in DOMAIN d : d[j].kind = "answer" => v[i].from # d[j].to
    BY <1>1 DEF Matched
  <2> QED BY <1>3, <2>1, <2>2
<1>10. Matched(v, e, th)
  BY <1>4, <1>5, <1>6, <1>8, <1>9 DEF Matched
<1> QED BY <1>10 DEF v, e

\* The Host may publish actions at any time.
LEMMA MatchedActions ==
  ASSUME NEW u, NEW S, NEW d \in Seq(S), NEW acts \in Seq(S), NEW th, Matched(u, d, th),
         \A i \in DOMAIN acts : acts[i].kind # "answer"
  PROVE  Matched(u, d \o acts, th)
<1> DEFINE e == d \o acts
<1>1. \A i \in DOMAIN e : e[i].kind = "answer" => i \in DOMAIN d /\ e[i] = d[i]
  <2>1. /\ \A i \in 1 .. Len(d) : e[i] = d[i]
        /\ \A i \in 1 .. Len(acts) : e[Len(d) + i] = acts[i]
        /\ \A i \in DOMAIN e : i \in DOMAIN d \/ \E j \in DOMAIN acts : i = Len(d) + j
        /\ DOMAIN d = 1 .. Len(d) /\ DOMAIN acts = 1 .. Len(acts)
    <3>1. /\ Len(d) \in Nat /\ DOMAIN d = 1 .. Len(d) /\ Len(acts) \in Nat /\ DOMAIN acts = 1 .. Len(acts)
          /\ Len(e) = Len(d) + Len(acts) /\ DOMAIN e = 1 .. Len(e)
      OBVIOUS
    <3>2. /\ \A i \in 1 .. Len(d) : e[i] = d[i]
          /\ \A i \in 1 .. Len(acts) : e[Len(d) + i] = acts[i]
      BY <3>1
    <3> HIDE DEF e
    <3>3. ASSUME NEW i \in DOMAIN e, i \notin DOMAIN d PROVE \E j \in DOMAIN acts : i = Len(d) + j
      <4>1. i - Len(d) \in DOMAIN acts /\ i = Len(d) + (i - Len(d))
        BY <3>1, <3>3
      <4> QED BY <4>1
    <3> QED BY <3>1, <3>2, <3>3
  <2> HIDE DEF e
  <2> QED BY <2>1
<1> HIDE DEF e, Fits, Asked
<1>2. Matched(u, e, th)
  BY <1>1 DEF Matched
<1> QED BY <1>2 DEF e


-----------------------------------------------------------------------------
(* The inductive invariant *)

\* Types of the client and of what is in flight, with authentic contents.
ClientTypes ==
  /\ threads \in [Thread -> {Idle} \cup Pending]
  /\ tasks \in Seq(GoodTasks)
  /\ buffered \in Seq(LoggedActions) /\ Len(buffered) <= MaxBuffered
  /\ up \in Seq(Req) /\ down \in Seq(GoodItems) /\ hostSubs \subseteq Chan
  /\ mode \in {"connected", "restoring", "disposed"}
  /\ ready \in BOOLEAN /\ recovering \in BOOLEAN /\ link \in BOOLEAN
  /\ gen \in Nat /\ recovery \in 0 .. gen

\* Only the init thread initializes, and only it makes the provider ready;
\* only a ready provider recovers.
Roles ==
  /\ ready => threads["init"] = Idle /\ HasState(p.red[Catalog])
  /\ threads["init"] # Idle =>
       threads["init"].why = "initialize" /\ threads["init"].at # "reconnect"
  /\ threads["queue"] # Idle =>
       threads["queue"].why # "initialize" /\ (threads["queue"].at = "reconnect" => ready)
  /\ \A t \in Thread : threads[t] # Idle /\ threads[t].at = "resync" => threads[t].env \in Envelope
  /\ mode = "restoring" => ready

\* The inductive invariant.
IInv ==
  /\ HostInv /\ GoodReplica(p) /\ ClientTypes
  /\ Matched(up, down, threads) /\ Roles

\* A step that leaves the Host alone keeps its consistency.
LEMMA HostStays ==
  ASSUME HostInv, UNCHANGED hostState
  PROVE  HostInv' /\ Grows
<1>1. UNCHANGED <<hostSeq, revs, live, stamps, replay, commits, log>>
  BY DEF hostState
<1>2. HostInv'
  <2>1. HostTypes' /\ Numbered' /\ Retaining'
    BY <1>1 DEF HostInv, HostTypes, Numbered, Retaining
  <2>2. Published'
    BY <1>1 DEF HostInv, Published, CurrentState, StateOf, ListedIn, StateAt, InitialState
  <2>3. Rooted'
    BY <1>1 DEF HostInv, Rooted, Known
  <2>4. Aging'
    <3>1. \A ch, rev : StateAt(ch, rev)' = StateAt(ch, rev)
      BY <1>1 DEF StateAt, InitialState, StateOf, ListedIn
    <3>2. Known' = Known
      BY <1>1 DEF Known
    <3> QED BY <1>1, <3>1, <3>2 DEF HostInv, Aging
  <2> QED BY <2>1, <2>2, <2>3, <2>4 DEF HostInv
<1>3. \A ch \in Chan : revs[ch] \in Nat
  BY DEF HostInv, HostTypes
<1>4. Len(log) \in Nat
  BY DEF HostInv, HostTypes
<1>5. Grows
  <2>1. \A ch \in Chan : revs'[ch] >= revs[ch]
    BY <1>1, <1>3
  <2>2. Len(log) <= Len(log')
    BY <1>1, <1>4
  <2>3. \A ch \in Chan : \A rev \in 0 .. revs[ch] : StateAt(ch, rev)' = StateAt(ch, rev)
    BY <1>1 DEF StateAt, InitialState, StateOf, ListedIn
  <2> QED BY <1>1, <2>1, <2>2, <2>3 DEF Grows
<1> QED BY <1>2, <1>5

\* What a channel had it will have had.
LEMMA HadStays ==
  ASSUME HostInv, HostInv', Grows, NEW ch \in Chan, NEW rev, NEW state, Had(ch, rev, state)
  PROVE  Had(ch, rev, state)'
<1>1. rev \in 0 .. revs[ch] /\ state = StateAt(ch, rev)
  BY DEF Had
<1>2. revs[ch] \in Nat /\ revs'[ch] \in Nat /\ revs'[ch] >= revs[ch]
  BY DEF HostInv, HostTypes, Grows
<1>3. StateAt(ch, rev)' = StateAt(ch, rev)
  BY <1>1 DEF Grows
<1>4. rev \in 0 .. revs'[ch]
  BY <1>1, <1>2
<1> QED BY <1>1, <1>3, <1>4 DEF Had

\* Snapshots stay authentic while the history grows.
LEMMA SnapshotsStay ==
  ASSUME HostInv, HostInv', Grows, NEW snapshots, GoodSnapshots(snapshots)
  PROVE  GoodSnapshots(snapshots)'
<1>1. ASSUME NEW snap \in snapshots PROVE Had(snap.chan, snap.rev, snap.state)'
  <2>1. snap.chan \in Chan /\ Had(snap.chan, snap.rev, snap.state)
    BY DEF GoodSnapshots, SnapshotRecord
  <2> QED BY <2>1, HadStays
<1> QED BY <1>1 DEF GoodSnapshots

\* The actions of the history stay in it.
LEMMA LoggedStays ==
  ASSUME Grows, NEW a, Logged(a)
  PROVE  Logged(a)'
BY DEF Grows, Logged

\* Everything in flight stays authentic while the history grows.
LEMMA GoodStay ==
  ASSUME HostInv, HostInv', Grows, ready => ready'
  PROVE  /\ LoggedActions \subseteq LoggedActions'
         /\ GoodItems \subseteq GoodItems'
         /\ GoodTasks \subseteq GoodTasks'
<1>1. LoggedActions \subseteq LoggedActions'
  BY DEF LoggedActions, Grows
<1>2. ASSUME NEW result, GoodResult(result) PROVE GoodResult(result)'
  <2>1. result \in Subscription => GoodSnapshots(result.snapshots)'
    BY <1>2, SnapshotsStay DEF GoodResult
  <2>2. result \in Replay => \A i \in DOMAIN result.actions : Logged(result.actions[i])'
    BY <1>2, LoggedStays DEF GoodResult
  <2> QED BY <2>1, <2>2 DEF GoodResult
<1>3. GoodItems \subseteq GoodItems'
  BY <1>1, <1>2 DEF GoodItems
<1>4. GoodTasks \subseteq GoodTasks'
  BY LoggedStays DEF GoodTasks
<1> QED BY <1>1, <1>3, <1>4

\* A replica stays authentic while the history grows.
LEMMA ReplicaStays ==
  ASSUME HostInv, HostInv', Grows, NEW q, GoodReplica(q), p' = q
  PROVE  GoodReplica(p)'
<1>1. GoodReducers(q.red)'
  <2>1. ASSUME NEW ch \in DOMAIN q.red, HasState(q.red[ch])
        PROVE  Had(ch, q.red[ch].rev, q.red[ch].state)'
    <3>1. ch \in Chan /\ Had(ch, q.red[ch].rev, q.red[ch].state)
      BY <2>1 DEF GoodReplica, GoodReducers
    <3> QED BY <3>1, HadStays
  <2> QED BY <2>1 DEF GoodReplica, GoodReducers
<1>2. GoodShown(q.shown)'
  <2>1. ASSUME NEW ch \in DOMAIN q.shown
        PROVE  \E rev \in 0 .. revs'[ch] : q.shown[ch] = StateAt(ch, rev)'
    <3>1. ch \in Chan
      BY Distinct DEF GoodReplica, GoodShown
    <3>2. PICK rev \in 0 .. revs[ch] : q.shown[ch] = StateAt(ch, rev)
      BY DEF GoodReplica, GoodShown
    <3>3. Had(ch, rev, q.shown[ch])
      BY <3>2 DEF Had
    <3>4. Had(ch, rev, q.shown[ch])'
      BY <3>1, <3>3, HadStays
    <3> QED BY <3>4 DEF Had
  <2> QED BY <2>1 DEF GoodReplica, GoodShown
<1>3. /\ q = [red |-> q.red, subs |-> q.subs, last |-> q.last, shown |-> q.shown]
      /\ q.subs \subseteq Chan /\ q.last \in Nat \cup {Unnoted}
      /\ DOMAIN q.shown # {} => HasState(q.red[Catalog])
  BY DEF GoodReplica
<1>4. GoodReplica(q)'
  BY <1>1, <1>2, <1>3 DEF GoodReplica
<1>5. GoodReplica(q)' = GoodReplica(p)'
  BY DEF GoodReplica, GoodReducers, GoodShown, Had, StateAt, InitialState, StateOf, ListedIn
<1> QED BY <1>4, <1>5


-----------------------------------------------------------------------------
(* How a thread goes on *)

\* The thread t resumes for a reason, with the tasks of rest behind it.
Resumes(t, why, env, rest) ==
  /\ t \in Thread /\ why \in {"initialize", "action", "refresh", "recover"}
  /\ (t = "init" <=> why = "initialize") /\ (t = "init" => ~ready)
  /\ env \in Envelope \cup {NoAction} /\ rest \in Seq(GoodTasks)
  /\ UNCHANGED hostVars /\ down' \in Seq(GoodItems)
  /\ Quiet(t, up, down') /\ Matched(up, down', threads)

\* What its computation may come to.
Outcome(t, env, out) ==
  /\ GoodReplica(out.p)
  /\ HasState(p.red[Catalog]) => HasState(out.p.red[Catalog])
  /\ t = "init" /\ out.then = "done" => HasState(out.p.red[Catalog])
  /\ \/ out.then \in {"done", "failed"}
     \/ /\ out.then = "ask" /\ out.at \in Place /\ out.asked \subseteq Chan
        /\ out.at = "resync" => env \in Envelope
        /\ out.at = "reconnect" => ready /\ t = "queue"

\* The replica that a computation leaves replaces the present one.
LEMMA ReplicaProceeds ==
  ASSUME IInv, NEW t, NEW env, NEW out, Outcome(t, env, out), UNCHANGED hostVars, p' = out.p
  PROVE  /\ HostInv' /\ Grows /\ GoodReplica(p)' /\ hostSubs' \subseteq Chan
         /\ HasState(p.red[Catalog]) => HasState(p'.red[Catalog])
<1>1. HostInv /\ GoodReplica(out.p)
  BY DEF IInv, Outcome
<1>2. HostInv' /\ Grows
  BY <1>1, HostStays DEF hostVars
<1>3. GoodReplica(p)'
  BY <1>1, <1>2, ReplicaStays
<1>4. hostSubs' \subseteq Chan
  BY DEF IInv, ClientTypes, hostVars
<1> QED BY <1>2, <1>3, <1>4 DEF Outcome

\* A thread may fail.
LEMMA FailKeeps ==
  ASSUME IInv, NEW t, NEW why, NEW env, NEW out, NEW rest, Resumes(t, why, env, rest),
         Outcome(t, env, out), p' = out.p, Fail(t, why, rest)
  PROVE  IInv'
<1>1. /\ t \in Thread /\ UNCHANGED hostVars /\ rest \in Seq(GoodTasks) /\ down' \in Seq(GoodItems)
      /\ Quiet(t, up, down') /\ Matched(up, down', threads)
  BY DEF Resumes
<1>2. /\ HostInv' /\ Grows /\ GoodReplica(p)' /\ hostSubs' \subseteq Chan
      /\ HasState(p.red[Catalog]) => HasState(p'.red[Catalog])
  BY <1>1, ReplicaProceeds
<1>3. /\ threads' = [threads EXCEPT ![t] = Idle] /\ tasks' = rest /\ up' = up
      /\ mode' \in {mode, "disposed"}
      /\ UNCHANGED <<ready, recovering, recovery, buffered, link, gen, refreshes>>
  BY DEF Fail, connVars
<1>4. ClientTypes /\ Roles
  BY DEF IInv
<1>5. HostInv
  BY DEF IInv
<1>6. /\ LoggedActions \subseteq LoggedActions' /\ GoodItems \subseteq GoodItems'
      /\ GoodTasks \subseteq GoodTasks'
  BY <1>2, <1>3, <1>5, GoodStay
<1>7. /\ tasks' \in Seq(GoodTasks') /\ down' \in Seq(GoodItems') /\ buffered' \in Seq(LoggedActions')
  BY <1>1, <1>3, <1>4, <1>6, SeqMonotone DEF ClientTypes
<1>8. threads' \in [Thread -> {Idle} \cup Pending]
  BY <1>1, <1>3, <1>4 DEF ClientTypes
<1>9. ClientTypes'
  BY <1>2, <1>3, <1>4, <1>7, <1>8 DEF ClientTypes
<1>10. Matched(up, down, threads)'
  <2>1. Matched(up, down', [threads EXCEPT ![t] = Idle])
    BY <1>1, <1>4, MatchedIdle DEF ClientTypes
  <2> QED BY <1>3, <2>1
<1>11. Roles'
  <2>1. \A k \in Thread : threads'[k] = Idle \/ threads'[k] = threads[k]
    BY <1>1, <1>3, <1>4 DEF ClientTypes
  <2>2. "init" \in Thread /\ "queue" \in Thread
    BY DEF Thread
  <2> QED BY <1>2, <1>3, <1>4, <2>1, <2>2 DEF Roles
<1> QED BY <1>2, <1>9, <1>10, <1>11 DEF IInv

\* A thread may ask again.
LEMMA AskKeeps ==
  ASSUME IInv, NEW t, NEW why, NEW env, NEW out, NEW rest, Resumes(t, why, env, rest),
         Outcome(t, env, out), p' = out.p, out.then = "ask",
         threads' = [threads EXCEPT ![t] = Awaiting(why, out.at, out.asked, env)],
         up' = Append(up, Request(t, out.at, out.asked, out.p.last)),
         tasks' = rest, UNCHANGED connVars
  PROVE  IInv'
<1> DEFINE x == Awaiting(why, out.at, out.asked, env)
           q == Request(t, out.at, out.asked, out.p.last)
<1>1. /\ t \in Thread /\ UNCHANGED hostVars /\ rest \in Seq(GoodTasks) /\ down' \in Seq(GoodItems)
      /\ Quiet(t, up, down') /\ Matched(up, down', threads)
      /\ why \in {"initialize", "action", "refresh", "recover"} /\ env \in Envelope \cup {NoAction}
      /\ (t = "init" <=> why = "initialize") /\ (t = "init" => ~ready)
  BY DEF Resumes
<1>2. /\ HostInv' /\ Grows /\ GoodReplica(p)' /\ hostSubs' \subseteq Chan
      /\ HasState(p.red[Catalog]) => HasState(p'.red[Catalog])
  BY <1>1, ReplicaProceeds
<1>3. /\ out.at \in Place /\ out.asked \subseteq Chan /\ out.p.last \in Nat \cup {Unnoted}
      /\ out.at = "resync" => env \in Envelope
      /\ out.at = "reconnect" => ready /\ t = "queue"
  BY DEF Outcome, GoodReplica
<1>4. UNCHANGED <<mode, ready, recovering, recovery, buffered, link, gen, refreshes>>
  BY DEF connVars
<1>5. HostInv /\ ClientTypes /\ Roles
  BY DEF IInv
<1>6. /\ LoggedActions \subseteq LoggedActions' /\ GoodItems \subseteq GoodItems'
      /\ GoodTasks \subseteq GoodTasks'
  BY <1>2, <1>4, <1>5, GoodStay
<1>7. /\ tasks' \in Seq(GoodTasks') /\ down' \in Seq(GoodItems') /\ buffered' \in Seq(LoggedActions')
  BY <1>1, <1>4, <1>5, <1>6, SeqMonotone DEF ClientTypes
<1>8. /\ x \in Pending /\ x.why = why /\ x.at = out.at /\ x.env = env /\ x # Idle
      /\ q \in Req /\ q.from = t /\ q.at = out.at
  <2>1. x \in Pending /\ x.why = why /\ x.at = out.at /\ x.env = env
    BY <1>1, <1>3 DEF Awaiting, Pending
  <2>2. q \in Req /\ q.from = t /\ q.at = out.at
    BY <1>1, <1>3 DEF Request, Req
  <2>3. x.why # "idle" /\ Idle.why = "idle"
    BY <1>1, <2>1 DEF Idle
  <2> QED BY <2>1, <2>2, <2>3
<1> HIDE DEF x, q
<1>9. /\ threads' = [threads EXCEPT ![t] = x] /\ up' = Append(up, q)
  BY DEF x, q
<1>10. threads' \in [Thread -> {Idle} \cup Pending] /\ up' \in Seq(Req)
  BY <1>1, <1>5, <1>8, <1>9 DEF ClientTypes
<1>11. ClientTypes'
  BY <1>2, <1>4, <1>5, <1>7, <1>10 DEF ClientTypes
<1>12. Matched(up, down, threads)'
  <2>1. Matched(Append(up, q), down', [threads EXCEPT ![t] = x])
    BY <1>1, <1>5, <1>8, MatchedRequest DEF ClientTypes
  <2> QED BY <1>9, <2>1
<1>13. Roles'
  <2>1. \A k \in Thread : k # t => threads'[k] = threads[k]
    BY <1>1, <1>5, <1>9 DEF ClientTypes
  <2>2. threads'[t] = x
    BY <1>1, <1>5, <1>9 DEF ClientTypes
  <2>3. "init" \in Thread /\ "queue" \in Thread /\ (t = "init" \/ t = "queue")
    BY <1>1 DEF Thread
  <2> QED BY <1>1, <1>2, <1>3, <1>4, <1>5, <1>8, <2>1, <2>2, <2>3 DEF Roles
<1> QED BY <1>2, <1>11, <1>12, <1>13 DEF IInv

\* The buffered actions become tasks.
LEMMA BufferedTasks ==
  ASSUME IInv, NEW rest \in Seq(GoodTasks)
  PROVE  rest \o [i \in DOMAIN buffered |-> ActionTask(buffered[i])]
              \o <<CompleteTask(recovery)>> \in Seq(GoodTasks)
<1> DEFINE s == [i \in DOMAIN buffered |-> ActionTask(buffered[i])]
<1>1. buffered \in Seq(LoggedActions) /\ recovery \in Nat
  BY DEF IInv, ClientTypes
<1>2. ASSUME NEW i \in DOMAIN buffered PROVE ActionTask(buffered[i]) \in GoodTasks
  <2>1. Logged(buffered[i])
    BY <1>1 DEF LoggedActions, Logged
  <2>2. buffered[i] \in Envelope
    BY <2>1, LoggedHad DEF IInv
  <2>3. ActionTask(buffered[i]) \in TaskRecord
    BY <2>2 DEF ActionTask, TaskRecord
  <2> QED BY <2>1, <2>3 DEF GoodTasks, ActionTask
<1>3. CompleteTask(recovery) \in GoodTasks
  <2>1. CompleteTask(recovery) \in TaskRecord
    BY <1>1 DEF CompleteTask, TaskRecord
  <2> QED BY <2>1 DEF GoodTasks, CompleteTask
<1>4. s \in Seq(GoodTasks)
  <2>1. Len(buffered) \in Nat /\ DOMAIN buffered = 1 .. Len(buffered)
    BY <1>1
  <2> QED BY <1>2, <2>1
<1> HIDE DEF s
<1>5. <<CompleteTask(recovery)>> \in Seq(GoodTasks)
  BY <1>3
<1>6. rest \o s \o <<CompleteTask(recovery)>> \in Seq(GoodTasks)
  BY <1>4, <1>5
<1> QED BY <1>6 DEF s

\* A thread may finish.
LEMMA FinishKeeps ==
  ASSUME IInv, NEW t, NEW why, NEW env, NEW out, NEW rest, Resumes(t, why, env, rest),
         Outcome(t, env, out), p' = out.p, out.then = "done", Finish(t, why, rest)
  PROVE  IInv'
<1>1. /\ t \in Thread /\ UNCHANGED hostVars /\ rest \in Seq(GoodTasks) /\ down' \in Seq(GoodItems)
      /\ Quiet(t, up, down') /\ Matched(up, down', threads)
      /\ (t = "init" <=> why = "initialize") /\ (t = "init" => ~ready)
  BY DEF Resumes
<1>2. /\ HostInv' /\ Grows /\ GoodReplica(p)' /\ hostSubs' \subseteq Chan
      /\ HasState(p.red[Catalog]) => HasState(p'.red[Catalog])
      /\ t = "init" => HasState(p'.red[Catalog])
  BY <1>1, ReplicaProceeds DEF Outcome
<1>3. HostInv /\ ClientTypes /\ Roles
  BY DEF IInv
<1>4. /\ threads' = [threads EXCEPT ![t] = Idle] /\ up' = up
      /\ tasks' \in Seq(GoodTasks) /\ buffered' \in {buffered, <<>>}
      /\ mode' \in {mode, "connected"} /\ ready' \in BOOLEAN
      /\ ready => ready'
      /\ ready' => ready \/ t = "init"
      /\ UNCHANGED <<recovering, recovery, link, gen, refreshes>>
  <2>1. CASE why = "initialize"
    BY <2>1, <1>1, <1>3 DEF Finish, ClientTypes
  <2>2. CASE why = "recover"
    <3>1. CompleteRecovery(rest)
      BY <2>2 DEF Finish
    <3>2. tasks' \in Seq(GoodTasks)
      BY <1>1, <3>1, BufferedTasks DEF CompleteRecovery
    <3> QED BY <1>1, <1>3, <3>1, <3>2 DEF Finish, CompleteRecovery, ClientTypes
  <2>3. CASE why # "initialize" /\ why # "recover"
    BY <2>3, <1>1, <1>3 DEF Finish, ClientTypes, connVars
  <2> QED BY <2>1, <2>2, <2>3
<1>5. /\ LoggedActions \subseteq LoggedActions' /\ GoodItems \subseteq GoodItems'
      /\ GoodTasks \subseteq GoodTasks'
  BY <1>2, <1>3, <1>4, GoodStay
<1>6. buffered' \in Seq(LoggedActions) /\ Len(buffered') <= MaxBuffered
  <2>1. CASE buffered' = buffered
    BY <2>1, <1>3 DEF ClientTypes
  <2>2. CASE buffered' = <<>>
    <3>1. <<>> \in Seq(LoggedActions) /\ Len(<<>>) = 0
      OBVIOUS
    <3> QED BY <2>2, <3>1, BufferAssumption
  <2> QED BY <1>4, <2>1, <2>2
<1>7. /\ tasks' \in Seq(GoodTasks') /\ down' \in Seq(GoodItems') /\ buffered' \in Seq(LoggedActions')
  BY <1>1, <1>4, <1>5, <1>6, SeqMonotone
<1>8. threads' \in [Thread -> {Idle} \cup Pending]
  BY <1>1, <1>3, <1>4 DEF ClientTypes
<1>9. ClientTypes'
  BY <1>2, <1>3, <1>4, <1>6, <1>7, <1>8 DEF ClientTypes
<1>10. Matched(up, down, threads)'
  <2>1. Matched(up, down', [threads EXCEPT ![t] = Idle])
    BY <1>1, <1>3, MatchedIdle DEF ClientTypes
  <2> QED BY <1>4, <2>1
<1>11. Roles'
  <2>1. \A k \in Thread : threads'[k] = Idle \/ threads'[k] = threads[k]
    BY <1>1, <1>3, <1>4 DEF ClientTypes
  <2>2. "init" \in Thread /\ "queue" \in Thread /\ threads'[t] = Idle
    BY <1>1, <1>3, <1>4 DEF Thread, ClientTypes
  <2>3. ready' => threads'["init"] = Idle /\ HasState(p'.red[Catalog])
    <3>1. CASE ready
      <4>1. threads["init"] = Idle /\ HasState(p.red[Catalog])
        BY <1>3, <3>1 DEF Roles
      <4> QED BY <1>2, <2>1, <2>2, <4>1
    <3>2. CASE t = "init"
      BY <1>2, <2>2, <3>2
    <3> QED BY <1>4, <3>1, <3>2
  <2>4. mode' = "restoring" => ready'
    BY <1>3, <1>4 DEF Roles
  <2>5. /\ threads'["init"] # Idle =>
             threads'["init"].why = "initialize" /\ threads'["init"].at # "reconnect"
        /\ threads'["queue"] # Idle =>
             threads'["queue"].why # "initialize" /\ (threads'["queue"].at = "reconnect" => ready')
    BY <1>3, <1>4, <2>1, <2>2 DEF Roles
  <2>6. \A k \in Thread : threads'[k] # Idle /\ threads'[k].at = "resync" => threads'[k].env \in Envelope
    BY <1>3, <2>1 DEF Roles
  <2> QED BY <2>3, <2>4, <2>5, <2>6 DEF Roles
<1> QED BY <1>2, <1>9, <1>10, <1>11 DEF IInv

\* A thread may go on with an authentic replica.
LEMMA ProceedKeeps ==
  ASSUME IInv, NEW t, NEW why, NEW env, NEW out, NEW rest, Resumes(t, why, env, rest),
         Outcome(t, env, out), Proceed(t, why, env, out, rest)
  PROVE  IInv'
<1>1. p' = out.p /\ out.then \in {"done", "failed", "ask"}
  BY DEF Proceed, Outcome
<1>2. CASE out.then = "done"
  <2>1. Finish(t, why, rest)
    BY <1>2 DEF Proceed
  <2> QED BY <1>1, <1>2, <2>1, FinishKeeps
<1>3. CASE Fail(t, why, rest)
  BY <1>1, <1>3, FailKeeps
<1>4. CASE out.then = "ask" /\ ~Fail(t, why, rest)
  <2>1. /\ threads' = [threads EXCEPT ![t] = Awaiting(why, out.at, out.asked, env)]
        /\ up' = Append(up, Request(t, out.at, out.asked, out.p.last))
        /\ tasks' = rest /\ UNCHANGED connVars
    BY <1>4 DEF Proceed
  <2> QED BY <1>1, <1>4, <2>1, AskKeeps
<1>5. CASE out.then = "failed"
  <2>1. Fail(t, why, rest)
    BY <1>5 DEF Proceed
  <2> QED BY <1>1, <2>1, FailKeeps
<1> QED BY <1>1, <1>2, <1>3, <1>4, <1>5


-----------------------------------------------------------------------------
(* The steps *)

\* A sequence of elements of a set, from its elements.
LEMMA SeqOfElements ==
  ASSUME NEW S, NEW T, NEW s \in Seq(S), \A i \in DOMAIN s : s[i] \in T
  PROVE  s \in Seq(T)
<1>1. s = [i \in 1 .. Len(s) |-> s[i]] /\ Len(s) \in Nat /\ DOMAIN s = 1 .. Len(s)
  OBVIOUS
<1> QED BY <1>1

\* What a commit delivers are actions it published.
LEMMA DeliveredIs ==
  ASSUME HostInv, HostInv'
  PROVE  /\ Delivered \in Seq(LoggedActions')
         /\ \A i \in DOMAIN Delivered : Delivered[i].kind = "action"
<1> DEFINE indices == {i \in Len(log) + 1 .. Len(log') : log'[i].chan \in hostSubs}
           D == Subsequence(log', indices)
<1>1. /\ log' \in Seq(Envelope) /\ DOMAIN log' = 1 .. Len(log') /\ Len(log) \in Nat
  BY DEF HostInv, HostTypes
<1>2. indices \in SUBSET (DOMAIN log')
  BY <1>1
<1> HIDE DEF indices
<1>3. D \in Seq(Envelope) /\ \A j \in DOMAIN D : \E i \in indices : D[j] = log'[i]
  BY <1>1, <1>2, SubsequenceOf
<1> HIDE DEF D
<1>4. \A j \in DOMAIN D : D[j] \in LoggedActions' /\ D[j] \in Envelope
  BY <1>1, <1>2, <1>3 DEF LoggedActions
<1>5. D \in Seq(LoggedActions')
  BY <1>3, <1>4, SeqOfElements
<1>6. \A j \in DOMAIN D : D[j].kind = "action"
  BY <1>4 DEF Envelope
<1>7. Delivered = D
  BY DEF Delivered, D, indices
<1> QED BY <1>5, <1>6, <1>7

\* A commit of the Host, and its delivery.
LEMMA HostCommitKeeps ==
  ASSUME IInv, HostCommit
  PROVE  IInv'
<1>1. HostInv /\ ClientTypes /\ Roles /\ GoodReplica(p) /\ Matched(up, down, threads)
  BY DEF IInv
<1>2. Commit /\ hostSubs' = hostSubs /\ down' = (IF link THEN down \o Delivered ELSE down)
      /\ UNCHANGED <<p, threads, tasks, up, mode, ready, recovering, recovery, buffered, link, gen>>
  BY DEF HostCommit, connVars
<1>3. HostInv' /\ Grows
  BY <1>1, <1>2, CommitsKeep
<1>4. GoodReplica(p)'
  BY <1>1, <1>2, <1>3, ReplicaStays
<1>5. /\ LoggedActions \subseteq LoggedActions' /\ GoodItems \subseteq GoodItems'
      /\ GoodTasks \subseteq GoodTasks'
  BY <1>1, <1>2, <1>3, GoodStay
<1>6. /\ tasks' \in Seq(GoodTasks') /\ down \in Seq(GoodItems') /\ buffered' \in Seq(LoggedActions')
  BY <1>1, <1>2, <1>5, SeqMonotone DEF ClientTypes
<1>7. /\ Delivered \in Seq(GoodItems') /\ \A i \in DOMAIN Delivered : Delivered[i].kind # "answer"
  <2>1. /\ Delivered \in Seq(LoggedActions')
        /\ \A i \in DOMAIN Delivered : Delivered[i].kind = "action"
    BY <1>1, <1>3, DeliveredIs
  <2>2. LoggedActions' \subseteq GoodItems'
    BY DEF GoodItems
  <2> QED BY <2>1, <2>2, SeqMonotone
<1>8. down' \in Seq(GoodItems')
  BY <1>2, <1>6, <1>7
<1>9. Matched(up, down, threads)'
  <2>1. Matched(up, down \o Delivered, threads)
    BY <1>1, <1>6, <1>7, MatchedActions
  <2> QED BY <1>1, <1>2, <2>1
<1>10. ClientTypes'
  BY <1>1, <1>2, <1>6, <1>8 DEF ClientTypes
<1>11. Roles'
  BY <1>1, <1>2 DEF Roles
<1> QED BY <1>3, <1>4, <1>9, <1>10, <1>11 DEF IInv

\* A snapshot the Host makes is what it published of the channel last.
LEMMA SnapshotsAreGood ==
  ASSUME HostInv, NEW channels, channels \subseteq Chan
  PROVE  /\ GoodSnapshots({Snapshot(ch) : ch \in Present(channels)})
         /\ Present(channels) \subseteq Chan /\ Missing(channels) \in Missable
<1>1. /\ Present(channels) \subseteq Chan
      /\ \A ch \in Present(channels) : ch \in {Catalog} \cup live
      /\ Missing(channels) \in Missable
  BY DEF Present, Missing, Exists, Missable
<1>2. ASSUME NEW ch \in Present(channels)
      PROVE  Snapshot(ch) \in SnapshotRecord /\ Had(Snapshot(ch).chan, Snapshot(ch).rev, Snapshot(ch).state)
  <2>1. /\ ch \in Chan /\ hostSeq \in Nat /\ revs[ch] \in Nat /\ stamps \in [Chan -> Nat]
    BY <1>1 DEF HostInv, HostTypes
  <2>2. CurrentState(ch) \in State
    BY <2>1, StateOfType DEF CurrentState
  <2>3. CurrentState(ch) = StateAt(ch, revs[ch])
    BY <1>1 DEF HostInv, Published
  <2>4. Snapshot(ch) \in SnapshotRecord
    BY <2>1, <2>2 DEF Snapshot, SnapshotRecord
  <2>5. Had(ch, revs[ch], CurrentState(ch))
    BY <2>1, <2>3 DEF Had
  <2> QED BY <2>4, <2>5 DEF Snapshot
<1> QED BY <1>1, <1>2 DEF GoodSnapshots

\* What a replay holds: retained actions, in order, and each that is due.
LEMMA ReplayAfterIs ==
  ASSUME HostInv, NEW last, NEW channels
  PROVE  LET R == ReplayAfter(last, channels)
             indices == {i \in DOMAIN replay : replay[i].seq > last /\ replay[i].chan \in Present(channels)}
         IN /\ R \in Seq(Envelope)
            /\ \A i \in indices : \E j \in DOMAIN R : R[j] = replay[i]
            /\ \A j \in DOMAIN R : \E i \in indices : R[j] = replay[i]
            /\ \A j, k \in DOMAIN R : j < k =>
                 \E i, l \in indices : i < l /\ R[j] = replay[i] /\ R[k] = replay[l]
<1> DEFINE indices == {i \in DOMAIN replay : replay[i].seq > last /\ replay[i].chan \in Present(channels)}
           R == ReplayAfter(last, channels)
<1>1. replay \in Seq(Envelope)
  BY DEF HostInv, HostTypes
<1>2. indices \in SUBSET (DOMAIN replay)
  OBVIOUS
<1>3. R = Subsequence(replay, indices)
  BY DEF ReplayAfter
<1> HIDE DEF indices, R
<1>4. /\ R \in Seq(Envelope)
      /\ \A i \in indices : \E j \in DOMAIN R : R[j] = replay[i]
      /\ \A j \in DOMAIN R : \E i \in indices : R[j] = replay[i]
      /\ \A j, k \in DOMAIN R : j < k =>
           \E i, l \in indices : i < l /\ R[j] = replay[i] /\ R[k] = replay[l]
  BY <1>1, <1>2, <1>3, SubsequenceOf
<1> QED BY <1>4 DEF indices, R

\* The replay buffer is the end of the log.
LEMMA ReplayIsLogged ==
  ASSUME HostInv
  PROVE  /\ Len(replay) \in Nat /\ Len(log) \in Nat /\ Len(replay) <= Len(log) /\ Len(replay) <= MaximumReplay
         /\ DOMAIN replay = 1 .. Len(replay) /\ DOMAIN log = 1 .. Len(log)
         /\ \A k \in DOMAIN replay : /\ Len(log) - Len(replay) + k \in DOMAIN log
                                     /\ replay[k] = log[Len(log) - Len(replay) + k]
                                     /\ replay[k].seq = Len(log) - Len(replay) + k
<1>1. log \in Seq(Envelope) /\ replay = Newest(log, MaximumReplay) /\ MaximumReplay \in Nat
  BY ReplayAssumption DEF HostInv, HostTypes, Retaining
<1>2. /\ replay \in Seq(Envelope)
      /\ Len(replay) = IF Len(log) <= MaximumReplay THEN Len(log) ELSE MaximumReplay
      /\ \A k \in 1 .. Len(replay) : replay[k] = log[Len(log) - Len(replay) + k]
  BY <1>1, NewestIs
<1>3. /\ Len(replay) \in Nat /\ Len(log) \in Nat /\ Len(replay) <= Len(log) /\ Len(replay) <= MaximumReplay
      /\ DOMAIN replay = 1 .. Len(replay) /\ DOMAIN log = 1 .. Len(log)
  BY <1>1, <1>2
<1>4. ASSUME NEW k \in DOMAIN replay
      PROVE  /\ Len(log) - Len(replay) + k \in DOMAIN log
             /\ replay[k] = log[Len(log) - Len(replay) + k]
             /\ replay[k].seq = Len(log) - Len(replay) + k
  <2>1. Len(log) - Len(replay) + k \in DOMAIN log
    BY <1>3
  <2>2. replay[k] = log[Len(log) - Len(replay) + k]
    BY <1>2, <1>3
  <2>3. log[Len(log) - Len(replay) + k].seq = Len(log) - Len(replay) + k
    BY <2>1 DEF HostInv, Numbered
  <2> QED BY <2>1, <2>2, <2>3
<1> QED BY <1>3, <1>4

\* Whatever the Host answers fits the question and holds what it published.
LEMMA ResultIsGood ==
  ASSUME HostInv, NEW req \in Req, hostSubs \subseteq Chan,
         NEW result, result = IF req.at = "reconnect" THEN ReconnectResult(req.last, req.channels)
                              ELSE SubscribedResult(req.channels)
  PROVE  /\ result \in Subscription \cup Replay \cup {Rejection}
         /\ GoodResult(result) /\ Fits(req.at, result)
         /\ SubscriptionsAfter(result, req.channels) \subseteq Chan
<1>1. req.channels \subseteq Chan /\ req.last \in Nat \cup {Unnoted} /\ req.last \in Int
  BY DEF Req, Unnoted
<1>2. /\ GoodSnapshots({Snapshot(ch) : ch \in Present(req.channels)})
      /\ Present(req.channels) \subseteq Chan /\ Missing(req.channels) \in Missable
  BY <1>1, SnapshotsAreGood
<1>3. hostSeq \in Nat
  BY DEF HostInv, HostTypes
<1> DEFINE snaps == {Snapshot(ch) : ch \in Present(req.channels)}
           R == ReplayAfter(req.last, req.channels)
<1>4. snaps \in SUBSET SnapshotRecord
  BY <1>2 DEF GoodSnapshots
<1>5. R \in Seq(Envelope) /\ \A j \in DOMAIN R : Logged(R[j])
  <2>1. R \in Seq(Envelope) /\ \A j \in DOMAIN R : \E i \in DOMAIN replay : R[j] = replay[i]
    BY ReplayAfterIs
  <2>2. \A i \in DOMAIN replay : Logged(replay[i])
    BY ReplayIsLogged DEF Logged
  <2> QED BY <2>1, <2>2
<1>6. SubscriptionsAfter(result, req.channels) \subseteq Chan
  BY <1>2 DEF SubscriptionsAfter
<1> HIDE DEF snaps, R
<1>7. ASSUME result \in {[kind |-> k, seq |-> hostSeq, snapshots |-> snaps,
                         missing |-> Missing(req.channels)] : k \in {"subscribed", "snapshots"}}
      PROVE  result \in Subscription \cup Replay \cup {Rejection} /\ GoodResult(result)
  <2>1. result \in Subscription /\ result.snapshots = snaps
    BY <1>2, <1>3, <1>4, <1>7 DEF Subscription
  <2>2. result.kind # "replay"
    BY <1>7
  <2>3. GoodResult(result)
    BY <1>2, <2>1, <2>2 DEF GoodResult, Replay, snaps
  <2> QED BY <2>1, <2>3
<1>8. ASSUME result = [kind |-> "replay", from |-> req.last, through |-> hostSeq, actions |-> R,
                       missing |-> Missing(req.channels)]
      PROVE  result \in Subscription \cup Replay \cup {Rejection} /\ GoodResult(result)
  <2>1. result \in Replay /\ result.actions = R
    BY <1>1, <1>2, <1>3, <1>5, <1>8 DEF Replay
  <2>2. result.kind = "replay"
    BY <1>8
  <2>3. GoodResult(result)
    BY <1>5, <2>1, <2>2 DEF GoodResult, Subscription
  <2> QED BY <2>1, <2>3
<1>9. ASSUME result = Rejection
      PROVE  result \in Subscription \cup Replay \cup {Rejection} /\ GoodResult(result)
  <2>1. result \notin Subscription /\ result \notin Replay
    BY <1>9 DEF Rejection, Subscription, Replay
  <2> QED BY <1>9, <2>1 DEF GoodResult
<1>10. CASE req.at # "reconnect"
  <2>1. result = [kind |-> "subscribed", seq |-> hostSeq, snapshots |-> snaps,
                  missing |-> Missing(req.channels)]
    BY <1>10 DEF SubscribedResult, snaps
  <2>2. Fits(req.at, result)
    BY <1>10, <2>1 DEF Fits
  <2> QED BY <1>6, <1>7, <2>1, <2>2
<1>11. CASE req.at = "reconnect"
  <2>1. result = ReconnectResult(req.last, req.channels)
    BY <1>11
  <2>2. \/ result = Rejection
        \/ result = [kind |-> "replay", from |-> req.last, through |-> hostSeq, actions |-> R,
                     missing |-> Missing(req.channels)]
        \/ result = [kind |-> "snapshots", seq |-> hostSeq, snapshots |-> snaps,
                     missing |-> Missing(req.channels)]
    BY <2>1 DEF ReconnectResult, Rejection, snaps, R
  <2>3. result.kind # "subscribed"
    BY <2>2 DEF Rejection
  <2>4. Fits(req.at, result)
    BY <1>11, <2>3 DEF Fits
  <2> QED BY <1>6, <1>7, <1>8, <1>9, <2>2, <2>4
<1> QED BY <1>10, <1>11

\* The Host answers a request.
LEMMA HandleRequestKeeps ==
  ASSUME IInv, HandleRequest
  PROVE  IInv'
<1> DEFINE req == Head(up)
           result == IF req.at = "reconnect" THEN ReconnectResult(req.last, req.channels)
                     ELSE SubscribedResult(req.channels)
           x == Answer(req.from, req.at, result)
<1>1. HostInv /\ ClientTypes /\ Roles /\ GoodReplica(p) /\ Matched(up, down, threads)
  BY DEF IInv
<1>2. /\ up # <<>> /\ hostSubs' = SubscriptionsAfter(result, req.channels)
      /\ down' = Append(down, x) /\ up' = Tail(up)
      /\ UNCHANGED <<hostState, p, threads, tasks, mode, ready, recovering, recovery, buffered, link, gen>>
  BY DEF HandleRequest, connVars
<1>3. req \in Req /\ Tail(up) \in Seq(Req)
  BY <1>1, <1>2, TailOf DEF ClientTypes
<1> HIDE DEF req
<1>4. /\ result \in Subscription \cup Replay \cup {Rejection}
      /\ GoodResult(result) /\ Fits(req.at, result)
      /\ SubscriptionsAfter(result, req.channels) \subseteq Chan
  <2>1. hostSubs \subseteq Chan
    BY <1>1 DEF ClientTypes
  <2> HIDE DEF result
  <2>2. result = IF req.at = "reconnect" THEN ReconnectResult(req.last, req.channels)
                 ELSE SubscribedResult(req.channels)
    BY DEF result
  <2> QED BY <1>1, <1>3, <2>1, <2>2, ResultIsGood
<1> HIDE DEF result
<1>5. /\ x \in Ans /\ x.kind = "answer" /\ x.to = req.from /\ x.at = req.at /\ x.result = result
  BY <1>3, <1>4 DEF Answer, Ans, Req
<1>6. x \in GoodItems
  BY <1>4, <1>5 DEF GoodItems
<1> HIDE DEF x
<1>7. HostInv' /\ Grows
  BY <1>1, <1>2, HostStays
<1>8. GoodReplica(p)'
  BY <1>1, <1>2, <1>7, ReplicaStays
<1>9. /\ LoggedActions \subseteq LoggedActions' /\ GoodItems \subseteq GoodItems'
      /\ GoodTasks \subseteq GoodTasks'
  BY <1>1, <1>2, <1>7, GoodStay
<1>10. down' \in Seq(GoodItems)
  BY <1>1, <1>2, <1>6 DEF ClientTypes
<1>11. /\ tasks' \in Seq(GoodTasks') /\ down' \in Seq(GoodItems') /\ buffered' \in Seq(LoggedActions')
  BY <1>1, <1>2, <1>9, <1>10, SeqMonotone DEF ClientTypes
<1>12. ClientTypes'
  BY <1>1, <1>2, <1>3, <1>4, <1>11 DEF ClientTypes
<1>13. Matched(up, down, threads)'
  <2>1. Matched(Tail(up), Append(down, x), threads)
    <3>1. up \in Seq(Req) /\ down \in Seq(GoodItems)
      BY <1>1 DEF ClientTypes
    <3>2. x.to = Head(up).from /\ x.at = Head(up).at /\ Fits(x.at, x.result)
      BY <1>4, <1>5 DEF req
    <3> QED BY <1>1, <1>2, <1>5, <3>1, <3>2, MatchedAnswer
  <2> QED BY <1>2, <2>1
<1>14. Roles'
  BY <1>1, <1>2 DEF Roles
<1> QED BY <1>7, <1>8, <1>12, <1>13, <1>14 DEF IInv


\* Whatever a thread resumes with, the replica stays authentic.
LEMMA ResumedGood ==
  ASSUME HostInv, GoodReplica(p), NEW thread \in Pending,
         NEW result \in Subscription \cup Replay \cup {Rejection}, GoodResult(result),
         Fits(thread.at, result), thread.at = "resync" => thread.env \in Envelope,
         thread.at = "reconnect" => HasState(p.red[Catalog])
  PROVE  GoodAnswer(p, Resumed(thread, result))
<1>1. /\ result \in Subscription => result.kind \in {"subscribed", "snapshots"}
      /\ result \in Replay => result.kind = "replay"
      /\ result = Rejection => result.kind = "rejected"
  BY DEF Subscription, Replay, Rejection
<1>2. thread.at \in Place
  BY DEF Pending
<1>3. CASE thread.at # "reconnect"
  <2>1. result \in Subscription /\ GoodSnapshots(result.snapshots)
    BY <1>1, <1>3 DEF Fits, GoodResult
  <2>2. CASE thread.at \in {"initialize", "refresh"}
    <3>1. Resumed(thread, result) = BaselineAnswer(p, result)
      BY <2>2 DEF Resumed
    <3> QED BY <2>1, <3>1, BaselineAnswerGood
  <2>3. CASE thread.at = "sessions"
    <3>1. Resumed(thread, result) = SessionsAnswer(p, thread.asked, result)
      BY <2>3 DEF Resumed
    <3> QED BY <2>1, <3>1, SessionsAnswerGood
  <2>4. CASE thread.at = "topology"
    <3>1. Resumed(thread, result) = TopologyAnswer(p, thread.asked, result)
      BY <2>4 DEF Resumed
    <3> QED BY <2>1, <3>1, TopologyAnswerGood
  <2>5. CASE thread.at = "resync"
    <3>1. Resumed(thread, result) = ResyncAnswer(p, thread.env, result)
      BY <2>5 DEF Resumed
    <3> QED BY <2>1, <2>5, <3>1, ResyncAnswerGood
  <2> QED BY <1>2, <1>3, <2>2, <2>3, <2>4, <2>5 DEF Place
<1>4. CASE thread.at = "reconnect"
  <2>1. Resumed(thread, result) = ReconnectAnswer(p, result)
    BY <1>4 DEF Resumed
  <2>2. \/ result \in Subscription /\ result.kind = "snapshots" /\ GoodSnapshots(result.snapshots)
        \/ result \in Replay /\ \A i \in DOMAIN result.actions : Logged(result.actions[i])
        \/ result = Rejection
    BY <1>1, <1>4 DEF Fits, GoodResult
  <2> QED BY <1>4, <2>1, <2>2, ReconnectAnswerGood
<1> QED BY <1>3, <1>4

\* A thread resumes with the answer it awaits.
LEMMA ReceiveAnswerKeeps ==
  ASSUME IInv, ReceiveAnswer
  PROVE  IInv'
<1> DEFINE x == Head(down)
           t == x.to
           thread == threads[t]
           out == Resumed(thread, x.result)
<1>1. HostInv /\ ClientTypes /\ Roles /\ GoodReplica(p) /\ Matched(up, down, threads)
  BY DEF IInv
<1>2. /\ down # <<>> /\ x.kind = "answer" /\ down' = Tail(down) /\ UNCHANGED hostVars
      /\ Proceed(t, thread.why, thread.env, out, tasks)
  BY DEF ReceiveAnswer
<1>3. x \in Ans /\ GoodResult(x.result) /\ Tail(down) \in Seq(GoodItems)
  <2>1. x \in GoodItems /\ Tail(down) \in Seq(GoodItems)
    BY <1>1, <1>2, TailOf DEF ClientTypes
  <2>2. \A a \in LoggedActions : a.kind = "action"
    <3>1. \A a \in LoggedActions : a \in Envelope
      BY <1>1, LoggedHad DEF LoggedActions, Logged
    <3> QED BY <3>1 DEF Envelope
  <2> QED BY <1>2, <2>1, <2>2 DEF GoodItems
<1>4. Matched(up, Tail(down), threads) /\ Quiet(t, up, Tail(down))
      /\ Asked(threads, t, x.at) /\ Fits(x.at, x.result)
  <2>1. down \in Seq(GoodItems)
    BY <1>1 DEF ClientTypes
  <2> QED BY <1>1, <1>2, <2>1, MatchedTail
<1>5. t \in Thread /\ x.result \in Subscription \cup Replay \cup {Rejection}
  BY <1>3 DEF Ans
<1> HIDE DEF x, t
<1>6. thread \in Pending /\ thread # Idle /\ thread.at = x.at
  BY <1>1, <1>4, <1>5 DEF Asked, ClientTypes
<1>7. /\ thread.at \in Place /\ thread.asked \subseteq Chan /\ thread.env \in Envelope \cup {NoAction}
      /\ thread.why \in {"initialize", "action", "refresh", "recover"}
  BY <1>6 DEF Pending
<1>8. t = "init" \/ t = "queue"
  BY <1>5 DEF Thread
<1>9. /\ t = "init" <=> thread.why = "initialize"
      /\ t = "init" => ~ready
      /\ thread.at = "reconnect" => HasState(p.red[Catalog])
      /\ thread.at = "resync" => thread.env \in Envelope
  BY <1>1, <1>5, <1>6, <1>8 DEF Roles
<1>10. GoodAnswer(p, out)
  <2> HIDE DEF thread
  <2> QED BY <1>1, <1>3, <1>4, <1>5, <1>6, <1>9, ResumedGood
<1> HIDE DEF thread, out
<1>11. Outcome(t, thread.env, out)
  BY <1>10 DEF GoodAnswer, GoodOut, Outcome, Place
<1>12. Resumes(t, thread.why, thread.env, tasks)
  BY <1>1, <1>2, <1>3, <1>4, <1>5, <1>7, <1>9 DEF Resumes, ClientTypes
<1> QED BY <1>2, <1>11, <1>12, ProceedKeeps

\* Steps that leave the Host, the replica and the requests alone.
LEMMA QuietStepKeeps ==
  ASSUME IInv, UNCHANGED <<hostVars, p, up, ready>>,
         threads' = threads, down' \in Seq(GoodItems), Matched(up, down', threads),
         tasks' \in Seq(GoodTasks), buffered' \in Seq(LoggedActions), Len(buffered') <= MaxBuffered,
         mode' \in {mode, "connected", "disposed"}, recovering' \in BOOLEAN, link' \in BOOLEAN,
         gen' = gen, recovery' \in 0 .. gen
  PROVE  IInv'
<1>1. HostInv /\ ClientTypes /\ Roles /\ GoodReplica(p)
  BY DEF IInv
<1>2. HostInv' /\ Grows
  BY <1>1, HostStays DEF hostVars
<1>3. GoodReplica(p)'
  BY <1>1, <1>2, ReplicaStays
<1>4. /\ LoggedActions \subseteq LoggedActions' /\ GoodItems \subseteq GoodItems'
      /\ GoodTasks \subseteq GoodTasks'
  BY <1>1, <1>2, GoodStay
<1>5. /\ tasks' \in Seq(GoodTasks') /\ down' \in Seq(GoodItems') /\ buffered' \in Seq(LoggedActions')
  BY <1>4, SeqMonotone
<1>6. ClientTypes'
  BY <1>1, <1>5 DEF ClientTypes, hostVars
<1>7. Matched(up, down, threads)'
  OBVIOUS
<1>8. Roles'
  BY <1>1 DEF Roles
<1> QED BY <1>2, <1>3, <1>6, <1>7, <1>8 DEF IInv

\* An action is queued, buffered, or one too many.
LEMMA ReceiveActionKeeps ==
  ASSUME IInv, ReceiveAction
  PROVE  IInv'
<1>1. HostInv /\ ClientTypes /\ Roles /\ GoodReplica(p) /\ Matched(up, down, threads)
  BY DEF IInv
<1>2. down # <<>> /\ Head(down).kind = "action" /\ down' = Tail(down)
      /\ UNCHANGED <<hostVars, p, threads, up, ready, recovering, recovery, link, gen>>
  BY DEF ReceiveAction
<1>3. /\ tasks \in Seq(GoodTasks) /\ buffered \in Seq(LoggedActions) /\ Len(buffered) <= MaxBuffered
      /\ down \in Seq(GoodItems) /\ recovering \in BOOLEAN /\ link \in BOOLEAN /\ recovery \in 0 .. gen
  BY <1>1 DEF ClientTypes
<1>4. Head(down) \in GoodItems /\ Tail(down) \in Seq(GoodItems)
  BY <1>2, <1>3, TailOf
<1>5. Head(down) \in LoggedActions
  BY <1>2, <1>4 DEF GoodItems, Ans
<1>6. Matched(up, down', threads)
  BY <1>1, <1>2, <1>3, MatchedTail
<1>7. ActionTask(Head(down)) \in GoodTasks
  <2>1. Logged(Head(down))
    BY <1>5 DEF LoggedActions, Logged
  <2>2. Head(down) \in Envelope
    BY <1>1, <2>1, LoggedHad
  <2>3. ActionTask(Head(down)) \in TaskRecord
    BY <2>2 DEF ActionTask, TaskRecord
  <2> QED BY <2>1, <2>3 DEF GoodTasks, ActionTask
<1>8. /\ tasks' \in Seq(GoodTasks) /\ buffered' \in Seq(LoggedActions) /\ Len(buffered') <= MaxBuffered
      /\ mode' \in {mode, "disposed"}
  <2>1. CASE mode = "connected"
    <3>1. tasks' = Append(tasks, ActionTask(Head(down))) /\ buffered' = buffered /\ mode' = mode
      BY <2>1 DEF ReceiveAction
    <3> QED BY <1>3, <1>7, <3>1
  <2>2. CASE mode # "connected" /\ Len(buffered) = MaxBuffered
    <3>1. tasks' = tasks /\ buffered' = <<>> /\ mode' = "disposed"
      BY <2>2 DEF ReceiveAction
    <3>2. <<>> \in Seq(LoggedActions) /\ Len(<<>>) = 0
      OBVIOUS
    <3> QED BY <1>3, <3>1, <3>2, BufferAssumption
  <2>3. CASE mode # "connected" /\ Len(buffered) # MaxBuffered
    <3>1. tasks' = tasks /\ buffered' = Append(buffered, Head(down)) /\ mode' = mode
      BY <2>3 DEF ReceiveAction
    <3>2. buffered' \in Seq(LoggedActions) /\ Len(buffered') = Len(buffered) + 1 /\ Len(buffered) \in Nat
      BY <1>3, <1>5, <3>1
    <3>3. MaxBuffered \in Nat
      BY BufferAssumption
    <3>4. Len(buffered') <= MaxBuffered
      BY <1>3, <2>3, <3>2, <3>3
    <3> QED BY <1>3, <3>1, <3>2, <3>4
  <2> QED BY <2>1, <2>2, <2>3
<1> QED BY <1>2, <1>3, <1>4, <1>6, <1>8, QuietStepKeeps

\* A refresh is queued.
LEMMA RequestRefreshKeeps ==
  ASSUME IInv, RequestRefresh
  PROVE  IInv'
<1>1. ClientTypes /\ Matched(up, down, threads)
  BY DEF IInv
<1>2. tasks' = Append(tasks, Task("refresh"))
      /\ UNCHANGED <<hostVars, p, threads, up, down, mode, ready, recovering, recovery, buffered, link, gen>>
  BY DEF RequestRefresh
<1>3. Task("refresh") \in GoodTasks
  <2>1. Task("refresh") \in TaskRecord
    BY DEF Task, TaskRecord
  <2> QED BY <2>1 DEF GoodTasks, Task
<1>4. tasks' \in Seq(GoodTasks)
  BY <1>1, <1>2, <1>3 DEF ClientTypes
<1> QED BY <1>1, <1>2, <1>4, QuietStepKeeps DEF ClientTypes

\* A restored transport queues the recovery.
LEMMA RestoreKeeps ==
  ASSUME IInv, Restore
  PROVE  IInv'
<1>1. ClientTypes /\ Matched(up, down, threads) /\ Roles
  BY DEF IInv
<1>2. /\ mode = "restoring" /\ link' = TRUE /\ recovery' = gen
      /\ tasks' = Append(tasks, RecoverTask(gen))
      /\ UNCHANGED <<hostVars, p, threads, up, down, mode, ready, recovering, buffered, gen>>
  BY DEF Restore
<1>3. gen \in Nat /\ ready
  BY <1>1, <1>2 DEF ClientTypes, Roles
<1>4. RecoverTask(gen) \in GoodTasks
  <2>1. RecoverTask(gen) \in TaskRecord
    BY <1>3 DEF RecoverTask, TaskRecord
  <2> QED BY <1>3, <2>1 DEF GoodTasks, RecoverTask
<1>5. tasks' \in Seq(GoodTasks) /\ recovery' \in 0 .. gen
  BY <1>1, <1>2, <1>3, <1>4 DEF ClientTypes
<1> QED BY <1>1, <1>2, <1>5, QuietStepKeeps DEF ClientTypes

\* An interruption ends every thread together with what it awaits.
LEMMA InterruptKeeps ==
  ASSUME IInv, Interrupt
  PROVE  IInv'
<1>1. HostInv /\ ClientTypes /\ Roles /\ GoodReplica(p)
  BY DEF IInv
<1>2. /\ link' = FALSE /\ gen' = gen + 1 /\ up' = <<>> /\ down' = <<>> /\ buffered' = <<>>
      /\ threads' = [t \in DOMAIN threads |-> Idle]
      /\ mode' = (IF ready THEN "restoring" ELSE "disposed")
      /\ recovering' = TRUE /\ recovery' = 0
      /\ UNCHANGED <<hostVars, p, tasks, ready>>
  BY DEF Interrupt
<1>3. HostInv' /\ Grows
  BY <1>1, <1>2, HostStays DEF hostVars
<1>4. GoodReplica(p)'
  BY <1>1, <1>2, <1>3, ReplicaStays
<1>5. GoodTasks \subseteq GoodTasks'
  BY <1>1, <1>2, <1>3, GoodStay
<1>6. tasks' \in Seq(GoodTasks')
  BY <1>1, <1>2, <1>5, SeqMonotone DEF ClientTypes
<1>7. threads' = [t \in Thread |-> Idle]
  BY <1>1, <1>2 DEF ClientTypes
<1>8. <<>> \in Seq(GoodItems') /\ <<>> \in Seq(LoggedActions') /\ <<>> \in Seq(Req) /\ Len(<<>>) = 0
      /\ DOMAIN <<>> = {}
  OBVIOUS
<1>9. gen' \in Nat /\ recovery' \in 0 .. gen' /\ Len(buffered') <= MaxBuffered
  BY <1>1, <1>2, <1>8, BufferAssumption DEF ClientTypes
<1>10. ClientTypes'
  BY <1>1, <1>2, <1>6, <1>7, <1>8, <1>9 DEF ClientTypes, hostVars
<1>11. Matched(up, down, threads)'
  BY <1>2, <1>8 DEF Matched
<1>12. Roles'
  <2>1. threads'["init"] = Idle /\ threads'["queue"] = Idle /\ \A t \in Thread : threads'[t] = Idle
    BY <1>7 DEF Thread
  <2> QED BY <1>1, <1>2, <2>1 DEF Roles
<1> QED BY <1>3, <1>4, <1>10, <1>11, <1>12 DEF IInv

\* The Sequencer starts a task.
LEMMA RunTaskKeeps ==
  ASSUME IInv, RunTask
  PROVE  IInv'
<1> DEFINE task == Head(tasks)
           rest == Tail(tasks)
<1>1. HostInv /\ ClientTypes /\ Roles /\ GoodReplica(p) /\ Matched(up, down, threads)
  BY DEF IInv
<1>2. tasks # <<>> /\ threads["queue"] = Idle /\ UNCHANGED hostVars /\ down' = down
  BY DEF RunTask
<1>3. task \in GoodTasks /\ rest \in Seq(GoodTasks)
  BY <1>1, <1>2, TailOf DEF ClientTypes
<1>4. /\ task.kind \in {"action", "refresh", "recover", "complete"}
      /\ task.kind = "action" => Logged(task.env)
      /\ task.kind = "recover" => ready
  BY <1>3 DEF GoodTasks, TaskRecord
<1>5. Quiet("queue", up, down)
  <2> QED BY <1>1, <1>2 DEF Matched, Quiet, Asked
<1>6. ASSUME NEW why \in {"action", "refresh", "recover"}, NEW env \in Envelope \cup {NoAction}
      PROVE  Resumes("queue", why, env, rest)
  BY <1>1, <1>2, <1>3, <1>5 DEF Resumes, ClientTypes, Thread
<1>7. NoAction \in Envelope \cup {NoAction} /\ p.subs \subseteq Chan
  BY <1>1 DEF GoodReplica
<1> HIDE DEF task, rest
<1>8. CASE task.kind = "action"
  <2>1. Proceed("queue", "action", task.env, LiveAction(p, task.env), rest)
    BY <1>8 DEF RunTask, task, rest
  <2>2. task.env \in Envelope /\ GoodOut(p, LiveAction(p, task.env))
    BY <1>1, <1>4, <1>8, LoggedHad, LiveActionGood
  <2>3. Outcome("queue", task.env, LiveAction(p, task.env))
    BY <2>2 DEF GoodOut, Outcome, Place
  <2> QED BY <1>6, <2>1, <2>2, <2>3, ProceedKeeps
<1>9. CASE task.kind = "refresh"
  <2> DEFINE out == Ask(p, "refresh", p.subs)
  <2>1. Proceed("queue", "refresh", NoAction, out, rest)
    BY <1>9 DEF RunTask, task, rest
  <2>2. Outcome("queue", NoAction, out)
    BY <1>1, <1>7 DEF Outcome, Ask, Place
  <2> QED BY <1>6, <1>7, <2>1, <2>2, ProceedKeeps
<1>10. CASE task.kind = "recover" /\ Current(task.gen)
  <2> DEFINE out == Ask(p, "reconnect", p.subs)
  <2>1. Proceed("queue", "recover", NoAction, out, rest)
    BY <1>10 DEF RunTask, task, rest
  <2>2. Outcome("queue", NoAction, out)
    BY <1>1, <1>4, <1>7, <1>10 DEF Outcome, Ask, Place
  <2> QED BY <1>6, <1>7, <2>1, <2>2, ProceedKeeps
<1>11. CASE (task.kind = "recover" /\ ~Current(task.gen)) \/ task.kind = "complete"
  <2>1. /\ tasks' = rest /\ UNCHANGED <<p, threads, up, mode, ready, buffered, link, gen>>
        /\ recovering' \in {recovering, FALSE} /\ recovery' \in {recovery, 0}
    BY <1>4, <1>11 DEF RunTask, task, rest, connVars
  <2>2. /\ down' \in Seq(GoodItems) /\ Matched(up, down', threads) /\ tasks' \in Seq(GoodTasks)
        /\ buffered' \in Seq(LoggedActions) /\ Len(buffered') <= MaxBuffered
        /\ recovering' \in BOOLEAN /\ link' \in BOOLEAN /\ recovery' \in 0 .. gen
    <3>1. recovery' \in 0 .. gen /\ recovering' \in BOOLEAN
      <4>1. gen \in Nat /\ recovery \in 0 .. gen /\ recovering \in BOOLEAN
        BY <1>1 DEF ClientTypes
      <4>2. recovery' \in {recovery, 0} /\ recovering' \in {recovering, FALSE}
        BY <2>1
      <4>3. recovery' \in 0 .. gen
        BY ONLY <4>1, <4>2
      <4>4. recovering' \in BOOLEAN
        BY ONLY <4>1, <4>2
      <4> QED BY <4>3, <4>4
    <3>2. Matched(up, down', threads)
      BY <1>1, <1>2
    <3> QED BY <1>1, <1>2, <1>3, <2>1, <3>1, <3>2 DEF ClientTypes
  <2> QED BY <1>2, <2>1, <2>2, QuietStepKeeps
<1> QED BY <1>4, <1>8, <1>9, <1>10, <1>11

\* The first client begins to initialize.
LEMMA InitIsGood ==
  ASSUME Init
  PROVE  IInv
<1>1. /\ hostSeq = 0 /\ revs = [ch \in Chan |-> IF ch \in InitialLive THEN 1 ELSE 0]
      /\ live = InitialLive /\ stamps = [ch \in Chan |-> 0] /\ replay = <<>> /\ hostSubs = {}
      /\ commits = 0 /\ log = <<>>
  BY DEF Init, HostInit
<1>2. <<>> \in Seq(Envelope) /\ Len(<<>>) = 0 /\ DOMAIN <<>> = {} /\ <<>> \in Seq(GoodTasks)
      /\ <<>> \in Seq(LoggedActions) /\ <<>> \in Seq(GoodItems)
  OBVIOUS
<1>3. HostInv
  <2>1. HostTypes
    BY <1>1, <1>2, InitialAssumption DEF HostTypes
  <2>2. Numbered
    BY <1>1, <1>2 DEF Numbered
  <2>3. Published
    <3>1. \A ch : StateAt(ch, revs[ch]) = InitialState(ch)
      BY <1>1, <1>2 DEF StateAt
    <3>2. \A ch : CurrentState(ch) = InitialState(ch)
      BY <1>1 DEF CurrentState, InitialState
    <3> QED BY <3>1, <3>2 DEF Published
  <2>4. Retaining
    BY <1>1, <1>2, ReplayAssumption DEF Retaining, Newest
  <2>5. Rooted
    <3>1. \A ch \in Chan : ch \in Known <=> ch = Catalog \/ ch \in InitialLive
      BY <1>1 DEF Known
    <3>2. live \subseteq Chan /\ live = InitialLive /\ \A c \in Chat : c \in Chan /\ Home[c] \in Chan
      BY <1>1, InitialAssumption, Distinct
    <3> QED BY <3>1, <3>2, InitialAssumption, Distinct DEF Rooted
  <2>6. Aging
    <3>1. ASSUME NEW ch, NEW rev
          PROVE  /\ StateAt(ch, rev) = InitialState(ch) /\ InitialState(ch).stamp = [k \in Chan |-> 0][ch]
                 /\ Children(InitialState(ch)) \subseteq InitialLive
      BY <1>1, <1>2 DEF StateAt, InitialState, StateOf, Children, ListedIn
    <3>2. \A ch \in Chan : [k \in Chan |-> 0][ch] = 0
      OBVIOUS
    <3>3. InitialLive \subseteq Known /\ 0 \in 0 .. commits
      BY <1>1, <2>5 DEF Rooted
    <3> QED BY <3>1, <3>2, <3>3 DEF Aging
  <2> QED BY <2>1, <2>2, <2>3, <2>4, <2>5, <2>6 DEF HostInv
<1>4. GoodReplica(p)
  <2>1. p = NewReplica
    BY DEF Init
  <2>2. NewReducer \in ReducerRecord /\ ~HasState(NewReducer)
    BY DEF NewReducer, ReducerRecord, HasState
  <2>3. GoodReducers([ch \in {Catalog} |-> NewReducer])
    BY <2>2, Distinct DEF GoodReducers
  <2>4. GoodShown([ch \in {} |-> NoState]) /\ DOMAIN [ch \in {} |-> NoState] = {}
    BY DEF GoodShown
  <2> QED BY <2>1, <2>3, <2>4 DEF GoodReplica, NewReplica
<1> DEFINE x == Awaiting("initialize", "initialize", {Catalog}, NoAction)
           q == Request("init", "initialize", {Catalog}, Unnoted)
<1>5. /\ threads = [init |-> x, queue |-> Idle] /\ up = <<q>> /\ down = <<>>
      /\ tasks = <<>> /\ buffered = <<>> /\ mode = "connected" /\ ready = FALSE
      /\ recovering = FALSE /\ recovery = 0 /\ link = TRUE /\ gen = 1
  BY DEF Init
<1>6. /\ x \in Pending /\ x.why = "initialize" /\ x.at = "initialize" /\ x # Idle
      /\ q \in Req /\ q.from = "init" /\ q.at = "initialize"
  <2>1. x \in Pending /\ x.why = "initialize" /\ x.at = "initialize"
    BY Distinct DEF Awaiting, Pending, Place
  <2>2. q \in Req /\ q.from = "init" /\ q.at = "initialize"
    BY Distinct DEF Request, Req, Thread, Place
  <2>3. Idle.why = "idle"
    BY DEF Idle
  <2> QED BY <2>1, <2>2, <2>3
<1> HIDE DEF x, q
<1>7. threads["init"] = x /\ threads["queue"] = Idle /\ threads \in [Thread -> {Idle} \cup Pending]
  <2>1. threads = [k \in {"init", "queue"} |-> IF k = "init" THEN x ELSE Idle]
    BY <1>5
  <2> QED BY <1>6, <2>1 DEF Thread
<1>8. ClientTypes
  <2>1. up \in Seq(Req)
    BY <1>5, <1>6
  <2>2. Len(buffered) <= MaxBuffered
    BY <1>2, <1>5, BufferAssumption
  <2>3. recovery \in 0 .. gen /\ gen \in Nat /\ hostSubs \subseteq Chan
    BY <1>1, <1>5
  <2>4. tasks \in Seq(GoodTasks) /\ buffered \in Seq(LoggedActions) /\ down \in Seq(GoodItems)
    BY <1>2, <1>5
  <2> QED BY <1>5, <1>7, <2>1, <2>2, <2>3, <2>4 DEF ClientTypes
<1>9. Matched(up, down, threads)
  <2>1. DOMAIN up = {1} /\ up[1] = q
    BY <1>5
  <2> QED BY <1>2, <1>5, <1>6, <1>7, <2>1 DEF Matched, Asked
<1>10. Roles
  BY <1>5, <1>6, <1>7 DEF Roles, Thread
<1> QED BY <1>3, <1>4, <1>8, <1>9, <1>10 DEF IInv

\* The invariant holds in every behaviour of the Host and its client.
THEOREM InductiveInvariant == Spec => []IInv
<1>1. Init => IInv
  BY InitIsGood
<1>2. IInv /\ [Next]_vars => IInv'
  <2> SUFFICES ASSUME IInv, [Next]_vars PROVE IInv'
    OBVIOUS
  <2>1. CASE UNCHANGED vars
    <3>1. UNCHANGED <<hostVars, p, threads, tasks, up, down, connVars>>
      BY <2>1 DEF vars
    <3> QED BY <3>1, QuietStepKeeps DEF IInv, ClientTypes, connVars
  <2> QED BY <2>1, HostCommitKeeps, HandleRequestKeeps, ReceiveActionKeeps, ReceiveAnswerKeeps,
             RunTaskKeeps, RequestRefreshKeeps, InterruptKeeps, RestoreKeeps DEF Next
<1> QED BY <1>1, <1>2, PTL DEF Spec

\* The replica, the threads and what is in flight are type-correct, and neither
\* buffer exceeds its limit (maximumReplayActions, maximumBufferedActions).
THEOREM TypeCorrect == Spec => []TypeOK
<1>1. IInv => TypeOK
  <2> SUFFICES ASSUME IInv PROVE TypeOK
    OBVIOUS
  <2>1. HostInv /\ ClientTypes /\ GoodReplica(p)
    BY DEF IInv
  <2>2. Len(replay) <= MaximumReplay
    BY <2>1, ReplayIsLogged
  <2>3. hostSeq \in Nat /\ live \subseteq Session \cup Chat
    BY <2>1 DEF HostInv, HostTypes
  <2>4. /\ Catalog \in DOMAIN p.red /\ DOMAIN p.red \subseteq Chan
        /\ p.subs \subseteq Chan /\ p.last \in Nat \cup {Unnoted}
        /\ DOMAIN p.shown \subseteq Session \cup Chat
    BY <2>1 DEF GoodReplica, GoodReducers, GoodShown
  <2> QED BY <2>1, <2>2, <2>3, <2>4 DEF TypeOK, ClientTypes
<1> QED BY <1>1, InductiveInvariant, PTL

\* Whatever is interrupted, lost, answered late or overtaken by a commit, the
\* client never holds or shows a state its channel did not have, nor a revision
\* the Host has not reached (AgentHostSessionsProvider, for every bound).
THEOREM AlwaysAuthentic == Spec => []ReplicaAuthentic
<1>1. IInv => ReplicaAuthentic
  <2> SUFFICES ASSUME IInv PROVE ReplicaAuthentic
    OBVIOUS
  <2>1. HostInv /\ GoodReplica(p)
    BY DEF IInv
  <2>2. ASSUME NEW ch \in DOMAIN p.red, HasState(p.red[ch])
        PROVE  p.red[ch].rev <= revs[ch] /\ p.red[ch].state = StateAt(ch, p.red[ch].rev)
    <3>1. Had(ch, p.red[ch].rev, p.red[ch].state) /\ ch \in Chan
      BY <2>1, <2>2 DEF GoodReplica, GoodReducers
    <3>2. revs[ch] \in Nat
      BY <2>1, <3>1 DEF HostInv, HostTypes
    <3> QED BY <3>1, <3>2 DEF Had
  <2>3. \A ch \in DOMAIN p.shown : \E rev \in 0 .. revs[ch] : p.shown[ch] = StateAt(ch, rev)
    BY <2>1 DEF GoodReplica, GoodShown
  <2> QED BY <2>2, <2>3 DEF ReplicaAuthentic
<1> QED BY <1>1, InductiveInvariant, PTL

-----------------------------------------------------------------------------
(* Replays are complete *)

\* What a replay owes the client, and that it holds just that, in order.
Due(r) == {j \in DOMAIN log : log[j].seq > r.from /\ log[j].seq <= r.through /\ log[j].chan \in hostSubs}

\* A replay holds exactly what is due, in the order it was published.
Complete(r) ==
  /\ {r.actions[j] : j \in DOMAIN r.actions} = {log[j] : j \in Due(r)}
  /\ \A j, k \in DOMAIN r.actions : j < k => r.actions[j].seq < r.actions[k].seq

\* Every replay in flight is complete.
Replays ==
  \A i \in DOMAIN down :
    down[i].kind = "answer" /\ down[i].result.kind = "replay"
      => down[i].result.through <= Len(log) /\ Complete(down[i].result)

\* The answers in flight, when the Host adds one.
LEMMA AnswersAre ==
  ASSUME IInv, NEW i \in DOMAIN down, down[i].kind = "answer"
  PROVE  down[i] \in Ans /\ (down[i].result.kind = "replay" => down[i].result \in Replay)
<1>1. down \in Seq(GoodItems) /\ HostInv
  BY DEF IInv, ClientTypes
<1>2. \A a \in LoggedActions : a \in Envelope
  BY <1>1, LoggedHad DEF LoggedActions, Logged
<1>3. \A a \in LoggedActions : a.kind = "action"
  BY <1>2 DEF Envelope
<1>4. down[i] \in GoodItems
  BY <1>1
<1>5. down[i] \in Ans
  BY <1>3, <1>4 DEF GoodItems
<1>6. down[i].result.kind = "replay" => down[i].result \in Replay
  BY <1>5 DEF Ans, Subscription, Rejection
<1> QED BY <1>5, <1>6

\* While the answer to a reconnect is on its way nothing else is asked: the
\* Sequencer waits for it and the initialization is over.
LEMMA ReplayIsAlone ==
  ASSUME IInv, NEW i \in DOMAIN down, down[i].kind = "answer", down[i].result.kind = "replay"
  PROVE  up = <<>>
<1>1. Matched(up, down, threads) /\ Roles /\ up \in Seq(Req)
  BY DEF IInv, ClientTypes
<1>2. down[i] \in Ans
  BY AnswersAre
<1>3. down[i].to \in Thread
  BY <1>2 DEF Ans
<1>4. Asked(threads, down[i].to, "reconnect")
  BY <1>1 DEF Matched, Fits
<1>5. down[i].to = "queue" /\ ready
  BY <1>1, <1>3, <1>4 DEF Roles, Asked, Thread
<1>6. threads["init"] = Idle
  BY <1>1, <1>5 DEF Roles
<1> SUFFICES ASSUME up # <<>> PROVE FALSE
  OBVIOUS
<1>7. up[1] \in Req /\ 1 \in DOMAIN up
  BY <1>1
<1>8. up[1].from \in Thread
  BY <1>7 DEF Req
<1>9. Asked(threads, up[1].from, up[1].at) /\ up[1].from # down[i].to
  BY <1>1, <1>7 DEF Matched
<1> QED BY <1>5, <1>6, <1>8, <1>9 DEF Asked, Thread

\* A retained buffer holds every action after the client's Host sequence.
LEMMA FreshReplay ==
  ASSUME HostInv, NEW last \in Int, NEW channels, Retained(last)
  PROVE  LET R == ReplayAfter(last, channels)
             due == {j \in DOMAIN log : log[j].seq > last /\ log[j].seq <= hostSeq
                                        /\ log[j].chan \in Present(channels)}
         IN /\ {R[j] : j \in DOMAIN R} = {log[j] : j \in due}
            /\ \A j, k \in DOMAIN R : j < k => R[j].seq < R[k].seq
<1> DEFINE R == ReplayAfter(last, channels)
           due == {j \in DOMAIN log : log[j].seq > last /\ log[j].seq <= hostSeq
                                      /\ log[j].chan \in Present(channels)}
           indices == {i \in DOMAIN replay : replay[i].seq > last /\ replay[i].chan \in Present(channels)}
           d == Len(log) - Len(replay)
<1>1. /\ \A i \in indices : \E j \in DOMAIN R : R[j] = replay[i]
      /\ \A j \in DOMAIN R : \E i \in indices : R[j] = replay[i]
      /\ \A j, k \in DOMAIN R : j < k => \E i, l \in indices : i < l /\ R[j] = replay[i] /\ R[k] = replay[l]
  BY ReplayAfterIs
<1> HIDE DEF R
<1>2. /\ Len(replay) \in Nat /\ Len(log) \in Nat /\ Len(replay) <= Len(log)
      /\ DOMAIN replay = 1 .. Len(replay) /\ DOMAIN log = 1 .. Len(log)
      /\ \A k \in DOMAIN replay : /\ d + k \in DOMAIN log /\ replay[k] = log[d + k] /\ replay[k].seq = d + k
  BY ReplayIsLogged
<1>3. hostSeq = Len(log) /\ \A j \in DOMAIN log : log[j].seq = j
  BY DEF HostInv, Numbered
<1>4. d \in Nat
  BY <1>2
<1> HIDE DEF d
<1>5. ASSUME NEW j \in DOMAIN R PROVE \E k \in due : R[j] = log[k]
  <2>1. PICK i \in indices : R[j] = replay[i]
    BY <1>1
  <2>2. d + i \in DOMAIN log /\ replay[i] = log[d + i] /\ replay[i].seq = d + i /\ log[d + i].seq = d + i
    BY <1>2, <1>3
  <2>3. d + i <= hostSeq
    BY <1>2, <1>3, <2>2
  <2>4. d + i \in due
    BY <2>2, <2>3
  <2> QED BY <2>1, <2>2, <2>4
<1>6. ASSUME NEW j \in due PROVE \E k \in DOMAIN R : R[k] = log[j]
  <2>1. j \in 1 .. Len(log) /\ j > last /\ log[j].seq = j
    BY <1>2, <1>3
  <2>2. j > d
    <3>1. CASE last = hostSeq
      BY <2>1, <3>1, <1>2, <1>3
    <3>2. CASE replay # <<>> /\ last >= replay[1].seq - 1
      <4>1. 1 \in DOMAIN replay
        <5>1. Len(replay) # 0
          BY <3>2 DEF HostInv, HostTypes
        <5> QED BY <5>1, <1>2
      <4>2. replay[1].seq = d + 1
        BY <1>2, <4>1
      <4> QED BY <2>1, <3>2, <4>2, <1>4
    <3> QED BY <3>1, <3>2 DEF Retained
  <2>3. j - d \in DOMAIN replay /\ d + (j - d) = j
    <3>1. j - d \in 1 .. Len(replay)
      BY <1>2, <1>4, <2>1, <2>2 DEF d
    <3> QED BY <1>2, <1>4, <2>1, <3>1
  <2>4. replay[j - d] = log[j]
    BY <1>2, <2>3
  <2>5. j - d \in indices
    BY <2>1, <2>3, <2>4
  <2> QED BY <1>1, <2>4, <2>5
<1>7. {R[j] : j \in DOMAIN R} = {log[j] : j \in due}
  <2> HIDE DEF due
  <2> QED BY <1>5, <1>6
<1>8. ASSUME NEW j \in DOMAIN R, NEW k \in DOMAIN R, j < k PROVE R[j].seq < R[k].seq
  <2>1. PICK i \in indices, l \in indices : i < l /\ R[j] = replay[i] /\ R[k] = replay[l]
    BY <1>1, <1>8
  <2>2. replay[i].seq = d + i /\ replay[l].seq = d + l /\ i \in Nat /\ l \in Nat
    BY <1>2
  <2> QED BY <1>4, <2>1, <2>2
<1> QED BY <1>7, <1>8 DEF R

\* A replay stays complete while the history grows: it ends at a sequence the
\* Host had reached.
LEMMA CompleteStays ==
  ASSUME HostInv, HostInv', Grows, hostSubs' = hostSubs, NEW r, r.through \in Nat,
         r.through <= Len(log), Complete(r)
  PROVE  r.through <= Len(log') /\ Complete(r)'
<1>1. /\ Len(log) \in Nat /\ DOMAIN log = 1 .. Len(log) /\ Len(log') \in Nat /\ DOMAIN log' = 1 .. Len(log')
      /\ \A j \in DOMAIN log' : log'[j].seq = j
  BY DEF HostInv, HostTypes, Numbered
<1>2. Len(log) <= Len(log') /\ \A j \in DOMAIN log : log'[j] = log[j] /\ j \in DOMAIN log'
  BY DEF Grows
<1> DEFINE D == Due(r)
           E == {j \in DOMAIN log' : log'[j].seq > r.from /\ log'[j].seq <= r.through
                                     /\ log'[j].chan \in hostSubs'}
<1>3. \A j \in E : j \in DOMAIN log
  BY <1>1, <1>2
<1>4. D = E
  BY <1>1, <1>2, <1>3 DEF Due
<1>5. D \subseteq DOMAIN log
  BY DEF Due
<1>6. Due(r)' = E
  BY DEF Due
<1> HIDE DEF D, E
<1>7. {log[j] : j \in D} = {log'[j] : j \in E}
  BY <1>2, <1>4, <1>5
<1>8. Complete(r)'
  BY <1>6, <1>7 DEF Complete, D
<1> QED BY <1>1, <1>2, <1>8

\* Replays in flight stay complete when the subscriptions do not change.
LEMMA ReplaysStay ==
  ASSUME IInv, HostInv', Grows, Replays, hostSubs' = hostSubs,
         \A i \in DOMAIN down' : down'[i].kind = "answer" => \E k \in DOMAIN down : down'[i] = down[k]
  PROVE  Replays'
<1>1. HostInv
  BY DEF IInv
<1> SUFFICES ASSUME NEW i \in DOMAIN down', down'[i].kind = "answer", down'[i].result.kind = "replay"
             PROVE  (down[i].result.through <= Len(log) /\ Complete(down[i].result))'
  BY DEF Replays
<1>2. PICK k \in DOMAIN down : down'[i] = down[k]
  OBVIOUS
<1>3. PICK r : r = down[k].result
  OBVIOUS
<1>4. r.through \in Nat
  <2>1. r \in Replay
    BY <1>2, <1>3, AnswersAre
  <2> QED BY <2>1 DEF Replay
<1>5. r.through <= Len(log) /\ Complete(r)
  BY <1>2, <1>3 DEF Replays
<1>6. r.through <= Len(log') /\ Complete(r)'
  BY <1>1, <1>4, <1>5, CompleteStays
<1>7. r = down'[i].result
  BY <1>2, <1>3
<1> QED BY <1>6, <1>7


\* The Host answers with a complete replay, and changes the subscriptions only
\* while no replay is in flight.
LEMMA HandleRequestReplays ==
  ASSUME IInv, HandleRequest
  PROVE  Replays'
<1> DEFINE req == Head(up)
           result == IF req.at = "reconnect" THEN ReconnectResult(req.last, req.channels)
                     ELSE SubscribedResult(req.channels)
           x == Answer(req.from, req.at, result)
<1>1. HostInv /\ ClientTypes
  BY DEF IInv
<1>2. /\ up # <<>> /\ hostSubs' = SubscriptionsAfter(result, req.channels)
      /\ down' = Append(down, x) /\ log' = log /\ hostSeq' = hostSeq
  BY DEF HandleRequest, hostState
<1>3. req \in Req
  BY <1>1, <1>2, TailOf DEF ClientTypes
<1>4. req.last \in Int
  BY <1>3 DEF Req, Unnoted
<1>5. x.result = result
  BY DEF Answer
<1>6. ASSUME result.kind = "replay"
      PROVE  /\ Retained(req.last) /\ hostSubs' = Present(req.channels)
             /\ result.from = req.last /\ result.through = hostSeq
             /\ result.actions = ReplayAfter(req.last, req.channels)
  <2>1. result = [kind |-> "replay", from |-> req.last, through |-> hostSeq,
                  actions |-> ReplayAfter(req.last, req.channels), missing |-> Missing(req.channels)]
        /\ Retained(req.last)
    BY <1>6 DEF ReconnectResult, SubscribedResult
  <2>2. hostSubs' = Present(req.channels)
    BY <1>2, <1>6 DEF SubscriptionsAfter
  <2> HIDE DEF result
  <2> QED BY <2>1, <2>2
<1> HIDE DEF result, x, req
<1> SUFFICES ASSUME NEW i \in DOMAIN down', down'[i].kind = "answer", down'[i].result.kind = "replay"
             PROVE  (down[i].result.through <= Len(log) /\ Complete(down[i].result))'
  BY DEF Replays
<1>7. down'[i] = x
  <2>1. i \notin DOMAIN down
    <3> SUFFICES ASSUME i \in DOMAIN down PROVE FALSE
      OBVIOUS
    <3>1. down'[i] = down[i]
      BY <1>1, <1>2 DEF ClientTypes
    <3> QED BY <1>2, <3>1, ReplayIsAlone
  <2> QED BY <1>1, <1>2, <2>1 DEF ClientTypes
<1>8. PICK r : r = down'[i].result
  OBVIOUS
<1>9. /\ Retained(req.last) /\ hostSubs' = Present(req.channels)
      /\ r.from = req.last /\ r.through = hostSeq
      /\ r.actions = ReplayAfter(req.last, req.channels)
  BY <1>5, <1>6, <1>7, <1>8
<1>10. r.through <= Len(log')
  <2>1. hostSeq = Len(log) /\ hostSeq \in Nat
    BY <1>1 DEF HostInv, HostTypes, Numbered
  <2> QED BY <1>2, <1>9, <2>1
<1>11. Complete(r)'
  <2> DEFINE R == ReplayAfter(req.last, req.channels)
             due == {j \in DOMAIN log : log[j].seq > req.last /\ log[j].seq <= hostSeq
                                        /\ log[j].chan \in Present(req.channels)}
  <2>1. /\ {R[j] : j \in DOMAIN R} = {log[j] : j \in due}
        /\ \A j, k \in DOMAIN R : j < k => R[j].seq < R[k].seq
    BY <1>1, <1>4, <1>9, FreshReplay
  <2>2. Due(r)' = due
    BY <1>2, <1>9 DEF Due
  <2> HIDE DEF R, due
  <2>3. r.actions = R
    BY <1>9 DEF R
  <2> QED BY <1>2, <2>1, <2>2, <2>3 DEF Complete
<1> QED BY <1>8, <1>10, <1>11

\* Whatever the replay buffer has forgotten, a reconnect is answered with every
\* action that the client is owed or not with a replay at all
\* (AgentHostAuthority.reconnect, for every size of the buffer).
THEOREM ReplaysAlwaysComplete == Spec => []ReplayIsComplete
<1>1. Init => Replays
  <2> SUFFICES ASSUME Init PROVE Replays
    OBVIOUS
  <2>1. down = <<>>
    BY DEF Init
  <2> QED BY <2>1 DEF Replays
<1>2. IInv /\ Replays /\ [Next]_vars => Replays'
  <2> SUFFICES ASSUME IInv, Replays, [Next]_vars PROVE Replays'
    OBVIOUS
  <2>1. HostInv /\ down \in Seq(GoodItems)
    BY DEF IInv, ClientTypes
  <2>2. CASE HandleRequest
    BY <2>2, HandleRequestReplays
  <2>3. CASE HostCommit
    <3>1. Commit /\ hostSubs' = hostSubs /\ down' = (IF link THEN down \o Delivered ELSE down)
      BY <2>3 DEF HostCommit
    <3>2. HostInv' /\ Grows
      BY <2>1, <3>1, CommitsKeep
    <3>3. ASSUME NEW i \in DOMAIN down', down'[i].kind = "answer"
          PROVE  \E k \in DOMAIN down : down'[i] = down[k]
      <4>1. Delivered \in Seq(LoggedActions') /\ \A j \in DOMAIN Delivered : Delivered[j].kind = "action"
        BY <2>1, <3>2, DeliveredIs
      <4>2. CASE down' = down \o Delivered
        <5>1. i \in DOMAIN down \/ \E j \in DOMAIN Delivered : i = Len(down) + j /\ down'[i] = Delivered[j]
          BY <2>1, <4>1, <4>2, SMTT(40)
        <5> QED BY <2>1, <3>3, <4>1, <4>2, <5>1
      <4> QED BY <3>1, <3>3, <4>2
    <3> QED BY <3>1, <3>2, <3>3, ReplaysStay
  <2>4. ASSUME UNCHANGED hostVars,
               down' = down \/ down' = <<>> \/ (down # <<>> /\ down' = Tail(down))
        PROVE  Replays'
    <3>1. HostInv' /\ Grows /\ hostSubs' = hostSubs
      BY <2>1, <2>4, HostStays DEF hostVars
    <3>2. ASSUME NEW i \in DOMAIN down'
          PROVE  \E k \in DOMAIN down : down'[i] = down[k]
      <4>1. CASE down # <<>> /\ down' = Tail(down)
        BY <2>1, <2>4, <4>1, TailOf
      <4> QED BY <2>4, <4>1
    <3> QED BY <3>1, <3>2, ReplaysStay
  <2>5. CASE ReceiveAction \/ ReceiveAnswer
    BY <2>4, <2>5 DEF ReceiveAction, ReceiveAnswer
  <2>6. CASE RunTask \/ RequestRefresh \/ Interrupt \/ Restore
    <3>1. UNCHANGED hostVars /\ (down' = down \/ down' = <<>>)
      BY <2>6 DEF RunTask, RequestRefresh, Interrupt, Restore
    <3> QED BY <2>4, <3>1
  <2>7. CASE UNCHANGED vars
    BY <2>4, <2>7 DEF vars
  <2> QED BY <2>2, <2>3, <2>5, <2>6, <2>7 DEF Next
<1>3. IInv /\ Replays => ReplayIsComplete
  BY DEF Replays, ReplayIsComplete, Complete, Due
<1> QED BY <1>1, <1>2, <1>3, InductiveInvariant, PTL DEF Spec

-----------------------------------------------------------------------------
(* How a computation moves the replica *)

\* The channels an answer takes away, and those it has a baseline of.
Lost(result) ==
  IF result.kind = "rejected" THEN {}
  ELSE result.missing \cup {c \in Chat : Home[c] \in result.missing}
Renewed(result) ==
  IF result.kind \in {"subscribed", "snapshots"} THEN Channels(result.snapshots) ELSE {}

\* With this answer the reducer of a channel only advances, is given up only if
\* the channel is lost, and comes to be only if it has a baseline.
Moves(q, r, ch, result) ==
  /\ ch \in DOMAIN q.red /\ HasState(q.red[ch]) =>
       \/ ch \in DOMAIN r.red /\ HasState(r.red[ch]) /\ q.red[ch].rev <= r.red[ch].rev
       \/ ch \notin DOMAIN r.red /\ ch \in Lost(result)
  /\ ch \notin DOMAIN q.red => ch \notin DOMAIN r.red \/ ch \in Renewed(result)

\* From q to r with this answer, while the same is shown.
Advances(q, r, result) ==
  /\ GoodReplica(r) /\ r.shown = q.shown /\ r.subs \subseteq q.subs \cup Renewed(result)
  /\ \A ch \in Session \cup Chat : Moves(q, r, ch, result)

\* A record shows its reducer's state.
Fresh(r, ch) == ch \in DOMAIN r.red /\ HasState(r.red[ch]) /\ r.shown[ch] = r.red[ch].state

\* What r shows is fresh or was shown before, and its reducers have moved.
Presents(q, r, result) ==
  \A ch \in DOMAIN r.shown :
    /\ Moves(q, r, ch, result)
    /\ Fresh(r, ch) \/ (ch \in DOMAIN q.shown /\ r.shown[ch] = q.shown[ch])

\* What a computation comes to, for the user and for the channels it asks for.
Continued(q, out, result) ==
  /\ Presents(q, out.p, result) /\ out.p.subs \subseteq Known
  /\ out.then \notin {"done", "failed"} => out.asked \subseteq Known

\* A replica follows published channels only, and an answer does not take away
\* what it has a baseline of.
Answerable(q, result) ==
  /\ GoodReplica(q) /\ q.subs \subseteq Known
  /\ Renewed(result) \subseteq Known /\ Lost(result) \cap Renewed(result) = {}

\* The revision of a reducer.
LEMMA ReducerRevision ==
  ASSUME NEW q, GoodReplica(q), NEW ch \in DOMAIN q.red
  PROVE  q.red[ch].rev \in Nat
BY DEF GoodReplica, GoodReducers, ReducerRecord

\* A replica with the same reducers has not moved.
LEMMA RestsThere ==
  ASSUME NEW q, GoodReplica(q), NEW r, GoodReplica(r), r.red = q.red, r.shown = q.shown,
         NEW result, r.subs \subseteq q.subs \cup Renewed(result)
  PROVE  Advances(q, r, result)
<1>1. ASSUME NEW ch \in Session \cup Chat PROVE Moves(q, r, ch, result)
  <2>1. ch \in DOMAIN q.red => q.red[ch].rev \in Nat
    BY ReducerRevision
  <2> QED BY <2>1 DEF Moves
<1> QED BY <1>1 DEF Advances

\* One move after the other is a move.
LEMMA AdvancesOn ==
  ASSUME NEW q, GoodReplica(q), NEW r, NEW s, NEW result, Lost(result) \cap Renewed(result) = {},
         Advances(q, r, result), Advances(r, s, result)
  PROVE  Advances(q, s, result)
<1>1. GoodReplica(r) /\ GoodReplica(s)
  BY DEF Advances
<1>2. ASSUME NEW ch \in Session \cup Chat PROVE Moves(q, s, ch, result)
  <2>1. Moves(q, r, ch, result) /\ Moves(r, s, ch, result)
    BY DEF Advances
  <2>2. /\ ch \in DOMAIN q.red => q.red[ch].rev \in Nat
        /\ ch \in DOMAIN r.red => r.red[ch].rev \in Nat
        /\ ch \in DOMAIN s.red => s.red[ch].rev \in Nat
    BY <1>1, ReducerRevision
  <2>3. ch \notin Lost(result) \/ ch \notin Renewed(result)
    OBVIOUS
  <2>4. CASE ch \notin DOMAIN q.red
    BY <2>1, <2>3, <2>4 DEF Moves
  <2>5. CASE ch \in DOMAIN q.red /\ ch \in DOMAIN r.red
    BY <2>1, <2>2, <2>5 DEF Moves
  <2>6. CASE ch \in DOMAIN q.red /\ ch \notin DOMAIN r.red
    BY <2>1, <2>3, <2>6 DEF Moves
  <2> QED BY <2>4, <2>5, <2>6
<1> QED BY <1>2 DEF Advances

\* Noting a Host sequence is no move.
LEMMA NoteAdvances ==
  ASSUME NEW q, GoodReplica(q), NEW seq \in Nat, NEW result
  PROVE  Advances(q, Note(q, seq), result)
BY NoteKeeps, RestsThere

\* Reducers are dropped with the channels that are lost.
LEMMA DropAdvances ==
  ASSUME NEW q, GoodReplica(q), NEW result, result.kind # "rejected", Catalog \notin result.missing
  PROVE  Advances(q, DropMissing(q, result.missing), result)
<1> DEFINE d == DropMissing(q, result.missing)
           K == {k \in DOMAIN q.red : k \notin result.missing /\ (k \in Chat => Home[k] \notin result.missing)}
           red == [ch \in K |-> q.red[ch]]
<1>1. GoodReplica(d) /\ d.shown = q.shown
  BY DropKeeps
<1>2. d.red = red /\ d.subs = q.subs \ result.missing
  <2>1. d = [q EXCEPT !.subs = @ \ result.missing, !.red = red]
    BY Zenon DEF DropMissing
  <2> HIDE DEF red, d
  <2> QED BY <2>1 DEF GoodReplica
<1>3. DOMAIN red = K /\ \A ch \in K : red[ch] = q.red[ch]
  OBVIOUS
<1> HIDE DEF red, d
<1>4. ASSUME NEW ch \in Session \cup Chat PROVE Moves(q, d, ch, result)
  <2>1. ch \in DOMAIN q.red => q.red[ch].rev \in Nat
    BY ReducerRevision
  <2>2. ch \in DOMAIN q.red => ch \in K \/ ch \in Lost(result)
    BY DEF Lost
  <2>3. ch \in K => ch \in DOMAIN q.red /\ ch \in DOMAIN d.red /\ d.red[ch] = q.red[ch]
    BY <1>2, <1>3
  <2>4. ch \notin K => ch \notin DOMAIN d.red
    BY <1>2, <1>3
  <2> HIDE DEF K
  <2> QED BY <2>1, <2>2, <2>3, <2>4 DEF Moves
<1> QED BY <1>1, <1>2, <1>4 DEF Advances, d

\* The subscriptions become those of the answer.
LEMMA SubscribedAdvances ==
  ASSUME NEW q, GoodReplica(q), NEW result \in Subscription, GoodSnapshots(result.snapshots),
         Lost(result) \cap Renewed(result) = {}
  PROVE  Advances(q, Subscribed(q, result), result)
<1> DEFINE o == [q EXCEPT !.subs = Channels(result.snapshots)]
<1>1. o = [red |-> q.red, subs |-> Channels(result.snapshots), last |-> q.last, shown |-> q.shown]
  BY DEF GoodReplica
<1>2. Channels(result.snapshots) \subseteq Chan
  BY SnapshotOfChannel
<1>3. /\ Catalog \notin result.missing /\ result.kind # "rejected"
      /\ Renewed(result) = Channels(result.snapshots)
  BY DEF Subscription, Missable, Renewed
<1>4. Subscribed(q, result) = DropMissing(o, result.missing)
  BY DEF Subscribed
<1> HIDE DEF o
<1>5. GoodReplica(o) /\ o.red = q.red /\ o.shown = q.shown /\ o.subs = Channels(result.snapshots)
  BY <1>1, <1>2 DEF GoodReplica
<1>6. Advances(q, o, result)
  BY <1>3, <1>5, RestsThere
<1>7. Advances(o, DropMissing(o, result.missing), result)
  BY <1>3, <1>5, DropAdvances
<1> QED BY <1>4, <1>6, <1>7, AdvancesOn

\* Baselines that are not refused.
LEMMA ApplyAdvances ==
  ASSUME NEW q, GoodReplica(q), NEW result \in Subscription, GoodSnapshots(result.snapshots),
         NEW channels \in SUBSET Channels(result.snapshots),
         channels = {Catalog} \/ ~Regresses(q, result.snapshots, channels)
  PROVE  Advances(q, ApplySnapshots(q, result.snapshots, channels), result)
<1> DEFINE snaps == result.snapshots
           r == ApplySnapshots(q, snaps, channels)
<1>1. /\ GoodReplica(r) /\ r.shown = q.shown /\ r.subs = q.subs
      /\ DOMAIN r.red = DOMAIN q.red \cup channels
      /\ \A ch \in DOMAIN q.red \ channels : r.red[ch] = q.red[ch]
      /\ \A ch \in channels : HasState(r.red[ch]) /\ r.red[ch].rev = SnapshotOf(snaps, ch).rev
  BY ApplyKeeps
<1>2. Renewed(result) = Channels(snaps)
  BY DEF Subscription, Renewed
<1> HIDE DEF r
<1>3. ASSUME NEW ch \in Session \cup Chat PROVE Moves(q, r, ch, result)
  <2>1. CASE ch \notin channels
    <3>1. ch \in DOMAIN q.red => q.red[ch].rev \in Nat /\ r.red[ch] = q.red[ch]
      BY <1>1, <2>1, ReducerRevision
    <3> QED BY <1>1, <2>1, <3>1 DEF Moves
  <2>2. CASE ch \in channels
    <3>1. channels # {Catalog}
      BY <2>2, Distinct
    <3>2. ~SnapshotPrecedes(Reducer(q, ch), SnapshotOf(snaps, ch))
      BY <2>2, <3>1 DEF Regresses
    <3>3. ch \in DOMAIN q.red => Reducer(q, ch) = q.red[ch] /\ q.red[ch].rev \in Nat
      BY ReducerRevision DEF Reducer
    <3>4. SnapshotOf(snaps, ch).rev \in Nat
      BY <2>2, SnapshotOfChannel
    <3>5. ch \in DOMAIN q.red /\ HasState(q.red[ch]) => q.red[ch].rev <= r.red[ch].rev
      BY <1>1, <2>2, <3>2, <3>3, <3>4 DEF SnapshotPrecedes
    <3> QED BY <1>1, <1>2, <2>2, <3>5 DEF Moves
  <2> QED BY <2>1, <2>2
<1> QED BY <1>1, <1>3 DEF Advances, r

\* A state lists published channels only.
LEMMA ListsKnown ==
  ASSUME HostInv, NEW q, GoodReplica(q), NEW ch \in DOMAIN q.red, HasState(q.red[ch])
  PROVE  Children(q.red[ch].state) \subseteq Known
<1>1. ch \in Chan /\ Had(ch, q.red[ch].rev, q.red[ch].state)
  BY DEF GoodReplica, GoodReducers
<1> QED BY <1>1 DEF HostInv, Aging, Had

\* A computation that shows nothing new.
LEMMA AdvancesPresents ==
  ASSUME NEW q, NEW result, Answerable(q, result), NEW r, Advances(q, r, result)
  PROVE  Presents(q, r, result) /\ r.subs \subseteq Known
<1>1. DOMAIN r.shown \subseteq Session \cup Chat
  BY DEF Advances, GoodReplica, GoodShown
<1> QED BY <1>1 DEF Advances, Presents, Answerable

\* It fails, or asks for published channels.
LEMMA Awaits ==
  ASSUME NEW q, NEW result, Answerable(q, result), NEW r, Advances(q, r, result)
  PROVE  /\ Continued(q, Failed(r), result)
         /\ \A at, asked : asked \subseteq Known => Continued(q, Ask(r, at, asked), result)
BY AdvancesPresents DEF Continued, Failed, Ask

\* It asks for the Sessions the catalog lists.
LEMMA HydrationAwaits ==
  ASSUME HostInv, NEW q, NEW result, Answerable(q, result), NEW r, Advances(q, r, result),
         HasState(r.red[Catalog])
  PROVE  Continued(q, AskSessions(r), result)
<1>1. Catalog \in DOMAIN r.red /\ GoodReplica(r)
  BY DEF Advances, GoodReplica, GoodReducers
<1>2. SessionChannels(r) \subseteq Known
  BY <1>1, ListsKnown DEF SessionChannels
<1>3. {Catalog} \cup SessionChannels(r) \subseteq Known
  BY <1>2 DEF Known
<1> QED BY <1>3, Awaits DEF AskSessions

\* What every stage of the hydration does first.
LEMMA CatalogAnswerAdvances ==
  ASSUME HostInv, NEW q, NEW result \in Subscription, Answerable(q, result),
         GoodSnapshots(result.snapshots), ~Regresses(q, result.snapshots, {Catalog})
  PROVE  Advances(q, CatalogAnswer(q, result), result)
<1> DEFINE o == Subscribed(q, result)
           a == ApplySnapshots(o, result.snapshots, {Catalog})
<1>1. GoodReplica(q) /\ Lost(result) \cap Renewed(result) = {} /\ result.seq \in Nat
  BY DEF Answerable, Subscription
<1>2. {Catalog} \in SUBSET Channels(result.snapshots)
  BY NotRegressing
<1>3. Advances(q, o, result)
  BY <1>1, SubscribedAdvances
<1>4. CatalogAnswer(q, result) = Note(a, result.seq)
  BY DEF CatalogAnswer
<1> HIDE DEF o
<1>5. Advances(o, a, result)
  BY <1>2, <1>3, ApplyAdvances DEF Advances
<1> HIDE DEF a
<1>6. Advances(a, Note(a, result.seq), result)
  BY <1>1, <1>5, NoteAdvances DEF Advances
<1>7. Advances(q, a, result)
  BY <1>1, <1>3, <1>5, AdvancesOn
<1> QED BY <1>1, <1>4, <1>6, <1>7, AdvancesOn

\* A refused catalog leaves the subscriptions of the answer.
LEMMA RefusalContinues ==
  ASSUME NEW q, NEW result \in Subscription, Answerable(q, result), GoodSnapshots(result.snapshots)
  PROVE  Continued(q, Failed(Subscribed(q, result)), result)
BY SubscribedAdvances, Awaits DEF Answerable

\* The answer to initialize and to a refresh.
LEMMA BaselineAnswerContinues ==
  ASSUME HostInv, NEW q, NEW result \in Subscription, Answerable(q, result),
         GoodSnapshots(result.snapshots)
  PROVE  Continued(q, BaselineAnswer(q, result), result)
<1>1. CASE Regresses(q, result.snapshots, {Catalog})
  BY <1>1, RefusalContinues DEF BaselineAnswer
<1>2. CASE ~Regresses(q, result.snapshots, {Catalog})
  <2>1. Advances(q, CatalogAnswer(q, result), result) /\ HasState(CatalogAnswer(q, result).red[Catalog])
    BY <1>2, CatalogAnswerAdvances, CatalogAnswerGood DEF Answerable
  <2>2. Continued(q, AskSessions(CatalogAnswer(q, result)), result)
    BY <2>1, HydrationAwaits
  <2> QED BY <1>2, <2>2 DEF BaselineAnswer
<1> QED BY <1>1, <1>2

\* The Sessions' baselines move the replica on, to known Chats.
LEMMA SessionsAdvance ==
  ASSUME HostInv, NEW q, NEW result \in Subscription, Answerable(q, result),
         GoodSnapshots(result.snapshots), NEW c, Advances(q, c, result), HasState(c.red[Catalog]),
         Catalog \in Channels(result.snapshots),
         c.red[Catalog].state = SnapshotOf(result.snapshots, Catalog).state,
         ~Regresses(c, result.snapshots, SessionChannels(c))
  PROVE  LET r == ApplySnapshots(c, result.snapshots, SessionChannels(c)) IN
         /\ Advances(q, r, result) /\ HasState(r.red[Catalog])
         /\ SessionChannels(r) = SessionChannels(c) /\ SessionChannels(c) \subseteq Session
         /\ \A s \in SessionChannels(c) : s \in DOMAIN r.red /\ HasState(r.red[s])
         /\ ChatChannels(r) \subseteq Chat
         /\ {Catalog} \cup SessionChannels(c) \cup ChatChannels(r) \subseteq Known
<1> DEFINE snaps == result.snapshots
           listed == SessionChannels(c)
           r == ApplySnapshots(c, snaps, listed)
<1>1. GoodReplica(c) /\ GoodReplica(q) /\ Lost(result) \cap Renewed(result) = {}
  BY DEF Advances, Answerable
<1>2. listed \subseteq Channels(snaps)
  BY NotRegressing
<1>3. /\ GoodReplica(r) /\ HasState(r.red[Catalog]) /\ listed \subseteq Session
      /\ SessionChannels(r) = listed
      /\ \A s \in listed : s \in DOMAIN r.red /\ r.red[s].state = SnapshotOf(snaps, s).state
      /\ ChatChannels(r) = UNION {Children(SnapshotOf(snaps, s).state) : s \in listed}
      /\ ChatChannels(r) \subseteq Chat
  BY <1>1, <1>2, SessionsApplied
<1>4. Advances(c, r, result)
  BY <1>1, <1>2, ApplyAdvances
<1>5. Advances(q, r, result)
  BY <1>1, <1>4, AdvancesOn
<1> HIDE DEF r
<1>6. ASSUME NEW s \in listed
      PROVE  HasState(r.red[s]) /\ Children(SnapshotOf(snaps, s).state) \subseteq Known
  <2>1. s \in Channels(snaps) /\ r.red[s].state = SnapshotOf(snaps, s).state
    BY <1>2, <1>3
  <2>2. SnapshotOf(snaps, s).state \in State /\ s \in Chan
        /\ Had(s, SnapshotOf(snaps, s).rev, SnapshotOf(snaps, s).state)
    BY <2>1, SnapshotOfChannel
  <2> QED BY <2>1, <2>2, NoStateAssumption DEF HasState, HostInv, Aging, Had
<1>7. {Catalog} \cup listed \subseteq Known
  <2>1. Catalog \in DOMAIN c.red
    BY <1>1 DEF GoodReplica, GoodReducers
  <2>2. listed \subseteq Known
    BY <1>1, <2>1, ListsKnown DEF SessionChannels
  <2> QED BY <2>2 DEF Known
<1>8. ChatChannels(r) \subseteq Known
  BY <1>3, <1>6
<1> QED BY <1>3, <1>5, <1>6, <1>7, <1>8 DEF r

\* The answer of the first stage.
LEMMA SessionsAnswerContinues ==
  ASSUME HostInv, NEW q, NEW result \in Subscription, Answerable(q, result),
         GoodSnapshots(result.snapshots), NEW asked
  PROVE  Continued(q, SessionsAnswer(q, asked, result), result)
<1> DEFINE c == CatalogAnswer(q, result)
           listed == SessionChannels(c)
           r == ApplySnapshots(c, result.snapshots, listed)
           out == SessionsAnswer(q, asked, result)
<1>1. CASE Regresses(q, result.snapshots, {Catalog})
  BY <1>1, RefusalContinues DEF SessionsAnswer
<1>2. CASE ~Regresses(q, result.snapshots, {Catalog})
  <2>1. /\ Advances(q, c, result) /\ HasState(c.red[Catalog])
        /\ c.red[Catalog].state = SnapshotOf(result.snapshots, Catalog).state
        /\ Catalog \in Channels(result.snapshots)
    BY <1>2, CatalogAnswerAdvances, CatalogAnswerGood DEF Answerable
  <2>2. out = IF asked \ {Catalog} # listed THEN AskSessions(c)
              ELSE IF Regresses(c, result.snapshots, listed) THEN Failed(c)
              ELSE Ask(r, "topology", {Catalog} \cup listed \cup ChatChannels(r))
    BY <1>2 DEF SessionsAnswer
  <2> HIDE DEF c
  <2>3. Continued(q, AskSessions(c), result) /\ Continued(q, Failed(c), result)
    BY <2>1, HydrationAwaits, Awaits
  <2>4. ASSUME ~Regresses(c, result.snapshots, listed)
        PROVE  Continued(q, Ask(r, "topology", {Catalog} \cup listed \cup ChatChannels(r)), result)
    <3>1. /\ Advances(q, r, result)
          /\ {Catalog} \cup listed \cup ChatChannels(r) \subseteq Known
      BY <2>1, <2>4, SessionsAdvance
    <3> HIDE DEF r, listed
    <3> QED BY <3>1, Awaits
  <2> HIDE DEF r, listed, out
  <2> QED BY <2>2, <2>3, <2>4 DEF out
<1> QED BY <1>1, <1>2

\* The Chats' baselines leave the topology alone.
LEMMA ChatsApplied ==
  ASSUME NEW r, GoodReplica(r), NEW snapshots, GoodSnapshots(snapshots),
         SessionChannels(r) \subseteq Session, ChatChannels(r) \subseteq Chat,
         ChatChannels(r) \subseteq Channels(snapshots),
         \A s \in SessionChannels(r) : s \in DOMAIN r.red /\ HasState(r.red[s])
  PROVE  LET t == ApplySnapshots(r, snapshots, ChatChannels(r)) IN
         /\ SessionChannels(t) = SessionChannels(r) /\ ChatChannels(t) = ChatChannels(r)
         /\ \A ch \in SessionChannels(r) \cup ChatChannels(r) : ch \in DOMAIN t.red /\ HasState(t.red[ch])
<1> DEFINE listed == SessionChannels(r)
           chats == ChatChannels(r)
           t == ApplySnapshots(r, snapshots, chats)
<1>1. Catalog \in DOMAIN r.red
  BY DEF GoodReplica, GoodReducers
<1>2. Catalog \notin chats /\ \A s \in listed : s \notin chats
  BY Distinct
<1>3. chats = UNION {Children(r.red[s].state) : s \in listed}
  BY DEF ChatChannels
<1> HIDE DEF chats
<1>4. /\ DOMAIN t.red = DOMAIN r.red \cup chats
      /\ \A ch \in DOMAIN r.red \ chats : t.red[ch] = r.red[ch]
      /\ \A ch \in chats : HasState(t.red[ch])
  BY ApplyKeeps DEF chats
<1> HIDE DEF t
<1>5. t.red[Catalog] = r.red[Catalog] /\ \A s \in listed : t.red[s] = r.red[s]
  BY <1>1, <1>2, <1>4
<1>6. SessionChannels(t) = listed
  BY <1>5 DEF SessionChannels
<1> HIDE DEF listed
<1>7. ChatChannels(t) = chats
  BY <1>3, <1>5, <1>6 DEF ChatChannels
<1>8. ASSUME NEW ch \in listed \cup chats PROVE ch \in DOMAIN t.red /\ HasState(t.red[ch])
  <2>1. CASE ch \in listed
    <3>1. ch \in DOMAIN r.red /\ HasState(r.red[ch])
      BY <2>1 DEF listed
    <3> QED BY <1>4, <1>5, <2>1, <3>1
  <2>2. CASE ch \in chats
    BY <1>4, <2>2
  <2> QED BY <2>1, <2>2
<1> QED BY <1>6, <1>7, <1>8 DEF listed, chats, t

\* The records become the states of the channels of the topology
\* (reconcileCatalog after retainReducersForCurrentTopology).
LEMMA RecordsPresented ==
  ASSUME NEW q, NEW result, Answerable(q, result), NEW t, Advances(q, t, result),
         \A ch \in SessionChannels(t) \cup ChatChannels(t) :
           ch \in Session \cup Chat /\ ch \in DOMAIN t.red /\ HasState(t.red[ch])
  PROVE  Continued(q, Done(ReconcileCatalog(RetainReducers(t))), result)
<1> DEFINE u == RetainReducers(t)
           x == ReconcileCatalog(u)
           All == SessionChannels(t) \cup ChatChannels(t)
           K == DOMAIN t.red \cap ({Catalog} \cup SessionChannels(t) \cup ChatChannels(t))
           red == [ch \in K |-> t.red[ch]]
<1>1. GoodReplica(t) /\ Catalog \in DOMAIN t.red
  BY DEF Advances, GoodReplica, GoodReducers
<1>2. t = [red |-> t.red, subs |-> t.subs, last |-> t.last, shown |-> t.shown]
  BY <1>1 DEF GoodReplica
<1>3. u = [red |-> red, subs |-> t.subs, last |-> t.last, shown |-> t.shown]
  <2>1. u = [t EXCEPT !.red = red]
    BY DEF RetainReducers
  <2> HIDE DEF u, red
  <2> QED BY <1>2, <2>1
<1>4. /\ DOMAIN red = K /\ \A ch \in K : red[ch] = t.red[ch]
      /\ Catalog \in K /\ All \subseteq K
  BY <1>1
<1> HIDE DEF red, u, K
<1>5. SessionChannels(u) = SessionChannels(t)
  BY <1>3, <1>4 DEF SessionChannels
<1>6. ChatChannels(u) = ChatChannels(t)
  <2>1. \A s \in SessionChannels(t) : u.red[s] = t.red[s]
    BY <1>3, <1>4
  <2> QED BY <1>5, <2>1 DEF ChatChannels
<1> DEFINE shown == [ch \in All |-> u.red[ch].state]
<1>7. x = [red |-> red, subs |-> t.subs, last |-> t.last, shown |-> shown]
  <2>1. x = [u EXCEPT !.shown = shown]
    BY <1>5, <1>6 DEF ReconcileCatalog
  <2> HIDE DEF x, shown, All
  <2> QED BY <1>3, <2>1
<1>8. DOMAIN shown = All /\ \A ch \in All : shown[ch] = red[ch].state /\ red[ch] = t.red[ch]
  BY <1>3, <1>4
<1> HIDE DEF x, shown
<1>9. ASSUME NEW ch \in DOMAIN x.shown PROVE Moves(q, x, ch, result) /\ Fresh(x, ch)
  <2>1. ch \in All
    BY <1>7, <1>8
  <2>2. Moves(q, t, ch, result) /\ ch \in DOMAIN t.red /\ HasState(t.red[ch])
    BY <2>1 DEF Advances
  <2>3. ch \in DOMAIN x.red /\ x.red[ch] = t.red[ch] /\ x.shown[ch] = x.red[ch].state
    BY <1>4, <1>7, <1>8, <2>1
  <2> QED BY <2>2, <2>3 DEF Moves, Fresh
<1>10. x.subs \subseteq Known
  BY <1>7, AdvancesPresents
<1> QED BY <1>9, <1>10 DEF Continued, Presents, Done, x, u

\* The answer of the second stage.
LEMMA TopologyAnswerContinues ==
  ASSUME HostInv, NEW q, NEW result \in Subscription, Answerable(q, result),
         GoodSnapshots(result.snapshots), NEW asked
  PROVE  Continued(q, TopologyAnswer(q, asked, result), result)
<1> DEFINE snaps == result.snapshots
           c == CatalogAnswer(q, result)
           listed == SessionChannels(c)
           r == ApplySnapshots(c, snaps, listed)
           chats == ChatChannels(r)
           t == ApplySnapshots(r, snaps, chats)
           out == TopologyAnswer(q, asked, result)
<1>1. CASE Regresses(q, snaps, {Catalog})
  BY <1>1, RefusalContinues DEF TopologyAnswer
<1>2. CASE ~Regresses(q, snaps, {Catalog})
  <2>1. /\ Advances(q, c, result) /\ HasState(c.red[Catalog])
        /\ c.red[Catalog].state = SnapshotOf(snaps, Catalog).state
        /\ Catalog \in Channels(snaps)
    BY <1>2, CatalogAnswerAdvances, CatalogAnswerGood DEF Answerable
  <2>2. out = IF asked \cap Session # listed THEN AskSessions(c)
              ELSE IF Regresses(c, snaps, listed) THEN Failed(c)
              ELSE IF asked \cap Chat # chats THEN AskSessions(r)
              ELSE IF Regresses(r, snaps, chats) THEN Failed(r)
              ELSE Done(ReconcileCatalog(RetainReducers(t)))
    BY <1>2 DEF TopologyAnswer
  <2> HIDE DEF c
  <2>3. Continued(q, AskSessions(c), result) /\ Continued(q, Failed(c), result)
    BY <2>1, HydrationAwaits, Awaits
  <2>4. ASSUME ~Regresses(c, snaps, listed)
        PROVE  /\ Advances(q, r, result) /\ HasState(r.red[Catalog])
               /\ SessionChannels(r) = listed /\ listed \subseteq Session /\ chats \subseteq Chat
               /\ \A s \in listed : s \in DOMAIN r.red /\ HasState(r.red[s])
    BY <2>1, <2>4, SessionsAdvance
  <2> HIDE DEF r, listed
  <2>5. ASSUME ~Regresses(c, snaps, listed)
        PROVE  Continued(q, AskSessions(r), result) /\ Continued(q, Failed(r), result)
    BY <2>4, <2>5, HydrationAwaits, Awaits
  <2>6. ASSUME ~Regresses(c, snaps, listed), ~Regresses(r, snaps, chats)
        PROVE  Continued(q, Done(ReconcileCatalog(RetainReducers(t))), result)
    <3>1. /\ GoodReplica(r) /\ GoodReplica(q) /\ Lost(result) \cap Renewed(result) = {}
          /\ chats \subseteq Channels(snaps)
      BY <2>4, <2>6, NotRegressing DEF Advances, Answerable
    <3>2. Advances(r, t, result)
      BY <2>6, <3>1, ApplyAdvances
    <3>3. Advances(q, t, result)
      BY <2>4, <2>6, <3>1, <3>2, AdvancesOn
    <3>4. /\ SessionChannels(t) = listed /\ ChatChannels(t) = chats
          /\ \A ch \in listed \cup chats : ch \in DOMAIN t.red /\ HasState(t.red[ch])
      BY <2>4, <2>6, <3>1, ChatsApplied
    <3> HIDE DEF t, chats
    <3>5. \A ch \in SessionChannels(t) \cup ChatChannels(t) :
            ch \in Session \cup Chat /\ ch \in DOMAIN t.red /\ HasState(t.red[ch])
      BY <2>4, <2>6, <3>4
    <3> QED BY <3>3, <3>5, RecordsPresented
  <2> HIDE DEF chats, t, out
  <2> QED BY <2>2, <2>3, <2>5, <2>6 DEF out
<1> QED BY <1>1, <1>2

\* What is shown follows the channel that changed.
LEMMA FollowContinues ==
  ASSUME HostInv, NEW q, NEW result, Answerable(q, result), NEW n, Advances(q, n, result),
         NEW ch \in DOMAIN n.red, HasState(n.red[ch])
  PROVE  Continued(q, Follow(n, ch), result)
<1>1. GoodReplica(n) /\ Continued(q, Failed(n), result)
  BY Awaits DEF Advances
<1>2. CASE ch = Catalog
  <2>1. Follow(n, ch) = AskSessions(n)
    BY <1>2, Distinct DEF Follow
  <2> QED BY <1>2, <2>1, HydrationAwaits
<1>3. CASE ch # Catalog /\ ch \in Session
  <2>1. Follow(n, ch) = IF ch \in DOMAIN n.shown THEN AskSessions(n) ELSE Failed(n)
    BY <1>3 DEF Follow
  <2>2. CASE ch \in DOMAIN n.shown
    <3>1. HasState(n.red[Catalog])
      BY <1>1, <2>2 DEF GoodReplica
    <3> QED BY <2>1, <2>2, <3>1, HydrationAwaits
  <2> QED BY <1>1, <2>1, <2>2
<1>4. CASE ch # Catalog /\ ch \notin Session
  <2>1. Follow(n, ch) = ShowChat(n, ch)
    BY <1>4 DEF Follow
  <2> DEFINE shown == [n.shown EXCEPT ![ch] = n.red[ch].state]
             r == [n EXCEPT !.shown[ch] = n.red[ch].state]
  <2>2. CASE ch \notin DOMAIN n.shown
    <3>1. ShowChat(n, ch) = Failed(n)
      BY <2>2 DEF ShowChat
    <3> QED BY <1>1, <2>1, <3>1
  <2>3. CASE ch \in DOMAIN n.shown
    <3>1. ShowChat(n, ch) \in {Done(r), Failed(n)}
      BY DEF ShowChat
    <3>2. r = [red |-> n.red, subs |-> n.subs, last |-> n.last, shown |-> shown]
      <4>1. n = [red |-> n.red, subs |-> n.subs, last |-> n.last, shown |-> n.shown]
        BY <1>1 DEF GoodReplica
      <4>2. r = [n EXCEPT !.shown = shown]
        BY Zenon
      <4> HIDE DEF shown, r
      <4> QED BY <4>1, <4>2
    <3>3. /\ DOMAIN shown = DOMAIN n.shown /\ shown[ch] = n.red[ch].state
          /\ \A k \in DOMAIN shown : k # ch => shown[k] = n.shown[k]
      BY <2>3
    <3> HIDE DEF r, shown
    <3>4. ASSUME NEW k \in DOMAIN r.shown
          PROVE  /\ Moves(q, r, k, result)
                 /\ Fresh(r, k) \/ (k \in DOMAIN q.shown /\ r.shown[k] = q.shown[k])
      <4>1. k \in Session \cup Chat
        BY <1>1, <3>2, <3>3 DEF GoodReplica, GoodShown
      <4>2. Moves(q, n, k, result) /\ n.shown = q.shown
        BY <4>1 DEF Advances
      <4>3. Moves(q, r, k, result)
        BY <3>2, <4>2 DEF Moves
      <4>4. CASE k = ch
        BY <3>2, <3>3, <4>3, <4>4 DEF Fresh
      <4>5. CASE k # ch
        BY <3>2, <3>3, <4>2, <4>3, <4>5
      <4> QED BY <4>4, <4>5
    <3>5. r.subs \subseteq Known
      BY <3>2, AdvancesPresents
    <3>6. Continued(q, Done(r), result)
      BY <3>4, <3>5 DEF Continued, Presents, Done
    <3> QED BY <1>1, <2>1, <3>1, <3>6
  <2> QED BY <2>2, <2>3
<1> QED BY <1>2, <1>3, <1>4

\* An action that comes with no answer loses and renews nothing.
LEMMA NothingLost == Lost(Rejection) = {} /\ Renewed(Rejection) = {}
BY DEF Lost, Renewed, Rejection

\* A live action.
LEMMA LiveActionContinues ==
  ASSUME HostInv, NEW q, Answerable(q, Rejection), NEW a, Logged(a)
  PROVE  Continued(q, LiveAction(q, a), Rejection)
<1> DEFINE v == Verdict(q.red[a.chan], a)
           r == [q EXCEPT !.red[a.chan] = ApplyAction(@, a)]
           red == [q.red EXCEPT ![a.chan] = ApplyAction(@, a)]
<1>1. GoodReplica(q) /\ GoodReducers(q.red) /\ q.subs \subseteq Known /\ q.subs \subseteq Chan
  BY DEF Answerable, GoodReplica
<1>2. Advances(q, q, Rejection)
  BY <1>1, RestsThere
<1>3. Continued(q, Done(q), Rejection) /\ Continued(q, Failed(q), Rejection)
  BY <1>1, <1>2, AdvancesPresents DEF Continued, Done, Failed
<1>4. CASE a.chan \notin DOMAIN q.red
  <2>1. LiveAction(q, a) \in {Done(q), Failed(q)}
    BY <1>4 DEF LiveAction
  <2> QED BY <1>3, <2>1
<1>5. CASE a.chan \in DOMAIN q.red
  <2>1. LiveAction(q, a) = CASE v = "duplicate" -> Done(q)
                             [] v = "applied"   -> Follow(Note(r, a.seq), a.chan)
                             [] OTHER -> IF a.chan \in q.subs THEN Ask(r, "resync", q.subs) ELSE Failed(r)
    BY <1>5 DEF LiveAction
  <2>2. GoodReducer(q.red[a.chan], a.chan)
    BY <1>1, <1>5, ReducersAre
  <2>3. /\ GoodReducer(ApplyAction(q.red[a.chan], a), a.chan)
        /\ HasState(q.red[a.chan]) => /\ HasState(ApplyAction(q.red[a.chan], a))
                                      /\ q.red[a.chan].rev <= ApplyAction(q.red[a.chan], a).rev
        /\ v = "applied" => HasState(ApplyAction(q.red[a.chan], a))
    BY <2>2, ApplyActionGood
  <2>4. /\ DOMAIN red = DOMAIN q.red /\ red[a.chan] = ApplyAction(q.red[a.chan], a)
        /\ \A ch \in DOMAIN red : ch # a.chan => red[ch] = q.red[ch]
        /\ red = [ch \in DOMAIN red |-> red[ch]]
    BY <1>5
  <2>5. r = [red |-> red, subs |-> q.subs, last |-> q.last, shown |-> q.shown]
    <3>1. r = [q EXCEPT !.red = red]
      BY Zenon
    <3>2. q = [red |-> q.red, subs |-> q.subs, last |-> q.last, shown |-> q.shown]
      BY <1>1 DEF GoodReplica
    <3> HIDE DEF r, red
    <3> QED BY <3>1, <3>2
  <2> HIDE DEF r, red, v
  <2>6. GoodReplica(r)
    <3>1. \A ch \in DOMAIN red : GoodReducer(red[ch], ch)
      BY <1>1, <2>3, <2>4, ReducersAre
    <3>2. red \in [DOMAIN red -> ReducerRecord]
      BY <2>4, <3>1 DEF GoodReducer
    <3>3. DOMAIN red \subseteq Chan /\ Catalog \in DOMAIN red
      BY <1>1, <2>4 DEF GoodReducers
    <3>4. GoodReducers(red)
      BY <3>1, <3>2, <3>3, ReducersAre
    <3>5. HasState(q.red[Catalog]) => HasState(red[Catalog])
      BY <2>3, <2>4, <3>3
    <3> QED BY <1>1, <2>5, <3>4, <3>5 DEF GoodReplica
  <2>7. Advances(q, r, Rejection)
    <3>1. ASSUME NEW ch \in Session \cup Chat PROVE Moves(q, r, ch, Rejection)
      <4>1. ch \in DOMAIN q.red => q.red[ch].rev \in Nat
        BY <1>1, ReducerRevision
      <4> QED BY <2>3, <2>4, <2>5, <4>1 DEF Moves
    <3> QED BY <2>5, <2>6, <3>1 DEF Advances
  <2>8. ASSUME v = "applied" PROVE Continued(q, Follow(Note(r, a.seq), a.chan), Rejection)
    <3> DEFINE n == Note(r, a.seq)
    <3>1. GoodReplica(n) /\ n.red = r.red /\ Advances(r, n, Rejection)
      BY <2>6, NoteKeeps, NoteAdvances, LoggedHad
    <3> HIDE DEF n
    <3>2. Advances(q, n, Rejection)
      BY <1>1, <2>7, <3>1, AdvancesOn, NothingLost
    <3>3. a.chan \in DOMAIN n.red /\ HasState(n.red[a.chan])
      BY <1>5, <2>3, <2>4, <2>5, <2>8, <3>1
    <3> QED BY <3>2, <3>3, FollowContinues DEF n
  <2>9. Continued(q, Ask(r, "resync", q.subs), Rejection) /\ Continued(q, Failed(r), Rejection)
    BY <1>1, <2>7, Awaits
  <2> QED BY <1>3, <2>1, <2>8, <2>9
<1> QED BY <1>4, <1>5

\* The baseline that a gap or a conflict asked for.
LEMMA ResyncAnswerContinues ==
  ASSUME HostInv, NEW q, NEW result \in Subscription, Answerable(q, result),
         GoodSnapshots(result.snapshots), NEW a \in Envelope
  PROVE  Continued(q, ResyncAnswer(q, a, result), result)
<1> DEFINE b == Subscribed(q, result)
           o == Note(b, result.seq)
           C == {a.chan}
           s == ApplySnapshots(o, result.snapshots, C)
           n == Note(s, a.seq)
<1>1. /\ result.seq \in Nat /\ a.seq \in Nat
      /\ GoodReplica(q) /\ Lost(result) \cap Renewed(result) = {}
  BY DEF Subscription, Envelope, Answerable
<1>2. Advances(q, b, result) /\ GoodReplica(b)
  BY <1>1, SubscribedAdvances DEF Advances
<1>3. ResyncAnswer(q, a, result) =
        IF Regresses(o, result.snapshots, C) \/ a.chan \notin DOMAIN o.red
        THEN Failed(o) ELSE Follow(n, a.chan)
  BY DEF ResyncAnswer
<1>4. a.chan \in C
  OBVIOUS
<1> HIDE DEF b, C
<1>5. Advances(b, o, result) /\ GoodReplica(o)
  BY <1>1, <1>2, NoteAdvances DEF Advances
<1> HIDE DEF o
<1>6. Advances(q, o, result)
  BY <1>1, <1>2, <1>5, AdvancesOn
<1>7. Continued(q, Failed(o), result)
  BY <1>6, Awaits
<1>8. ASSUME ~Regresses(o, result.snapshots, C), a.chan \in DOMAIN o.red
      PROVE  Continued(q, Follow(n, a.chan), result)
  <2>1. C \in SUBSET Channels(result.snapshots)
    BY <1>8, NotRegressing
  <2>2. Advances(o, s, result) /\ GoodReplica(s)
    BY <1>5, <1>8, <2>1, ApplyAdvances DEF Advances
  <2>3. a.chan \in DOMAIN s.red /\ HasState(s.red[a.chan])
    BY <1>4, <1>5, <2>1, ApplyKeeps
  <2> HIDE DEF s
  <2>4. Advances(q, s, result)
    BY <1>1, <1>6, <2>2, AdvancesOn
  <2>5. Advances(s, n, result) /\ n.red = s.red
    BY <1>1, <2>2, NoteAdvances, NoteKeeps
  <2> HIDE DEF n
  <2>6. Advances(q, n, result)
    BY <1>1, <2>4, <2>5, AdvancesOn
  <2> QED BY <2>3, <2>5, <2>6, FollowContinues
<1> HIDE DEF n
<1> QED BY <1>3, <1>7, <1>8

\* A reconnect answered with snapshots.
LEMMA ReconnectSnapshotsContinues ==
  ASSUME HostInv, NEW q, NEW result \in Subscription, Answerable(q, result),
         GoodSnapshots(result.snapshots)
  PROVE  Continued(q, ReconnectSnapshots(q, result), result)
<1> DEFINE snaps == result.snapshots
           o == Subscribed(q, result)
           c == ApplySnapshots(o, snaps, {Catalog})
           sessions == SessionChannels(c) \cap c.subs
           r == ApplySnapshots(c, snaps, sessions)
           known == {s \in SessionChannels(r) \cap DOMAIN r.red : HasState(r.red[s])}
           chats == (UNION {Children(r.red[s].state) : s \in known}) \cap r.subs
           t == ApplySnapshots(r, snaps, chats)
           n == Note(t, result.seq)
           bad == \/ Regresses(q, snaps, {Catalog})
                  \/ Regresses(c, snaps, sessions)
                  \/ Regresses(r, snaps, chats)
<1>1. ReconnectSnapshots(q, result) = IF bad THEN Failed(q) ELSE AskSessions(n)
  BY DEF ReconnectSnapshots
<1>2. GoodReplica(q) /\ Lost(result) \cap Renewed(result) = {} /\ result.seq \in Nat
  BY DEF Answerable, Subscription
<1>3. Continued(q, Failed(q), result)
  BY <1>2, RestsThere, Awaits
<1>4. ASSUME ~bad PROVE Continued(q, AskSessions(n), result)
  <2>1. /\ {Catalog} \in SUBSET Channels(snaps) /\ sessions \in SUBSET Channels(snaps)
        /\ chats \in SUBSET Channels(snaps)
        /\ ~Regresses(c, snaps, sessions) /\ ~Regresses(r, snaps, chats)
    <3> HIDE DEF c, r, sessions, chats
    <3> QED BY <1>4, NotRegressing
  <2>2. Advances(q, o, result) /\ GoodReplica(o)
    BY <1>2, SubscribedAdvances DEF Advances
  <2> HIDE DEF o
  <2>3. Advances(o, c, result) /\ GoodReplica(c) /\ HasState(c.red[Catalog])
    BY <2>1, <2>2, ApplyAdvances, ApplyKeeps
  <2> HIDE DEF c, sessions
  <2>4. /\ Advances(c, r, result) /\ GoodReplica(r)
        /\ \A ch \in DOMAIN c.red \ sessions : r.red[ch] = c.red[ch]
        /\ \A ch \in sessions : HasState(r.red[ch])
    <3>1. Advances(c, r, result)
      BY <2>1, <2>3, ApplyAdvances
    <3>2. /\ GoodReplica(r)
          /\ \A ch \in DOMAIN c.red \ sessions : r.red[ch] = c.red[ch]
          /\ \A ch \in sessions : HasState(r.red[ch])
      BY <2>1, <2>3, ApplyKeeps
    <3> QED BY <3>1, <3>2
  <2> HIDE DEF r, chats
  <2>5. /\ Advances(r, t, result) /\ GoodReplica(t)
        /\ \A ch \in DOMAIN r.red \ chats : t.red[ch] = r.red[ch]
        /\ \A ch \in chats : HasState(t.red[ch])
    <3>1. Advances(r, t, result)
      BY <2>1, <2>4, ApplyAdvances
    <3>2. /\ GoodReplica(t)
          /\ \A ch \in DOMAIN r.red \ chats : t.red[ch] = r.red[ch]
          /\ \A ch \in chats : HasState(t.red[ch])
      BY <2>1, <2>4, ApplyKeeps
    <3> QED BY <3>1, <3>2
  <2> HIDE DEF t
  <2>6. HasState(t.red[Catalog])
    BY <2>3, <2>4, <2>5 DEF GoodReplica, GoodReducers
  <2>7. Advances(t, n, result) /\ n.red = t.red
    BY <1>2, <2>5, NoteAdvances, NoteKeeps
  <2> HIDE DEF n
  <2>8. Advances(q, c, result)
    BY <1>2, <2>2, <2>3, AdvancesOn
  <2>9. Advances(q, r, result)
    BY <1>2, <2>4, <2>8, AdvancesOn
  <2>10. Advances(q, t, result)
    BY <1>2, <2>5, <2>9, AdvancesOn
  <2>11. Advances(q, n, result)
    BY <1>2, <2>7, <2>10, AdvancesOn
  <2> QED BY <2>6, <2>7, <2>11, HydrationAwaits
<1> HIDE DEF bad, n
<1> QED BY <1>1, <1>3, <1>4

\* A reconnect, however it is answered.
LEMMA ReconnectAnswerContinues ==
  ASSUME HostInv, NEW q, HasState(q.red[Catalog]), NEW result, Answerable(q, result),
         \/ result \in Subscription /\ result.kind = "snapshots" /\ GoodSnapshots(result.snapshots)
         \/ result \in Replay /\ \A i \in DOMAIN result.actions : Logged(result.actions[i])
         \/ result = Rejection
  PROVE  Continued(q, ReconnectAnswer(q, result), result)
<1>1. GoodReplica(q) /\ Lost(result) \cap Renewed(result) = {}
  BY DEF Answerable
<1>2. Continued(q, Failed(q), result)
  BY <1>1, RestsThere, Awaits
<1>3. CASE result \in Subscription /\ result.kind = "snapshots" /\ GoodSnapshots(result.snapshots)
  <2>1. ReconnectAnswer(q, result) = ReconnectSnapshots(q, result)
    BY <1>3 DEF ReconnectAnswer
  <2> QED BY <1>3, <2>1, ReconnectSnapshotsContinues
<1>4. CASE result = Rejection
  <2>1. ReconnectAnswer(q, result) = Failed(q)
    BY <1>4 DEF ReconnectAnswer, Rejection
  <2> QED BY <1>2, <2>1
<1>5. CASE result \in Replay /\ \A i \in DOMAIN result.actions : Logged(result.actions[i])
  <2> DEFINE y == Replayed(q, result.actions)
             d == DropMissing(y, result.missing)
             n == [d EXCEPT !.last = result.through]
  <2>1. /\ result.kind = "replay" /\ result.through \in Nat /\ result.actions \in Seq(Envelope)
        /\ Catalog \notin result.missing
    BY <1>5 DEF Replay, Missable
  <2>2. ReconnectAnswer(q, result) \in {AskSessions(n), Failed(q)}
    BY <2>1 DEF ReconnectAnswer
  <2>3. /\ GoodReplica(y) /\ HasState(y.red[Catalog])
        /\ y.subs = q.subs /\ y.shown = q.shown /\ DOMAIN y.red = DOMAIN q.red
        /\ \A ch \in DOMAIN q.red : HasState(q.red[ch]) =>
             HasState(y.red[ch]) /\ q.red[ch].rev <= y.red[ch].rev
    BY <1>1, <1>5, <2>1, ReplayedGood
  <2> HIDE DEF y
  <2>4. Advances(q, y, result)
    BY <2>3 DEF Advances, Moves
  <2>5. Advances(y, d, result) /\ GoodReplica(d) /\ HasState(d.red[Catalog])
    BY <2>1, <2>3, DropAdvances, DropKeeps
  <2> HIDE DEF d
  <2>6. n = [red |-> d.red, subs |-> d.subs, last |-> result.through, shown |-> d.shown]
    BY <2>5 DEF GoodReplica
  <2> HIDE DEF n
  <2>7. GoodReplica(n) /\ n.red = d.red /\ n.shown = d.shown /\ n.subs = d.subs
    BY <2>1, <2>5, <2>6 DEF GoodReplica
  <2>8. Advances(d, n, result)
    BY <2>5, <2>7, RestsThere
  <2>9. Advances(q, n, result)
    BY <1>1, <2>4, <2>5, <2>8, AdvancesOn
  <2>10. Continued(q, AskSessions(n), result)
    BY <2>5, <2>7, <2>9, HydrationAwaits
  <2> QED BY <1>2, <2>2, <2>10
<1> QED BY <1>3, <1>4, <1>5

-----------------------------------------------------------------------------
(* What is shown never falls back *)

\* Answers in flight renew published channels, take away what is gone for good,
\* and no answer renews what an earlier one, or it itself, takes away.
InOrder(d) ==
  \A i \in DOMAIN d : d[i].kind = "answer" =>
    /\ Renewed(d[i].result) \subseteq Known
    /\ \A ch \in Lost(d[i].result) : ch \in Chan /\ Gone(ch)
    /\ \A j \in DOMAIN d : j >= i /\ d[j].kind = "answer" =>
         Lost(d[i].result) \cap Renewed(d[j].result) = {}

\* No answer in flight has a baseline of the channel.
NotRenewed(d, ch) == \A i \in DOMAIN d : d[i].kind = "answer" => ch \notin Renewed(d[i].result)

\* The record of a channel is as old as its reducer or older, or the channel is
\* gone for good and its reducer will not come back.
Covered(q, ch) ==
  /\ ch \in DOMAIN q.red /\ HasState(q.red[ch])
  /\ \E rev \in 0 .. q.red[ch].rev : q.shown[ch] = StateAt(ch, rev)
Buried(q, d, ch) == ch \notin DOMAIN q.red /\ Gone(ch) /\ NotRenewed(d, ch)
Held(q, d) ==
  /\ q.subs \subseteq Known
  /\ \A ch \in DOMAIN q.shown : Covered(q, ch) \/ Buried(q, d, ch)

\* Only published channels are asked for.
AsksKnown(u) == \A i \in DOMAIN u : u[i].channels \subseteq Known

\* The invariant next to IInv that what is shown depends on.
ShownInv == InOrder(down) /\ Held(p, down) /\ AsksKnown(up)

\* What a step may not do.
NothingOlder ==
  \A ch \in DOMAIN p.shown \cap DOMAIN p'.shown : p'.shown[ch].stamp >= p.shown[ch].stamp

\* What was published stays published.
LEMMA KnownGrows ==
  ASSUME HostInv, HostInv', Grows
  PROVE  Known \subseteq Known'
<1>1. \A ch \in Chan : revs[ch] \in Nat /\ revs'[ch] \in Nat /\ revs'[ch] >= revs[ch]
  BY DEF HostInv, HostTypes, Grows
<1> QED BY <1>1 DEF Known

\* Without a commit the same is gone.
LEMMA GoneStays ==
  ASSUME UNCHANGED hostState
  PROVE  StaysGone
BY DEF hostState, StaysGone, Gone, Exists, Known

\* Answers that are delivered, lost or still on their way stay in order.
LEMMA QueueStays ==
  ASSUME HostInv, HostInv', Grows, StaysGone, down \in Seq(GoodItems), InOrder(down), NEW k \in Nat,
         \A i \in DOMAIN down' : /\ i \in Nat
                                 /\ down'[i].kind = "answer" => i + k \in DOMAIN down /\ down'[i] = down[i + k]
  PROVE  /\ InOrder(down)'
         /\ \A ch : NotRenewed(down, ch) => NotRenewed(down', ch)
<1>1. Known \subseteq Known'
  BY KnownGrows
<1>2. ASSUME NEW i \in DOMAIN down', down'[i].kind = "answer"
      PROVE  /\ Renewed(down'[i].result) \subseteq Known'
             /\ \A ch \in Lost(down'[i].result) : ch \in Chan /\ Gone(ch)'
             /\ \A j \in DOMAIN down' : j >= i /\ down'[j].kind = "answer" =>
                  Lost(down'[i].result) \cap Renewed(down'[j].result) = {}
  <2>1. i \in Nat /\ i + k \in DOMAIN down /\ down'[i] = down[i + k] /\ down[i + k].kind = "answer"
    BY <1>2
  <2>2. /\ Renewed(down'[i].result) \subseteq Known
        /\ \A ch \in Lost(down'[i].result) : ch \in Chan /\ Gone(ch)
    BY <2>1 DEF InOrder
  <2>3. ASSUME NEW j \in DOMAIN down', j >= i, down'[j].kind = "answer"
        PROVE  Lost(down'[i].result) \cap Renewed(down'[j].result) = {}
    <3>1. /\ j \in Nat /\ j + k \in DOMAIN down /\ down'[j] = down[j + k] /\ down[j + k].kind = "answer"
          /\ j + k >= i + k
      BY <2>1, <2>3
    <3> QED BY <2>1, <3>1 DEF InOrder
  <2> QED BY <1>1, <2>2, <2>3 DEF StaysGone
<1>3. ASSUME NEW ch, NotRenewed(down, ch) PROVE NotRenewed(down', ch)
  BY <1>3 DEF NotRenewed
<1> QED BY <1>2, <1>3 DEF InOrder

\* A replica that does not change stays held while the history grows.
LEMMA HeldStays ==
  ASSUME HostInv, HostInv', Grows, StaysGone, GoodReplica(p), p' = p, Held(p, down),
         \A ch : Gone(ch) /\ NotRenewed(down, ch) => NotRenewed(down', ch)
  PROVE  Held(p, down)' /\ NothingOlder
<1>1. Known \subseteq Known'
  BY KnownGrows
<1>2. DOMAIN p.shown \subseteq Chan /\ \A ch \in DOMAIN p.shown : p.shown[ch] \in State
  BY Distinct DEF GoodReplica, GoodShown
<1>3. ASSUME NEW ch \in DOMAIN p.shown PROVE Covered(p, ch)' \/ Buried(p, down, ch)'
  <2>1. CASE Covered(p, ch)
    <3>1. ch \in Chan /\ ch \in DOMAIN p.red /\ HasState(p.red[ch]) /\ p.red[ch].rev \in 0 .. revs[ch]
      BY <1>2, <2>1 DEF Covered, GoodReplica, GoodReducers, Had
    <3>2. PICK rev \in 0 .. p.red[ch].rev : p.shown[ch] = StateAt(ch, rev)
      BY <2>1 DEF Covered
    <3>3. rev \in 0 .. revs[ch]
      <4>1. revs[ch] \in Nat
        BY <3>1 DEF HostInv, HostTypes
      <4> QED BY <3>1, <3>2, <4>1
    <3>4. StateAt(ch, rev)' = StateAt(ch, rev)
      BY <3>1, <3>3 DEF Grows
    <3> QED BY <3>1, <3>2, <3>4 DEF Covered
  <2>2. CASE Buried(p, down, ch)
    BY <1>2, <2>2 DEF Buried, StaysGone
  <2> QED BY <2>1, <2>2 DEF Held
<1>4. Held(p, down)'
  BY <1>1, <1>3 DEF Held
<1>5. NothingOlder
  BY <1>2 DEF NothingOlder, State
<1> QED BY <1>4, <1>5

\* What was asked for stays published.
LEMMA AsksStay ==
  ASSUME HostInv, HostInv', Grows, AsksKnown(up), up' \in {up, <<>>}
  PROVE  AsksKnown(up)'
<1>1. Known \subseteq Known'
  BY KnownGrows
<1>2. CASE up' = up
  BY <1>1, <1>2 DEF AsksKnown
<1>3. CASE up' = <<>>
  BY <1>3 DEF AsksKnown
<1> QED BY <1>2, <1>3

\* Steps that leave the Host and the replica alone.
LEMMA QuietStepHolds ==
  ASSUME IInv, IInv', ShownInv, UNCHANGED <<hostState, p>>, up' \in {up, <<>>},
         down' = down \/ down' = <<>> \/ (down # <<>> /\ down' = Tail(down))
  PROVE  ShownInv' /\ NothingOlder
<1>1. HostInv /\ HostInv' /\ GoodReplica(p) /\ down \in Seq(GoodItems)
  BY DEF IInv, ClientTypes
<1>2. Grows /\ StaysGone
  BY <1>1, HostStays, GoneStays
<1>3. ASSUME NEW k \in {0, 1},
             \A i \in DOMAIN down' : i \in Nat /\ i + k \in DOMAIN down /\ down'[i] = down[i + k]
      PROVE  ShownInv' /\ NothingOlder
  <2>1. k \in Nat
    OBVIOUS
  <2>2. InOrder(down)' /\ \A ch : NotRenewed(down, ch) => NotRenewed(down', ch)
    BY <1>1, <1>2, <1>3, <2>1, QueueStays DEF ShownInv
  <2>3. Held(p, down)' /\ NothingOlder
    BY <1>1, <1>2, <2>2, HeldStays DEF ShownInv
  <2>4. AsksKnown(up)'
    BY <1>1, <1>2, AsksStay DEF ShownInv
  <2> QED BY <2>2, <2>3, <2>4 DEF ShownInv
<1>4. CASE down' = down
  <2>1. \A i \in DOMAIN down' : i \in Nat /\ i + 0 \in DOMAIN down /\ down'[i] = down[i + 0]
    BY <1>1, <1>4
  <2> QED BY <1>3, <2>1
<1>5. CASE down' = <<>>
  <2>1. \A i \in DOMAIN down' : i \in Nat /\ i + 0 \in DOMAIN down /\ down'[i] = down[i + 0]
    BY <1>5
  <2> QED BY <1>3, <2>1
<1>6. CASE down # <<>> /\ down' = Tail(down)
  <2>1. \A i \in DOMAIN down' : i \in Nat /\ i + 1 \in DOMAIN down /\ down'[i] = down[i + 1]
    BY <1>1, <1>6, TailOf
  <2> QED BY <1>3, <2>1
<1> QED BY <1>4, <1>5, <1>6

\* A commit delivers actions, which are no answers.
LEMMA HostCommitHolds ==
  ASSUME IInv, IInv', ShownInv, HostCommit
  PROVE  ShownInv' /\ NothingOlder
<1>1. HostInv /\ HostInv' /\ GoodReplica(p) /\ down \in Seq(GoodItems)
  BY DEF IInv, ClientTypes
<1>2. /\ Commit /\ down' = (IF link THEN down \o Delivered ELSE down)
      /\ p' = p /\ up' = up
  BY DEF HostCommit
<1>3. Grows /\ StaysGone
  BY <1>1, <1>2, CommitsKeep
<1>4. \A i \in DOMAIN down' :
        /\ i \in Nat
        /\ down'[i].kind = "answer" => i + 0 \in DOMAIN down /\ down'[i] = down[i + 0]
  <2>1. Delivered \in Seq(LoggedActions') /\ \A j \in DOMAIN Delivered : Delivered[j].kind = "action"
    BY <1>1, DeliveredIs
  <2>2. CASE down' = down \o Delivered
    <3>1. \A i \in DOMAIN down' :
            /\ i \in Nat
            /\ \/ i \in DOMAIN down /\ down'[i] = down[i]
               \/ \E j \in DOMAIN Delivered : down'[i] = Delivered[j]
      BY <1>1, <2>1, <2>2, Concatenation
    <3> QED BY <2>1, <3>1
  <2>3. CASE down' = down
    BY <1>1, <2>3
  <2> QED BY <1>2, <2>2, <2>3
<1>5. InOrder(down)' /\ \A ch : NotRenewed(down, ch) => NotRenewed(down', ch)
  BY <1>1, <1>3, <1>4, QueueStays DEF ShownInv
<1>6. Held(p, down)' /\ NothingOlder
  BY <1>1, <1>2, <1>3, <1>5, HeldStays DEF ShownInv
<1>7. AsksKnown(up)'
  BY <1>1, <1>2, <1>3, AsksStay DEF ShownInv
<1> QED BY <1>5, <1>6, <1>7 DEF ShownInv

\* A new answer renews what exists and takes away what is gone.
LEMMA ResultIsFresh ==
  ASSUME HostInv, NEW at, NEW last, NEW channels \in SUBSET Known,
         NEW result, result = IF at = "reconnect" THEN ReconnectResult(last, channels)
                              ELSE SubscribedResult(channels)
  PROVE  /\ Renewed(result) \subseteq Known /\ \A ch \in Renewed(result) : Exists(ch)
         /\ \A ch \in Lost(result) : ch \in Chan /\ Gone(ch)
<1>1. /\ Present(channels) \subseteq Known /\ \A ch \in Present(channels) : Exists(ch)
      /\ \A ch \in Missing(channels) : ch \in Known /\ ~Exists(ch)
  BY DEF Present, Missing
<1>2. Channels({Snapshot(ch) : ch \in Present(channels)}) = Present(channels)
  <2>1. \A ch : Snapshot(ch).chan = ch
    BY DEF Snapshot
  <2> QED BY <2>1 DEF Channels
<1>3. Renewed(result) \subseteq Present(channels)
  BY <1>2 DEF Renewed, ReconnectResult, SubscribedResult
<1>4. Lost(result) \subseteq Missing(channels) \cup {c \in Chat : Home[c] \in Missing(channels)}
  BY DEF Lost, ReconnectResult, SubscribedResult
<1>5. \A ch \in Missing(channels) : ch \in Chan /\ Gone(ch)
  BY <1>1, Distinct DEF Gone, Known
<1>6. ASSUME NEW c \in Chat, Home[c] \in Missing(channels) PROVE c \in Chan /\ Gone(c)
  <2>1. Home[c] \notin live /\ Home[c] \in Known /\ c \in Chan /\ c # Catalog
    BY <1>1, <1>6, Distinct DEF Exists
  <2>2. c \notin live
    BY <2>1 DEF HostInv, Rooted
  <2> QED BY <2>1, <2>2 DEF Gone, Exists
<1> QED BY <1>1, <1>3, <1>4, <1>5, <1>6

\* The Host's answer is the last one.
LEMMA HandleRequestHolds ==
  ASSUME IInv, IInv', ShownInv, HandleRequest
  PROVE  ShownInv' /\ NothingOlder
<1> DEFINE req == Head(up)
           result == IF req.at = "reconnect" THEN ReconnectResult(req.last, req.channels)
                     ELSE SubscribedResult(req.channels)
           x == Answer(req.from, req.at, result)
<1>1. HostInv /\ HostInv' /\ GoodReplica(p) /\ down \in Seq(GoodItems) /\ up \in Seq(Req)
  BY DEF IInv, ClientTypes
<1>2. /\ up # <<>> /\ down' = Append(down, x) /\ up' = Tail(up)
      /\ UNCHANGED <<hostState, p>>
  BY DEF HandleRequest
<1>3. Grows /\ StaysGone
  BY <1>1, <1>2, HostStays, GoneStays
<1>4. req.channels \in SUBSET Known
  BY <1>1, <1>2, TailOf DEF ShownInv, AsksKnown
<1>5. AsksKnown(up)'
  <2>1. \A i \in DOMAIN Tail(up) : i + 1 \in DOMAIN up /\ Tail(up)[i] = up[i + 1]
    BY <1>1, <1>2, TailOf
  <2>2. Known \subseteq Known'
    BY <1>1, <1>3, KnownGrows
  <2> QED BY <1>2, <2>1, <2>2 DEF ShownInv, AsksKnown
<1> HIDE DEF req
<1>6. x.result = result /\ x.kind = "answer"
  BY DEF Answer
<1>7. /\ Renewed(result) \subseteq Known /\ \A ch \in Renewed(result) : Exists(ch)
      /\ \A ch \in Lost(result) : ch \in Chan /\ Gone(ch)
  <2> DEFINE y == result
  <2>1. y = IF req.at = "reconnect" THEN ReconnectResult(req.last, req.channels)
            ELSE SubscribedResult(req.channels)
    OBVIOUS
  <2> HIDE DEF y
  <2>2. /\ Renewed(y) \subseteq Known /\ \A ch \in Renewed(y) : Exists(ch)
        /\ \A ch \in Lost(y) : ch \in Chan /\ Gone(ch)
    BY <1>1, <1>4, <2>1, ResultIsFresh
  <2> QED BY <2>2 DEF y
<1> HIDE DEF result, x
<1>8. /\ DOMAIN down' = 1 .. Len(down) + 1 /\ DOMAIN down = 1 .. Len(down) /\ Len(down) \in Nat
      /\ down'[Len(down) + 1] = x /\ \A i \in 1 .. Len(down) : down'[i] = down[i]
  BY <1>1, <1>2
<1>9. Known' = Known /\ \A ch : Gone(ch)' = Gone(ch)
  BY <1>2 DEF hostState, Known, Gone, Exists
<1>10. InOrder(down)'
  <2>1. ASSUME NEW i \in DOMAIN down', down'[i].kind = "answer"
        PROVE  /\ Renewed(down'[i].result) \subseteq Known
               /\ \A ch \in Lost(down'[i].result) : ch \in Chan /\ Gone(ch)
               /\ \A j \in DOMAIN down' : j >= i /\ down'[j].kind = "answer" =>
                    Lost(down'[i].result) \cap Renewed(down'[j].result) = {}
    <3>1. /\ Renewed(down'[i].result) \subseteq Known
          /\ \A ch \in Lost(down'[i].result) : ch \in Chan /\ Gone(ch)
      <4>1. CASE i = Len(down) + 1
        BY <1>6, <1>7, <1>8, <4>1
      <4>2. CASE i # Len(down) + 1
        <5>1. i \in DOMAIN down /\ down'[i] = down[i]
          BY <1>8, <4>2
        <5> QED BY <2>1, <5>1 DEF ShownInv, InOrder
      <4> QED BY <4>1, <4>2
    <3>2. ASSUME NEW j \in DOMAIN down', j >= i, down'[j].kind = "answer"
          PROVE  Lost(down'[i].result) \cap Renewed(down'[j].result) = {}
      <4>1. CASE j = Len(down) + 1
        <5>1. \A ch \in Renewed(down'[j].result) : Exists(ch)
          BY <1>6, <1>7, <1>8, <4>1
        <5> QED BY <3>1, <5>1 DEF Gone
      <4>2. CASE j # Len(down) + 1
        <5>1. i \in DOMAIN down /\ down'[i] = down[i] /\ j \in DOMAIN down /\ down'[j] = down[j]
          BY <1>8, <3>2, <4>2
        <5> QED BY <2>1, <3>2, <5>1 DEF ShownInv, InOrder
      <4> QED BY <4>1, <4>2
    <3> QED BY <3>1, <3>2
  <2> QED BY <1>9, <2>1 DEF InOrder
<1>11. ASSUME NEW ch, Gone(ch), NotRenewed(down, ch) PROVE NotRenewed(down', ch)
  <2> SUFFICES ASSUME NEW i \in DOMAIN down', down'[i].kind = "answer"
               PROVE  ch \notin Renewed(down'[i].result)
    BY DEF NotRenewed
  <2>1. CASE i = Len(down) + 1
    BY <1>6, <1>7, <1>8, <1>11, <2>1 DEF Gone
  <2>2. CASE i # Len(down) + 1
    <3>1. i \in DOMAIN down /\ down'[i] = down[i]
      BY <1>8, <2>2
    <3> QED BY <1>11, <3>1 DEF NotRenewed
  <2> QED BY <2>1, <2>2
<1>12. Held(p, down)' /\ NothingOlder
  BY <1>1, <1>2, <1>3, <1>11, HeldStays DEF ShownInv
<1> QED BY <1>5, <1>10, <1>12 DEF ShownInv

\* A computation shows nothing older, and what it shows stays held.
LEMMA ContinuedHolds ==
  ASSUME IInv, IInv', ShownInv, UNCHANGED hostState, NEW out, p' = out.p,
         NEW result, Continued(p, out, result),
         \A ch \in Lost(result) : Gone(ch) /\ NotRenewed(down', ch),
         \A ch : NotRenewed(down, ch) => ch \notin Renewed(result) /\ NotRenewed(down', ch)
  PROVE  Held(p, down)' /\ NothingOlder
<1>1. HostInv /\ GoodReplica(p) /\ GoodReplica(p)' /\ GoodReplica(p')
  <2>1. \A ch, rev : StateAt(ch, rev)' = StateAt(ch, rev)
    BY DEF hostState, StateAt, InitialState, StateOf, ListedIn
  <2>2. revs' = revs
    BY DEF hostState
  <2>3. GoodReplica(p)' => GoodReplica(p')
    BY <2>1, <2>2 DEF GoodReplica, GoodReducers, GoodShown, Had
  <2> QED BY <2>3 DEF IInv
<1>2. Held(p, down)
  BY DEF ShownInv
<1>3. /\ Known' = Known /\ \A ch : Gone(ch)' = Gone(ch)
      /\ \A ch, rev : StateAt(ch, rev)' = StateAt(ch, rev)
  BY DEF hostState, Known, Gone, Exists, StateAt, InitialState, StateOf, ListedIn
<1>4. Presents(p, p', result) /\ p'.subs \subseteq Known
  BY DEF Continued
<1>5. ASSUME NEW ch \in DOMAIN p'.shown
      PROVE  /\ Covered(p', ch) \/ Buried(p', down', ch)
             /\ ch \in DOMAIN p.shown => p'.shown[ch].stamp >= p.shown[ch].stamp
  <2>1. /\ Moves(p, p', ch, result)
        /\ Fresh(p', ch) \/ (ch \in DOMAIN p.shown /\ p'.shown[ch] = p.shown[ch])
    BY <1>4 DEF Presents
  <2>2. ch \in Chan /\ p'.shown[ch] \in State /\ revs[ch] \in Nat
    BY <1>1, Distinct DEF GoodReplica, GoodShown, HostInv, HostTypes
  <2>3. ch \in DOMAIN p.shown => Covered(p, ch) \/ Buried(p, down, ch)
    BY <1>2 DEF Held
  <2>4. CASE Fresh(p', ch)
    <3>1. ch \in DOMAIN p'.red /\ HasState(p'.red[ch]) /\ p'.shown[ch] = p'.red[ch].state
      BY <2>4 DEF Fresh
    <3>2. p'.red[ch].rev \in 0 .. revs[ch] /\ p'.red[ch].state = StateAt(ch, p'.red[ch].rev)
      BY <1>1, <3>1 DEF GoodReplica, GoodReducers, Had
    <3>3. Covered(p', ch)
      <4>1. p'.red[ch].rev \in 0 .. p'.red[ch].rev
        BY <2>2, <3>2
      <4> QED BY <3>1, <3>2, <4>1 DEF Covered
    <3>4. ASSUME ch \in DOMAIN p.shown PROVE p'.shown[ch].stamp >= p.shown[ch].stamp
      <4>1. CASE Buried(p, down, ch)
        BY <2>1, <3>1, <4>1 DEF Buried, Moves
      <4>2. CASE Covered(p, ch)
        <5>1. ch \in DOMAIN p.red /\ p.red[ch].rev <= p'.red[ch].rev
          BY <2>1, <3>1, <4>2 DEF Covered, Moves
        <5>2. PICK rev \in 0 .. p.red[ch].rev : p.shown[ch] = StateAt(ch, rev)
          BY <4>2 DEF Covered
        <5>3. p.red[ch].rev \in Nat
          BY <1>1, <5>1, ReducerRevision
        <5>4. rev \in 0 .. revs[ch] /\ p'.red[ch].rev \in rev .. revs[ch]
          BY <2>2, <3>2, <5>1, <5>3
        <5>5. /\ StateAt(ch, rev).stamp <= StateAt(ch, p'.red[ch].rev).stamp
              /\ StateAt(ch, rev).stamp \in Int /\ StateAt(ch, p'.red[ch].rev).stamp \in Int
          BY <1>1, <2>2, <3>2, <5>4 DEF HostInv, Aging
        <5> QED BY <3>1, <3>2, <5>2, <5>5
      <4> QED BY <2>3, <3>4, <4>1, <4>2
    <3> QED BY <3>3, <3>4
  <2>5. CASE ch \in DOMAIN p.shown /\ p'.shown[ch] = p.shown[ch]
    <3>1. p'.shown[ch].stamp >= p.shown[ch].stamp
      BY <2>2, <2>5 DEF State
    <3>2. CASE Buried(p, down, ch)
      BY <2>1, <3>1, <3>2 DEF Buried, Moves
    <3>3. CASE Covered(p, ch)
      <4>1. PICK rev \in 0 .. p.red[ch].rev : p.shown[ch] = StateAt(ch, rev)
        BY <3>3 DEF Covered
      <4>2. CASE ch \notin DOMAIN p'.red /\ ch \in Lost(result)
        BY <3>1, <4>2 DEF Buried
      <4>3. CASE ch \in DOMAIN p'.red /\ HasState(p'.red[ch]) /\ p.red[ch].rev <= p'.red[ch].rev
        <5>1. p.red[ch].rev \in Nat /\ p'.red[ch].rev \in Nat
          BY <1>1, <3>3, <4>3, ReducerRevision DEF Covered
        <5>2. rev \in 0 .. p'.red[ch].rev
          BY <4>3, <5>1
        <5> QED BY <2>5, <3>1, <4>1, <4>3, <5>2 DEF Covered
      <4> QED BY <2>1, <3>1, <3>3, <4>2, <4>3 DEF Covered, Moves
    <3> QED BY <2>3, <2>5, <3>1, <3>2, <3>3
  <2> QED BY <2>1, <2>4, <2>5
<1>6. Held(p, down)'
  <2>1. \A ch \in DOMAIN p'.shown : Covered(p, ch)' \/ Buried(p, down, ch)'
    BY <1>3, <1>5 DEF Covered, Buried
  <2> QED BY <1>3, <1>4, <2>1 DEF Held
<1>7. NothingOlder
  BY <1>5 DEF NothingOlder
<1> QED BY <1>6, <1>7

\* A thread goes on with what its computation came to.
LEMMA ProceedHolds ==
  ASSUME IInv, IInv', ShownInv, UNCHANGED hostState,
         NEW t, NEW why, NEW env, NEW out, NEW rest, Proceed(t, why, env, out, rest),
         NEW result, Continued(p, out, result), InOrder(down)',
         \A ch \in Lost(result) : Gone(ch) /\ NotRenewed(down', ch),
         \A ch : NotRenewed(down, ch) => ch \notin Renewed(result) /\ NotRenewed(down', ch)
  PROVE  ShownInv' /\ NothingOlder
<1>1. p' = out.p
  BY DEF Proceed
<1>2. Held(p, down)' /\ NothingOlder
  BY <1>1, ContinuedHolds
<1>3. \/ up' = up
      \/ out.then \notin {"done", "failed"} /\ up' = Append(up, Request(t, out.at, out.asked, out.p.last))
  <2>1. CASE out.then = "done"
    BY <2>1 DEF Proceed, Finish
  <2>2. CASE out.then # "done" /\ (out.then = "failed" \/ ~link)
    BY <2>2 DEF Proceed, Fail
  <2>3. CASE out.then # "done" /\ ~(out.then = "failed" \/ ~link)
    BY <2>3 DEF Proceed
  <2> QED BY <2>1, <2>2, <2>3
<1>4. Known' = Known /\ up \in Seq(Req)
  BY DEF hostState, Known, IInv, ClientTypes
<1>5. AsksKnown(up)'
  <2>1. CASE up' = up
    BY <1>4, <2>1 DEF ShownInv, AsksKnown
  <2>2. CASE out.then \notin {"done", "failed"} /\ up' = Append(up, Request(t, out.at, out.asked, out.p.last))
    <3> DEFINE r == Request(t, out.at, out.asked, out.p.last)
    <3>1. r.channels \subseteq Known
      BY <2>2 DEF Continued, Request
    <3> HIDE DEF r
    <3>2. up' = Append(up, r)
      BY <2>2 DEF r
    <3>3. \A i \in DOMAIN up' : up'[i] = r \/ (i \in DOMAIN up /\ up'[i] = up[i])
      BY <1>4, <3>2
    <3> QED BY <1>4, <3>1, <3>3 DEF ShownInv, AsksKnown
  <2> QED BY <1>3, <2>1, <2>2
<1> QED BY <1>2, <1>5 DEF ShownInv

\* Whatever a thread resumes with, it shows nothing older.
LEMMA ResumedContinues ==
  ASSUME HostInv, NEW thread \in Pending,
         NEW result \in Subscription \cup Replay \cup {Rejection}, Answerable(p, result),
         GoodResult(result), Fits(thread.at, result), thread.at = "resync" => thread.env \in Envelope,
         thread.at = "reconnect" => HasState(p.red[Catalog])
  PROVE  Continued(p, Resumed(thread, result), result)
<1>1. /\ result \in Subscription => result.kind \in {"subscribed", "snapshots"}
      /\ result \in Replay => result.kind = "replay"
      /\ result = Rejection => result.kind = "rejected"
  BY DEF Subscription, Replay, Rejection
<1>2. thread.at \in Place
  BY DEF Pending
<1>3. CASE thread.at # "reconnect"
  <2>1. result \in Subscription /\ GoodSnapshots(result.snapshots)
    BY <1>1, <1>3 DEF Fits, GoodResult
  <2>2. CASE thread.at \in {"initialize", "refresh"}
    <3>1. Resumed(thread, result) = BaselineAnswer(p, result)
      BY <2>2 DEF Resumed
    <3> QED BY <2>1, <3>1, BaselineAnswerContinues
  <2>3. CASE thread.at = "sessions"
    <3>1. Resumed(thread, result) = SessionsAnswer(p, thread.asked, result)
      BY <2>3 DEF Resumed
    <3> QED BY <2>1, <3>1, SessionsAnswerContinues
  <2>4. CASE thread.at = "topology"
    <3>1. Resumed(thread, result) = TopologyAnswer(p, thread.asked, result)
      BY <2>4 DEF Resumed
    <3> QED BY <2>1, <3>1, TopologyAnswerContinues
  <2>5. CASE thread.at = "resync"
    <3>1. Resumed(thread, result) = ResyncAnswer(p, thread.env, result)
      BY <2>5 DEF Resumed
    <3> QED BY <2>1, <2>5, <3>1, ResyncAnswerContinues
  <2> QED BY <1>2, <1>3, <2>2, <2>3, <2>4, <2>5 DEF Place
<1>4. CASE thread.at = "reconnect"
  <2>1. Resumed(thread, result) = ReconnectAnswer(p, result)
    BY <1>4 DEF Resumed
  <2>2. \/ result \in Subscription /\ result.kind = "snapshots" /\ GoodSnapshots(result.snapshots)
        \/ result \in Replay /\ \A i \in DOMAIN result.actions : Logged(result.actions[i])
        \/ result = Rejection
    BY <1>1, <1>4 DEF Fits, GoodResult
  <2> QED BY <1>4, <2>1, <2>2, ReconnectAnswerContinues
<1> QED BY <1>3, <1>4

\* A thread resumes with the answer it awaits.
LEMMA ReceiveAnswerHolds ==
  ASSUME IInv, IInv', ShownInv, ReceiveAnswer
  PROVE  ShownInv' /\ NothingOlder
<1> DEFINE x == Head(down)
           t == x.to
           thread == threads[t]
           result == x.result
           out == Resumed(thread, result)
<1>1. /\ HostInv /\ HostInv' /\ ClientTypes /\ Roles /\ GoodReplica(p) /\ Matched(up, down, threads)
      /\ down \in Seq(GoodItems)
  BY DEF IInv, ClientTypes
<1>2. /\ down # <<>> /\ x.kind = "answer" /\ down' = Tail(down) /\ UNCHANGED hostVars
      /\ Proceed(t, thread.why, thread.env, out, tasks)
  BY DEF ReceiveAnswer
<1>3. UNCHANGED hostState
  BY <1>2 DEF hostVars
<1>4. /\ x \in GoodItems /\ x = down[1] /\ 1 \in DOMAIN down
      /\ \A i \in DOMAIN Tail(down) : i + 1 \in DOMAIN down /\ Tail(down)[i] = down[i + 1] /\ i \in Nat
  BY <1>1, <1>2, TailOf
<1>5. x \in Ans /\ GoodResult(result)
  <2>1. \A a \in LoggedActions : a.kind = "action"
    <3>1. \A a \in LoggedActions : a \in Envelope
      BY <1>1, LoggedHad DEF LoggedActions, Logged
    <3> QED BY <3>1 DEF Envelope
  <2> QED BY <1>2, <1>4, <2>1 DEF GoodItems
<1>6. Asked(threads, t, x.at) /\ Fits(x.at, result)
  BY <1>1, <1>2, MatchedTail
<1>7. t \in Thread /\ result \in Subscription \cup Replay \cup {Rejection}
  BY <1>5 DEF Ans
<1>8. /\ Renewed(result) \subseteq Known
      /\ \A ch \in Lost(result) : Gone(ch)
      /\ Lost(result) \cap Renewed(result) = {}
      /\ \A j \in DOMAIN down : j >= 1 /\ down[j].kind = "answer" =>
           Lost(result) \cap Renewed(down[j].result) = {}
  <2>1. down[1].kind = "answer" /\ result = down[1].result
    BY <1>2, <1>4
  <2>2. 1 \in DOMAIN down
    BY <1>4
  <2> HIDE DEF x, result
  <2>3. /\ Renewed(down[1].result) \subseteq Known
        /\ \A ch \in Lost(down[1].result) : ch \in Chan /\ Gone(ch)
        /\ \A j \in DOMAIN down : j >= 1 /\ down[j].kind = "answer" =>
             Lost(down[1].result) \cap Renewed(down[j].result) = {}
    BY <2>1, <2>2 DEF ShownInv, InOrder
  <2>4. Lost(down[1].result) \cap Renewed(down[1].result) = {}
    BY <2>1, <2>2, <2>3
  <2> QED BY <2>1, <2>3, <2>4
<1>9. Answerable(p, result)
  BY <1>1, <1>8 DEF Answerable, ShownInv, Held
<1>10. InOrder(down)' /\ \A ch : NotRenewed(down, ch) => ch \notin Renewed(result) /\ NotRenewed(down', ch)
  <2>1. Grows /\ StaysGone
    BY <1>1, <1>3, HostStays, GoneStays
  <2>2. \A i \in DOMAIN down' :
          i \in Nat /\ (down'[i].kind = "answer" => i + 1 \in DOMAIN down /\ down'[i] = down[i + 1])
    BY <1>2, <1>4
  <2>3. InOrder(down)' /\ \A ch : NotRenewed(down, ch) => NotRenewed(down', ch)
    BY <1>1, <2>1, <2>2, QueueStays DEF ShownInv
  <2>4. \A ch : NotRenewed(down, ch) => ch \notin Renewed(result)
    BY <1>2, <1>4 DEF NotRenewed
  <2> QED BY <2>3, <2>4
<1>11. \A ch \in Lost(result) : Gone(ch) /\ NotRenewed(down', ch)
  <2> SUFFICES ASSUME NEW ch \in Lost(result) PROVE NotRenewed(down', ch)
    BY <1>8
  <2> HIDE DEF x, result
  <2> QED BY <1>2, <1>4, <1>8 DEF NotRenewed
<1> HIDE DEF x, t, result
<1>12. thread \in Pending /\ thread # Idle /\ thread.at = x.at
  BY <1>1, <1>6, <1>7 DEF Asked, ClientTypes
<1>13. t = "init" \/ t = "queue"
  BY <1>7 DEF Thread
<1>14. /\ thread.at = "reconnect" => HasState(p.red[Catalog])
       /\ thread.at = "resync" => thread.env \in Envelope
  BY <1>1, <1>7, <1>12, <1>13 DEF Roles
<1>15. Continued(p, out, result)
  <2> HIDE DEF thread
  <2> QED BY <1>1, <1>5, <1>6, <1>7, <1>9, <1>12, <1>14, ResumedContinues
<1> HIDE DEF thread, out
<1> QED BY <1>2, <1>3, <1>10, <1>11, <1>15, ProceedHolds

\* The Sequencer's next task.
LEMMA RunTaskHolds ==
  ASSUME IInv, IInv', ShownInv, RunTask
  PROVE  ShownInv' /\ NothingOlder
<1> DEFINE task == Head(tasks)
           rest == Tail(tasks)
<1>1. HostInv /\ HostInv' /\ ClientTypes /\ GoodReplica(p) /\ down \in Seq(GoodItems)
  BY DEF IInv, ClientTypes
<1>2. tasks # <<>> /\ UNCHANGED hostState /\ down' = down
  BY DEF RunTask, hostVars
<1>3. task \in GoodTasks
  BY <1>1, <1>2, TailOf DEF ClientTypes
<1>4. /\ task.kind \in {"action", "refresh", "recover", "complete"}
      /\ task.kind = "action" => Logged(task.env)
  BY <1>3 DEF GoodTasks, TaskRecord
<1>5. /\ InOrder(down)' /\ \A ch \in Lost(Rejection) : Gone(ch) /\ NotRenewed(down', ch)
      /\ \A ch : NotRenewed(down, ch) => ch \notin Renewed(Rejection) /\ NotRenewed(down', ch)
  <2>1. Known' = Known /\ \A ch : Gone(ch)' = Gone(ch)
    BY <1>2 DEF hostState, Known, Gone, Exists
  <2> QED BY <1>2, <2>1, NothingLost DEF ShownInv, InOrder
<1>6. Answerable(p, Rejection)
  BY <1>1, NothingLost DEF Answerable, ShownInv, Held
<1>7. \A at : Continued(p, Ask(p, at, p.subs), Rejection)
  <2>1. Advances(p, p, Rejection) /\ p.subs \subseteq Known
    BY <1>1, <1>6, RestsThere DEF Answerable
  <2> QED BY <1>6, <2>1, Awaits
<1> HIDE DEF task, rest
<1>8. CASE task.kind = "action"
  <2>1. Proceed("queue", "action", task.env, LiveAction(p, task.env), rest)
    BY <1>8 DEF RunTask, task, rest
  <2>2. Continued(p, LiveAction(p, task.env), Rejection)
    BY <1>1, <1>4, <1>6, <1>8, LiveActionContinues
  <2> QED BY <1>2, <1>5, <2>1, <2>2, ProceedHolds
<1>9. CASE task.kind = "refresh"
  <2>1. Proceed("queue", "refresh", NoAction, Ask(p, "refresh", p.subs), rest)
    BY <1>9 DEF RunTask, task, rest
  <2> QED BY <1>2, <1>5, <1>7, <2>1, ProceedHolds
<1>10. CASE task.kind = "recover" /\ Current(task.gen)
  <2>1. Proceed("queue", "recover", NoAction, Ask(p, "reconnect", p.subs), rest)
    BY <1>10 DEF RunTask, task, rest
  <2> QED BY <1>2, <1>5, <1>7, <2>1, ProceedHolds
<1>11. CASE (task.kind = "recover" /\ ~Current(task.gen)) \/ task.kind = "complete"
  <2>1. p' = p /\ up' = up
    BY <1>11 DEF RunTask, task, rest
  <2> QED BY <1>2, <2>1, QuietStepHolds
<1> QED BY <1>4, <1>8, <1>9, <1>10, <1>11

\* The user never sees a Session or Chat fall back to an older state, whatever
\* is lost, retried, answered with a baseline or applied late
\* (AgentHostSessionsProvider.applyAction, hydrateCatalog, applyReconnectResult).
THEOREM NeverShownOlder == Spec => ShownNeverRegresses
<1>1. Init => ShownInv
  <2> SUFFICES ASSUME Init PROVE ShownInv
    OBVIOUS
  <2>1. /\ down = <<>> /\ p.subs = {} /\ DOMAIN p.shown = {}
        /\ up = <<Request("init", "initialize", {Catalog}, Unnoted)>>
    BY DEF Init, NewReplica
  <2>2. AsksKnown(up)
    BY <2>1 DEF AsksKnown, Request, Known
  <2> QED BY <2>1, <2>2 DEF ShownInv, InOrder, Held
<1>2. IInv /\ IInv' /\ ShownInv /\ [Next]_vars => ShownInv' /\ NothingOlder
  <2> SUFFICES ASSUME IInv, IInv', ShownInv, [Next]_vars PROVE ShownInv' /\ NothingOlder
    OBVIOUS
  <2>1. CASE ReceiveAction
    <3>1. UNCHANGED <<hostState, p>> /\ up' = up /\ down # <<>> /\ down' = Tail(down)
      BY <2>1 DEF ReceiveAction, hostVars
    <3> QED BY <3>1, QuietStepHolds
  <2>2. CASE RequestRefresh \/ Interrupt \/ Restore \/ UNCHANGED vars
    <3>1. UNCHANGED <<hostState, p>> /\ up' \in {up, <<>>} /\ (down' = down \/ down' = <<>>)
      BY <2>2 DEF RequestRefresh, Interrupt, Restore, vars, hostVars
    <3> QED BY <3>1, QuietStepHolds
  <2> QED BY <2>1, <2>2, HostCommitHolds, HandleRequestHolds, ReceiveAnswerHolds, RunTaskHolds DEF Next
<1>3. NothingOlder <=> (\A ch \in DOMAIN p.shown \cap DOMAIN p'.shown :
                          p'.shown[ch].stamp >= p.shown[ch].stamp)
  BY DEF NothingOlder
<1>4. Spec => []ShownInv /\ [][NothingOlder]_vars
  BY <1>1, <1>2, InductiveInvariant, PTL DEF Spec
<1> QED BY <1>3, <1>4, PTL DEF ShownNeverRegresses
=============================================================================
