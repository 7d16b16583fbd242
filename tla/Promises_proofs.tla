-------------------------- MODULE Promises_proofs --------------------------
(***************************************************************************)
(* Proofs about the three components that keep a promise to everything     *)
(* else against an environment that may do anything: the reducer of a      *)
(* channel against the worst transport, the application storage against    *)
(* failed transactions and restarts, and mutations against lost answers.   *)
(*                                                                         *)
(* The first part shows that the reducer keeps every replica a true copy   *)
(* of the channel at one of its revisions, for every length of history,    *)
(* every number of remembered actions and every delivery order.            *)
(***************************************************************************)
EXTENDS ChannelDelivery, ApplicationStorage, HostOperations, TLAPS

\* The states of the Host's history do not change when it grows.
LEMMA AppendKeepsHistory ==
  ASSUME NEW e, NEW S, log \in Seq(S), log' = Append(log, e)
  PROVE  /\ Len(log') = Len(log) + 1
         /\ DOMAIN log' = DOMAIN log \cup {Len(log) + 1}
         /\ log'[Len(log) + 1] = e
         /\ \A i \in DOMAIN log : log'[i] = log[i]
         /\ \A rev \in 0 .. Len(log) : StateAt(rev)' = StateAt(rev)
BY DEF StateAt

\* A replica without a state and a channel without a history.
LEMMA DeliveryInitInv == DeliveryInit => DeliveryIInv
BY NoStateAssumption
   DEF DeliveryInit, DeliveryIInv, DeliveryTypeOK, LogOrdered, SnapshotsLocated, ReducerLocated,
       AppliedRemembered, UnsetReducer, ConflictOnlyWhenForgotten, NewReducer, HasState,
       Envelopes, Snapshots, Located

\* The types of the actions in the history.
LEMMA LogTypes ==
  ASSUME DeliveryTypeOK
  PROVE  /\ Len(log) \in Nat /\ DOMAIN log = 1 .. Len(log)
         /\ \A i \in DOMAIN log : /\ log[i] \in Envelopes
                                  /\ log[i].seq \in Nat
                                  /\ log[i].rev \in Nat
                                  /\ log[i].state \in Nat
<1>1. log \in Seq(Envelopes)
  BY DEF DeliveryTypeOK
<1>2. \A i \in DOMAIN log : log[i] \in Envelopes
  BY <1>1
<1> QED BY <1>1, <1>2 DEF Envelopes

\* Publishing extends the history and leaves every replica where it was.
LEMMA PublishInv == DeliveryIInv /\ Publish => DeliveryIInv'
<1> SUFFICES ASSUME DeliveryIInv, Publish PROVE DeliveryIInv'
  OBVIOUS
<1> DEFINE e == [chan |-> Chan, seq |-> hostSeq + 1,
                 rev |-> Len(log) + 1, state |-> hostSeq + 1]
<1>1. /\ hostSeq \in Nat /\ hostSeq' = hostSeq + 1
      /\ log \in Seq(Envelopes) /\ e \in Envelopes /\ log' = Append(log, e)
      /\ taken' = taken /\ reducer' = reducer
  BY DEF DeliveryIInv, DeliveryTypeOK, Publish, Envelopes
<1> HIDE DEF e
<1>2. /\ Len(log') = Len(log) + 1
      /\ DOMAIN log' = DOMAIN log \cup {Len(log) + 1}
      /\ log'[Len(log) + 1] = e
      /\ \A i \in DOMAIN log : log'[i] = log[i]
      /\ \A rev \in 0 .. Len(log) : StateAt(rev)' = StateAt(rev)
  BY <1>1, AppendKeepsHistory
<1>3. e.seq = hostSeq + 1 /\ e.rev = Len(log) + 1
  BY DEF e
<1>4. \A i \in DOMAIN log : log[i].seq \in Nat /\ log[i].rev \in Nat
  BY LogTypes DEF DeliveryIInv
<1>5. Len(log) \in Nat /\ DOMAIN log = 1 .. Len(log)
  BY <1>1
<1>6. DeliveryTypeOK'
  BY <1>1 DEF DeliveryIInv, DeliveryTypeOK
<1>7. LogOrdered'
  BY <1>1, <1>2, <1>3, <1>4, <1>5 DEF DeliveryIInv, LogOrdered
<1>8. ASSUME NEW s \in Nat, NEW r, Located(s, r)
      PROVE  Located(s, r)'
  BY <1>1, <1>2, <1>3, <1>4, <1>5, <1>8 DEF Located
<1>9. SnapshotsLocated'
  <2> SUFFICES ASSUME NEW snap \in taken
               PROVE  Located(snap.seq, snap.rev)' /\ snap.state = StateAt(snap.rev)'
    BY <1>1 DEF SnapshotsLocated
  <2>1. Located(snap.seq, snap.rev) /\ snap.state = StateAt(snap.rev)
    BY DEF DeliveryIInv, SnapshotsLocated
  <2>2. snap.seq \in Nat
    BY DEF DeliveryIInv, DeliveryTypeOK, Snapshots
  <2> QED BY <1>2, <1>8, <2>1, <2>2 DEF Located
<1>10. ReducerLocated'
  <2> SUFFICES ASSUME HasState(reducer)
               PROVE  /\ Located(reducer.seq, reducer.rev)'
                      /\ reducer.state = StateAt(reducer.rev)'
                      /\ reducer.snapRev <= reducer.rev
                      /\ Located(reducer.snapSeq, reducer.snapRev)'
    BY <1>1 DEF ReducerLocated
  <2>1. /\ Located(reducer.seq, reducer.rev)
        /\ reducer.state = StateAt(reducer.rev)
        /\ reducer.snapRev <= reducer.rev
        /\ Located(reducer.snapSeq, reducer.snapRev)
    BY DEF DeliveryIInv, ReducerLocated
  <2>2. reducer.seq \in Nat /\ reducer.snapSeq \in Nat
    BY DEF DeliveryIInv, DeliveryTypeOK
  <2> QED BY <1>1, <1>2, <1>8, <2>1, <2>2 DEF Located
<1>11. AppliedRemembered'
  <2>1. reducer.rev \in Nat
    BY DEF DeliveryIInv, DeliveryTypeOK
  <2>2. reducer.rev <= Len(log) \/ ~HasState(reducer)
    BY <1>5 DEF DeliveryIInv, ReducerLocated, Located
  <2>3. CASE HasState(reducer)
    BY <1>1, <1>2, <1>5, <2>1, <2>2, <2>3 DEF DeliveryIInv, AppliedRemembered
  <2>4. CASE ~HasState(reducer)
    BY <1>1, <1>2, <1>5, <2>1, <2>4 DEF DeliveryIInv, AppliedRemembered, UnsetReducer
  <2> QED BY <2>3, <2>4
<1>12. ConflictOnlyWhenForgotten'
  BY <1>1 DEF DeliveryIInv, ConflictOnlyWhenForgotten
<1>13. UnsetReducer'
  BY <1>1 DEF DeliveryIInv, UnsetReducer
<1> QED BY <1>6, <1>7, <1>9, <1>10, <1>11, <1>12, <1>13 DEF DeliveryIInv

\* A commit on other channels only moves the Host sequence forward.
LEMMA PublishElsewhereInv == DeliveryIInv /\ PublishElsewhere => DeliveryIInv'
<1> SUFFICES ASSUME DeliveryIInv, PublishElsewhere PROVE DeliveryIInv'
  OBVIOUS
<1>1. /\ hostSeq \in Nat /\ hostSeq' = hostSeq + 1
      /\ log' = log /\ taken' = taken /\ reducer' = reducer
  BY DEF DeliveryIInv, DeliveryTypeOK, PublishElsewhere
<1>2. \A i \in DOMAIN log : log[i].seq \in Nat
  BY LogTypes DEF DeliveryIInv
<1>3. DeliveryTypeOK' /\ LogOrdered' /\ UnsetReducer' /\ AppliedRemembered' /\ ConflictOnlyWhenForgotten'
  BY <1>1, <1>2 DEF DeliveryIInv, DeliveryTypeOK, LogOrdered, UnsetReducer, AppliedRemembered,
                    ConflictOnlyWhenForgotten
<1>4. ASSUME NEW s \in Nat, NEW r, Located(s, r)
      PROVE  Located(s, r)'
  BY <1>1, <1>2, <1>4 DEF Located
<1>5. SnapshotsLocated'
  BY <1>1, <1>4 DEF DeliveryIInv, DeliveryTypeOK, Snapshots, SnapshotsLocated, StateAt
<1>6. ReducerLocated'
  <2> SUFFICES ASSUME HasState(reducer)
               PROVE  /\ Located(reducer.seq, reducer.rev)'
                      /\ reducer.state = StateAt(reducer.rev)
                      /\ reducer.snapRev <= reducer.rev
                      /\ Located(reducer.snapSeq, reducer.snapRev)'
    BY <1>1 DEF ReducerLocated, StateAt
  <2>1. /\ Located(reducer.seq, reducer.rev)
        /\ reducer.state = StateAt(reducer.rev)
        /\ reducer.snapRev <= reducer.rev
        /\ Located(reducer.snapSeq, reducer.snapRev)
    BY DEF DeliveryIInv, ReducerLocated
  <2>2. reducer.seq \in Nat /\ reducer.snapSeq \in Nat
    BY DEF DeliveryIInv, DeliveryTypeOK
  <2> QED BY <1>1, <1>4, <2>1, <2>2 DEF Located
<1> QED BY <1>3, <1>5, <1>6 DEF DeliveryIInv

\* A snapshot is taken where the Host is.
LEMMA TakeSnapshotInv == DeliveryIInv /\ TakeSnapshot => DeliveryIInv'
<1> SUFFICES ASSUME DeliveryIInv, TakeSnapshot PROVE DeliveryIInv'
  OBVIOUS
<1>1. /\ taken' = taken \cup {Current}
      /\ hostSeq' = hostSeq /\ log' = log /\ reducer' = reducer
  BY DEF TakeSnapshot
<1>2. /\ Len(log) \in Nat /\ DOMAIN log = 1 .. Len(log)
      /\ \A i \in DOMAIN log : log[i].state \in Nat
  BY LogTypes DEF DeliveryIInv
<1>3. Current \in Snapshots
  BY <1>2 DEF DeliveryIInv, DeliveryTypeOK, Current, Snapshots, StateAt
<1>4. Located(Current.seq, Current.rev) /\ Current.state = StateAt(Current.rev)
  BY <1>2 DEF Located, Current, DeliveryIInv, LogOrdered, DeliveryTypeOK
<1>5. DeliveryTypeOK'
  BY <1>1, <1>3 DEF DeliveryIInv, DeliveryTypeOK
<1>6. SnapshotsLocated'
  <2>1. \A snap \in taken' : Located(snap.seq, snap.rev) /\ snap.state = StateAt(snap.rev)
    BY <1>1, <1>4 DEF DeliveryIInv, SnapshotsLocated
  <2> QED BY <1>1, <2>1 DEF SnapshotsLocated, Located, StateAt
<1> QED
  BY <1>1, <1>5, <1>6
     DEF DeliveryIInv, LogOrdered, ReducerLocated, Located, StateAt, AppliedRemembered,
         UnsetReducer, ConflictOnlyWhenForgotten

\* A snapshot that is accepted becomes the reducer's baseline.
LEMMA DeliverSnapshotInv ==
  ASSUME DeliveryIInv, NEW snap \in taken, DeliverSnapshot(snap)
  PROVE  DeliveryIInv'
<1>1. /\ reducer' = ApplySnapshot(reducer, snap)
      /\ hostSeq' = hostSeq /\ log' = log /\ taken' = taken
  BY DEF DeliverSnapshot
<1>2. snap \in Snapshots /\ Located(snap.seq, snap.rev) /\ snap.state = StateAt(snap.rev)
  BY DEF DeliveryIInv, DeliveryTypeOK, SnapshotsLocated
<1>3. DeliveryTypeOK'
  BY <1>1, <1>2 DEF DeliveryIInv, DeliveryTypeOK, Snapshots, ApplySnapshot
<1>4. ReducerLocated'
  BY <1>1, <1>2 DEF ReducerLocated, ApplySnapshot, Located, StateAt, Snapshots
<1>5. AppliedRemembered'
  <2>1. /\ reducer'.applied = {}
        /\ reducer'.rev = snap.rev /\ reducer'.snapRev = snap.rev
        /\ snap.rev \in Nat
    BY <1>1, <1>2 DEF ApplySnapshot, Snapshots
  <2>2. DOMAIN log = 1 .. Len(log) /\ Len(log) \in Nat
    BY LogTypes DEF DeliveryIInv
  <2> QED BY <1>1, <2>1, <2>2 DEF AppliedRemembered
<1>6. UnsetReducer' /\ ConflictOnlyWhenForgotten'
  BY <1>1, <1>2, NoStateAssumption
     DEF UnsetReducer, HasState, ConflictOnlyWhenForgotten, ApplySnapshot, Snapshots
<1>7. LogOrdered' /\ SnapshotsLocated'
  BY <1>1 DEF DeliveryIInv, LogOrdered, SnapshotsLocated, Located, StateAt
<1> QED BY <1>3, <1>4, <1>5, <1>6, <1>7 DEF DeliveryIInv

\* The three ways applyAction changes a reducer.
LEMMA VerdictCases ==
  ASSUME NEW r, NEW a
  PROVE  \/ ApplyAction(r, a) = r
         \/ /\ Verdict(r, a) = "applied"
            /\ ApplyAction(r, a) =
                 [r EXCEPT !.state = a.state, !.seq = a.seq, !.rev = a.rev,
                           !.applied = Remember(r, a)]
         \/ \E need \in {"gap", "conflict", "missingSnapshot"} :
              /\ Verdict(r, a) = need
              /\ ApplyAction(r, a) = [r EXCEPT !.need = need]
BY DEF ApplyAction

\* What "applied" and "conflict" mean for the envelope.
LEMMA AppliedMeaning ==
  ASSUME NEW r, NEW a, Verdict(r, a) = "applied"
  PROVE  HasState(r) /\ r.need = "none" /\ a.rev = r.rev + 1 /\ ~(a.seq <= r.seq)
BY DEF Verdict

\* A conflict is the next action under an old sequence, or one that is not
\* ahead and that the reducer does not remember.
LEMMA ConflictMeaning ==
  ASSUME NEW r, NEW a, Verdict(r, a) = "conflict"
  PROVE  /\ HasState(r)
         /\ ~(a.seq <= r.snapSeq /\ a.rev <= r.snapRev)
         /\ \/ a.rev = r.rev + 1 /\ a.seq <= r.seq
            \/ a.rev # r.rev + 1 /\ a \notin r.applied /\ ~(a.rev > r.rev + 1)
BY DEF Verdict

\* An authentic action is applied, discarded, or detected.
LEMMA DeliverActionInv ==
  ASSUME DeliveryIInv, NEW k \in DOMAIN log, DeliverAction(k)
  PROVE  DeliveryIInv'
<1> DEFINE a == log[k]
<1>1. /\ reducer' = ApplyAction(reducer, a)
      /\ hostSeq' = hostSeq /\ log' = log /\ taken' = taken
  BY DEF DeliverAction
<1>2. /\ Len(log) \in Nat /\ DOMAIN log = 1 .. Len(log)
      /\ \A i \in DOMAIN log : /\ log[i] \in Envelopes
                               /\ log[i].seq \in Nat
                               /\ log[i].rev = i
                               /\ log[i].state \in Nat
                               /\ log[i].seq <= hostSeq
  BY LogTypes DEF DeliveryIInv, LogOrdered
<1>3. \A i, j \in DOMAIN log : i < j => log[i].seq < log[j].seq
  BY DEF DeliveryIInv, LogOrdered
<1>4. LogOrdered' /\ SnapshotsLocated'
  BY <1>1 DEF DeliveryIInv, LogOrdered, SnapshotsLocated, Located, StateAt
<1>5. reducer \in [state: Nat \cup {NoState}, seq: Nat, rev: Nat,
                   snapSeq: Nat, snapRev: Nat, applied: SUBSET Envelopes,
                   need: {"none", "missingSnapshot", "gap", "conflict"}]
  BY DEF DeliveryIInv, DeliveryTypeOK
<1> HIDE DEF a
<1>6. a \in Envelopes /\ a = log[k] /\ a.rev = k
  BY <1>2 DEF a
<1>7. CASE ApplyAction(reducer, a) = reducer
  BY <1>1, <1>7
     DEF DeliveryIInv, DeliveryTypeOK, LogOrdered, SnapshotsLocated, ReducerLocated, Located, StateAt,
         AppliedRemembered, UnsetReducer, ConflictOnlyWhenForgotten
<1>8. CASE /\ Verdict(reducer, a) = "applied"
           /\ ApplyAction(reducer, a) =
                [reducer EXCEPT !.state = a.state, !.seq = a.seq, !.rev = a.rev,
                                !.applied = Remember(reducer, a)]
  <2>1. HasState(reducer) /\ reducer.need = "none" /\ k = reducer.rev + 1
    BY <1>6, <1>8, AppliedMeaning
  <2>2. /\ reducer'.state = a.state /\ reducer'.seq = a.seq /\ reducer'.rev = k
        /\ reducer'.applied = Remember(reducer, a)
        /\ reducer'.snapSeq = reducer.snapSeq /\ reducer'.snapRev = reducer.snapRev
        /\ reducer'.need = reducer.need
    BY <1>1, <1>5, <1>6, <1>8
  <2>3. Remember(reducer, a) \subseteq Envelopes
    BY <1>5, <1>6 DEF Remember
  <2>4. DeliveryTypeOK'
    <3>1. a.state \in Nat /\ a.seq \in Nat /\ a.rev \in Nat
      BY <1>2, <1>6
    <3>2. reducer' \in [state: Nat \cup {NoState}, seq: Nat, rev: Nat,
                        snapSeq: Nat, snapRev: Nat, applied: SUBSET Envelopes,
                        need: {"none", "missingSnapshot", "gap", "conflict"}]
      BY <1>1, <1>5, <1>8, <2>3, <3>1
    <3> QED BY <1>1, <3>2 DEF DeliveryIInv, DeliveryTypeOK
  <2>5. ReducerLocated'
    <3>1. Located(reducer.snapSeq, reducer.snapRev) /\ reducer.snapRev <= reducer.rev
      BY <2>1 DEF DeliveryIInv, ReducerLocated
    <3>2. Located(a.seq, k) /\ a.state = StateAt(k)
      BY <1>2, <1>3, <1>6 DEF Located, StateAt
    <3> QED BY <1>1, <1>5, <2>1, <2>2, <3>1, <3>2 DEF ReducerLocated, Located, StateAt
  <2>6. AppliedRemembered'
    <3>1. \A b \in reducer.applied : b.rev \in DOMAIN log /\ b = log[b.rev]
      BY DEF DeliveryIInv, AppliedRemembered
    <3>2. \A b \in Remember(reducer, a) : b.rev \in DOMAIN log /\ b = log[b.rev]
      BY <1>6, <3>1 DEF Remember
    <3>3. ASSUME NEW i \in DOMAIN log,
                 i > reducer.snapRev, i <= k, i > k - Remembered
          PROVE  log[i] \in Remember(reducer, a)
      <4>1. CASE i = k
        BY <1>2, <1>6, <4>1, RememberedAssumption DEF Remember
      <4>2. CASE i # k
        <5>1. i <= reducer.rev /\ i > reducer.rev - Remembered
          BY <1>2, <1>5, <2>1, <3>3, <4>2, RememberedAssumption
        <5>2. log[i] \in reducer.applied
          BY <3>3, <5>1 DEF DeliveryIInv, AppliedRemembered
        <5> QED BY <1>2, <1>6, <3>3, <5>2 DEF Remember
      <4> QED BY <4>1, <4>2
    <3> QED BY <1>1, <2>2, <3>2, <3>3 DEF AppliedRemembered
  <2>7. UnsetReducer' /\ ConflictOnlyWhenForgotten'
    BY <1>2, <1>6, <2>1, <2>2, NoStateAssumption
       DEF UnsetReducer, HasState, ConflictOnlyWhenForgotten
  <2> QED BY <1>4, <2>4, <2>5, <2>6, <2>7 DEF DeliveryIInv
<1>9. CASE \E need \in {"gap", "conflict", "missingSnapshot"} :
              /\ Verdict(reducer, a) = need
              /\ ApplyAction(reducer, a) = [reducer EXCEPT !.need = need]
  <2> PICK need \in {"gap", "conflict", "missingSnapshot"} :
              /\ Verdict(reducer, a) = need
              /\ ApplyAction(reducer, a) = [reducer EXCEPT !.need = need]
    BY <1>9
  <2>1. /\ reducer'.state = reducer.state /\ reducer'.seq = reducer.seq
        /\ reducer'.rev = reducer.rev /\ reducer'.applied = reducer.applied
        /\ reducer'.snapSeq = reducer.snapSeq /\ reducer'.snapRev = reducer.snapRev
        /\ reducer'.need = need
    BY <1>1, <1>5
  <2>2. DeliveryTypeOK'
    BY <1>1, <1>5 DEF DeliveryIInv, DeliveryTypeOK
  <2>3. ReducerLocated' /\ AppliedRemembered' /\ UnsetReducer'
    BY <1>1, <2>1 DEF DeliveryIInv, ReducerLocated, AppliedRemembered, UnsetReducer, HasState,
                      Located, StateAt
  <2>4. ConflictOnlyWhenForgotten'
    <3> SUFFICES ASSUME need = "conflict"
                 PROVE  reducer.rev - reducer.snapRev > Remembered
      BY <2>1 DEF ConflictOnlyWhenForgotten
    <3>1. /\ HasState(reducer)
          /\ ~(a.seq <= reducer.snapSeq /\ a.rev <= reducer.snapRev)
          /\ \/ a.rev = reducer.rev + 1 /\ a.seq <= reducer.seq
             \/ a.rev # reducer.rev + 1 /\ a \notin reducer.applied /\ ~(a.rev > reducer.rev + 1)
      BY ConflictMeaning
    <3>2. /\ Located(reducer.seq, reducer.rev)
          /\ Located(reducer.snapSeq, reducer.snapRev)
          /\ reducer.snapRev <= reducer.rev
      BY <3>1 DEF DeliveryIInv, ReducerLocated
    <3>3. ~(a.rev = reducer.rev + 1 /\ a.seq <= reducer.seq)
      BY <1>2, <1>5, <1>6, <3>2 DEF Located
    <3>4. k <= reducer.rev /\ a \notin reducer.applied
      BY <1>2, <1>5, <1>6, <3>1, <3>3
    <3>5. k > reducer.snapRev
      <4> SUFFICES ASSUME k <= reducer.snapRev PROVE FALSE
        BY <1>2, <1>5
      <4>1. reducer.snapRev \in DOMAIN log /\ log[reducer.snapRev].seq <= reducer.snapSeq
        BY <1>2, <1>5, <3>2 DEF Located
      <4>2. a.seq <= log[reducer.snapRev].seq
        BY <1>2, <1>3, <1>5, <1>6, <4>1
      <4> QED BY <1>2, <1>5, <1>6, <3>1, <4>1, <4>2
    <3>6. k <= reducer.rev - Remembered
      BY <1>2, <1>5, <1>6, <3>4, <3>5, RememberedAssumption DEF DeliveryIInv, AppliedRemembered
    <3> QED BY <1>2, <1>5, <3>5, <3>6, RememberedAssumption
  <2> QED BY <1>4, <2>2, <2>3, <2>4 DEF DeliveryIInv
<1> QED BY <1>7, <1>8, <1>9, VerdictCases

\* The invariant is about the variables of the module only.
LEMMA StutterInv == DeliveryIInv /\ UNCHANGED deliveryVars => DeliveryIInv'
BY DEF deliveryVars, DeliveryIInv, DeliveryTypeOK, LogOrdered, SnapshotsLocated, ReducerLocated, Located, StateAt,
       AppliedRemembered, UnsetReducer, ConflictOnlyWhenForgotten

\* The invariant is inductive.
LEMMA NextInv == DeliveryIInv /\ [DeliveryNext]_deliveryVars => DeliveryIInv'
BY PublishInv, PublishElsewhereInv, TakeSnapshotInv, DeliverSnapshotInv,
   DeliverActionInv, StutterInv DEF DeliveryNext

\* The inductive invariant: the history is ordered, snapshots and the reducer
\* are located in it, and what the reducer remembers are actions of it.
THEOREM DeliveryInductiveInvariant == DeliverySpec => []DeliveryIInv
BY DeliveryInitInv, NextInv, PTL DEF DeliverySpec

\* The channel, what is in flight and the replica (AgentHostChannelStateReducer)
\* are type-correct, the remembered actions within their limit.
THEOREM DeliveryTypeCorrect == DeliverySpec => []DeliveryTypeOK
<1>1. DeliveryIInv => DeliveryTypeOK
  BY DEF DeliveryIInv
<1> QED BY <1>1, DeliveryInductiveInvariant, PTL

\* Whatever is lost, delayed, repeated or reordered, the state a replica holds
\* is the one the channel had at the replica's revision (applySnapshot,
\* applyAction).
THEOREM ReplicaStateIsHistory == DeliverySpec => []StateIsHistory
<1>1. DeliveryIInv => StateIsHistory
  BY DEF DeliveryIInv, ReducerLocated, StateIsHistory, Located
<1> QED BY <1>1, DeliveryInductiveInvariant, PTL

\* The Host sequence a replica holds is one at which the channel was at the
\* replica's revision (hostSequence and channelRevision move together).
THEOREM ReplicaSequenceMatchesRevision == DeliverySpec => []SequenceMatchesRevision
<1>1. DeliveryIInv => SequenceMatchesRevision
  BY DEF DeliveryIInv, ReducerLocated, SequenceMatchesRevision, Located
<1> QED BY <1>1, DeliveryInductiveInvariant, PTL

\* applyAction reports a conflict only for an action so old that the replica
\* has forgotten it (maximumRememberedActions).
THEOREM NoFalseConflict == DeliverySpec => []ConflictOnlyWhenForgotten
<1>1. DeliveryIInv => ConflictOnlyWhenForgotten
  BY DEF DeliveryIInv
<1> QED BY <1>1, DeliveryInductiveInvariant, PTL

\* What a step may do to a replica.
RegressFree ==
  HasState(reducer) =>
    /\ reducer'.rev >= reducer.rev
    /\ reducer'.seq >= reducer.seq
    /\ reducer'.rev = reducer.rev => reducer'.state = reducer.state

\* One step never takes a replica back, nor changes its state within a revision.
LEMMA StepRegressFree == DeliveryIInv /\ DeliveryIInv' /\ [DeliveryNext]_deliveryVars => RegressFree
<1> SUFFICES ASSUME DeliveryIInv, [DeliveryNext]_deliveryVars, HasState(reducer)
             PROVE  /\ reducer'.rev >= reducer.rev
                    /\ reducer'.seq >= reducer.seq
                    /\ reducer'.rev = reducer.rev => reducer'.state = reducer.state
  BY DEF RegressFree
<1>1. reducer.rev \in Nat /\ reducer.seq \in Nat /\ reducer.state = StateAt(reducer.rev)
  BY DEF DeliveryIInv, DeliveryTypeOK, ReducerLocated
<1>2. CASE reducer' = reducer
  BY <1>1, <1>2
<1>3. ASSUME NEW snap \in taken, DeliverSnapshot(snap)
      PROVE  /\ reducer'.rev >= reducer.rev
             /\ reducer'.seq >= reducer.seq
             /\ reducer'.rev = reducer.rev => reducer'.state = reducer.state
  BY <1>1, <1>3 DEF DeliverSnapshot, SnapshotPrecedes, ApplySnapshot, DeliveryIInv, DeliveryTypeOK, Snapshots,
                    SnapshotsLocated
<1>4. ASSUME NEW k \in DOMAIN log, DeliverAction(k)
      PROVE  /\ reducer'.rev >= reducer.rev
             /\ reducer'.seq >= reducer.seq
             /\ reducer'.rev = reducer.rev => reducer'.state = reducer.state
  <2>1. reducer' = ApplyAction(reducer, log[k])
    BY <1>4 DEF DeliverAction
  <2>2. log[k].seq \in Nat /\ log[k].rev \in Nat
    BY LogTypes DEF DeliveryIInv
  <2>3. CASE Verdict(reducer, log[k]) = "applied"
    <3>1. log[k].rev = reducer.rev + 1 /\ ~(log[k].seq <= reducer.seq)
      BY <2>3, AppliedMeaning
    <3>2. reducer'.rev = log[k].rev /\ reducer'.seq = log[k].seq
      BY <2>1, <2>3 DEF ApplyAction, DeliveryIInv, DeliveryTypeOK
    <3> QED BY <1>1, <2>2, <3>1, <3>2
  <2>4. CASE Verdict(reducer, log[k]) # "applied"
    <3>1. reducer'.rev = reducer.rev /\ reducer'.seq = reducer.seq /\ reducer'.state = reducer.state
      <4>1. CASE ApplyAction(reducer, log[k]) = reducer
        BY <2>1, <4>1
      <4>2. ASSUME NEW need, ApplyAction(reducer, log[k]) = [reducer EXCEPT !.need = need]
            PROVE  reducer'.rev = reducer.rev /\ reducer'.seq = reducer.seq /\ reducer'.state = reducer.state
        BY <2>1, <4>2 DEF DeliveryIInv, DeliveryTypeOK
      <4> QED BY <2>4, <4>1, <4>2, VerdictCases
    <3> QED BY <1>1, <3>1
  <2> QED BY <2>3, <2>4
<1>5. DeliveryNext => \/ reducer' = reducer
                      \/ \E snap \in taken : DeliverSnapshot(snap)
                      \/ \E k \in DOMAIN log : DeliverAction(k)
  BY DEF DeliveryNext, Publish, PublishElsewhere, TakeSnapshot
<1> QED BY <1>2, <1>3, <1>4, <1>5 DEF deliveryVars

\* A replica never goes back to an earlier revision or Host sequence.
THEOREM ReplicaNeverRegresses == DeliverySpec => NeverRegresses
<1>1. DeliveryIInv /\ DeliveryIInv' /\ [DeliveryNext]_deliveryVars => [RegressFree]_deliveryVars
  BY StepRegressFree
<1> QED BY <1>1, DeliveryInductiveInvariant, PTL DEF DeliverySpec, NeverRegresses, RegressFree

\* A reducer that waits for a snapshot refuses every action and stays as it is.
LEMMA RequirementRefusesActions ==
  ASSUME NEW r, SnapshotRequired(r), NEW a
  PROVE  ApplyAction(r, a) = r
<1>1. Verdict(r, a) = "stillRequired"
  BY DEF SnapshotRequired, Verdict
<1> QED
  BY <1>1 DEF ApplyAction

\* For every number of commits and of remembered identities, only
\* a snapshot ends the wait for one (applyAction, applySnapshot).
THEOREM RequirementStaysUntilSnapshot == DeliverySpec => RequirementIsSticky
<1>1. ASSUME [DeliveryNext]_deliveryVars, SnapshotRequired(reducer), reducer' # reducer
      PROVE  \E snap \in taken : reducer' = ApplySnapshot(reducer, snap)
  <2>1. CASE \E snap \in taken : DeliverSnapshot(snap)
    BY <2>1 DEF DeliverSnapshot
  <2>2. CASE \E rev \in DOMAIN log : DeliverAction(rev)
    BY <1>1, <2>2, RequirementRefusesActions DEF DeliverAction
  <2>3. CASE Publish \/ PublishElsewhere \/ TakeSnapshot \/ UNCHANGED deliveryVars
    BY <1>1, <2>3 DEF Publish, PublishElsewhere, TakeSnapshot, deliveryVars
  <2> QED
    BY <1>1, <2>1, <2>2, <2>3 DEF DeliveryNext
<1> QED
  BY <1>1, PTL DEF DeliverySpec, RequirementIsSticky

-----------------------------------------------------------------------------
(***************************************************************************)
(* What the application storage keeps of its promise to the writers of     *)
(* revisioned stores, for any number of keys and of revisions.             *)
(*                                                                         *)
(* The argument follows a revision from the commit that begins it.  Until  *)
(* its writer is told, it is waiting to be flushed, being flushed or on    *)
(* the disk, whoever flushes it; and a writer is told only when nothing of *)
(* its own waits any more.                                                 *)
(***************************************************************************)
Writing(k) == caller[k] \in {"flushing", "waiting", "resuming"}
Held(k) == k \in inserts \/ k \in DOMAIN flushing

\* Types, with flushing as a function on some of the keys.
Types ==
  /\ disk \in [Keys -> Nat] /\ cache \in [Keys -> Nat] /\ memory \in [Keys -> Nat]
  /\ inserts \subseteq Keys
  /\ DOMAIN flushing \subseteq Keys /\ flushing \in [DOMAIN flushing -> Nat]
  /\ caller \in [Keys -> {"idle", "flushing", "waiting", "resuming", "refused"}]

\* The cache is at most one revision ahead of the writer, and is so while the
\* revision is on its way; the disk has the one or the other.
Ahead ==
  \A k \in Keys :
    /\ cache[k] = memory[k] \/ cache[k] = memory[k] + 1
    /\ disk[k] = memory[k] \/ disk[k] = cache[k]
    /\ Held(k) => cache[k] = memory[k] + 1
    /\ k \in DOMAIN flushing => flushing[k] = cache[k] /\ k \notin inserts

\* What a writer is waiting for is on its way or on the disk, and what the
\* owner of a flush is waiting for is not left for another.
UnderWay ==
  \A k \in Keys :
    /\ Writing(k) => cache[k] = memory[k] + 1 /\ (Held(k) \/ disk[k] = cache[k])
    /\ caller[k] = "flushing" => k \notin inserts
    /\ caller[k] \in {"flushing", "waiting"} => Flushing

StorageIInv == Types /\ Ahead /\ UnderWay

-----------------------------------------------------------------------------

\* The empty function is the only one without a key, so that a flush that
\* starts with keys runs.
LEMMA FlushingHasKeys ==
  ASSUME NEW S, NEW f \in [S -> Nat], S # {}
  PROVE  f # Nothing
BY DEF Nothing

\* Storage starts with what the table holds, and with nothing on its way.
LEMMA StorageInitInvariant == StorageInit => StorageIInv
BY DEF StorageInit, StorageIInv, Types, Ahead, UnderWay, Writing, Held, Nothing

\* A commit takes a key of which nothing is on its way.
LEMMA CommitInvariant ==
  ASSUME StorageIInv, NEW key \in Keys, Commit(key) \/ CommitConflicts(key)
  PROVE  StorageIInv'
<1>1. CASE CommitConflicts(key)
  BY <1>1 DEF CommitConflicts, StorageIInv, Types, Ahead, UnderWay, Writing, Held, Flushing
<1>2. CASE Commit(key) /\ Flushing
  BY <1>2 DEF Commit, CommitIf, StorageIInv, Types, Ahead, UnderWay, Writing, Held, Flushing
<1>3. CASE Commit(key) /\ ~Flushing
  <2>1. /\ flushing' = [k \in inserts \cup {key} |-> cache'[k]]
        /\ inserts' = {}
        /\ caller' = [caller EXCEPT ![key] = "flushing"]
        /\ cache' = [cache EXCEPT ![key] = @ + 1]
        /\ cache[key] = memory[key]
        /\ UNCHANGED <<disk, memory>>
    BY <1>3 DEF Commit, CommitIf, StartFlush
  <2>2. Types'
    BY <2>1 DEF StorageIInv, Types
  <2>3. Ahead'
    BY <2>1, <1>3 DEF StorageIInv, Types, Ahead, Held, Flushing, Nothing
  <2>4. Flushing'
    <3>1. flushing' \in [inserts \cup {key} -> Nat]
      BY <2>1, <2>2 DEF Types
    <3> QED BY <3>1, FlushingHasKeys DEF Flushing
  <2>5. UnderWay'
    BY <2>1, <2>4, <1>3 DEF StorageIInv, Types, Ahead, UnderWay, Writing, Held, Flushing, Nothing
  <2> QED BY <2>2, <2>3, <2>5 DEF StorageIInv
<1> QED BY <1>1, <1>2, <1>3

\* The end of a transaction leaves nothing of the owner's behind.
LEMMA FlushEndsInvariant ==
  ASSUME StorageIInv, Written \/ WriteFails
  PROVE  StorageIInv'
<1>1. CASE Written
  <2>1. Types'
    BY <1>1 DEF Written, Accepted, Callers, StorageIInv, Types, Nothing
  <2>2. Ahead'
    BY <1>1 DEF Written, Accepted, Callers, StorageIInv, Types, Ahead, UnderWay, Writing, Held, Nothing
  <2>3. UnderWay'
    BY <1>1 DEF Written, Accepted, Callers, StorageIInv, Types, Ahead, UnderWay, Writing, Held, Nothing
  <2> QED BY <2>1, <2>2, <2>3 DEF StorageIInv
<1>2. CASE WriteFails
  <2>1. Types'
    BY <1>2 DEF WriteFails, StorageIInv, Types, Nothing
  <2>2. Ahead'
    BY <1>2 DEF WriteFails, StorageIInv, Types, Ahead, Held, Nothing
  <2>3. UnderWay'
    BY <1>2 DEF WriteFails, Callers, StorageIInv, Types, UnderWay, Writing, Held, Nothing
  <2> QED BY <2>1, <2>2, <2>3 DEF StorageIInv
<1> QED BY <1>1, <1>2

\* A writer that waited either finds its revision on the disk or flushes.
LEMMA ResumeInvariant ==
  ASSUME StorageIInv, NEW key \in Keys, Resume(key)
  PROVE  StorageIInv'
<1>1. CASE Flushing
  BY <1>1 DEF Resume, StorageIInv, Types, Ahead, UnderWay, Writing, Held, Flushing
<1>2. CASE ~Flushing /\ inserts = {}
  <2>1. \A k \in Keys : ~Held(k)
    BY <1>2 DEF Held, Flushing, Nothing
  <2>2. disk[key] = cache[key]
    BY <2>1 DEF Resume, StorageIInv, UnderWay, Writing
  <2>3. /\ caller' = [caller EXCEPT ![key] = "idle"]
        /\ memory' = [memory EXCEPT ![key] = cache[key]]
        /\ UNCHANGED <<disk, cache, inserts, flushing>>
    BY <1>2 DEF Resume, Accepted, StorageIInv, Types
  <2>4. Types'
    BY <2>3 DEF StorageIInv, Types
  <2>5. Ahead'
    BY <2>1, <2>2, <2>3 DEF StorageIInv, Types, Ahead, Held
  <2>6. UnderWay'
    BY <2>1, <2>2, <2>3, <1>2 DEF StorageIInv, Types, UnderWay, Writing, Held, Flushing
  <2> QED BY <2>4, <2>5, <2>6 DEF StorageIInv
<1>3. CASE ~Flushing /\ inserts # {}
  <2>1. /\ flushing' = [k \in inserts |-> cache[k]]
        /\ inserts' = {}
        /\ caller' = [caller EXCEPT ![key] = "flushing"]
        /\ UNCHANGED <<disk, cache, memory>>
    BY <1>3 DEF Resume
  <2>2. Types'
    BY <2>1 DEF StorageIInv, Types
  <2>3. Flushing'
    <3>1. flushing' \in [inserts -> Nat]
      BY <2>1 DEF StorageIInv, Types
    <3> QED BY <3>1, <1>3, FlushingHasKeys DEF Flushing
  <2>4. Ahead'
    BY <2>1 DEF StorageIInv, Types, Ahead, Held
  <2>5. UnderWay'
    BY <2>1, <2>3, <1>3 DEF Resume, StorageIInv, Types, UnderWay, Writing, Held, Flushing, Nothing
  <2> QED BY <2>2, <2>4, <2>5 DEF StorageIInv
<1> QED BY <1>1, <1>2, <1>3

\* Every step of storage and of its writers preserves the invariant.
LEMMA StorageNextInvariant == StorageIInv /\ [StorageNext]_storageVars => StorageIInv'
<1> SUFFICES ASSUME StorageIInv, [StorageNext]_storageVars PROVE StorageIInv'
  OBVIOUS
<1>1. ASSUME NEW key \in Keys, Commit(key) \/ CommitConflicts(key) PROVE StorageIInv'
  BY <1>1, CommitInvariant
<1>2. ASSUME NEW key \in Keys, Resume(key) PROVE StorageIInv'
  BY <1>2, ResumeInvariant
<1>3. ASSUME NEW key \in Keys, Proceed(key) PROVE StorageIInv'
  BY <1>3 DEF Proceed, StorageIInv, Types, Ahead, UnderWay, Writing, Held, Flushing
<1>4. CASE Written \/ WriteFails
  BY <1>4, FlushEndsInvariant
<1>5. CASE Restart
  BY <1>5 DEF Restart, StorageIInv, Types, Ahead, UnderWay, Writing, Held, Nothing
<1>6. CASE UNCHANGED storageVars
  BY <1>6 DEF storageVars, StorageIInv, Types, Ahead, UnderWay, Writing, Held, Flushing
<1> QED BY <1>1, <1>2, <1>3, <1>4, <1>5, <1>6 DEF StorageNext

\* The invariant holds in every behaviour of storage.
THEOREM StorageInductiveInvariant == StorageSpec => []StorageIInv
BY StorageInitInvariant, StorageNextInvariant, PTL DEF StorageSpec

\* Storage is type-correct, and never more than one revision ahead of the
\* writer of a key (Storage.set changes the cache before it is written).
THEOREM StorageTypeCorrect == StorageSpec => []StorageTypeOK
<1>1. StorageIInv => StorageTypeOK
  BY DEF StorageIInv, Types, Ahead, StorageTypeOK
<1> QED BY <1>1, StorageInductiveInvariant, PTL

\* A revision that a writer was told is committed is what a restart reads,
\* or a later one is (RevisionedAgentHostStateStore.commit after Storage.flush).
THEOREM AcceptedRevisionsAreDurable == StorageSpec => []AcceptedIsDurable
<1>1. StorageIInv => AcceptedIsDurable
  <2> SUFFICES ASSUME StorageIInv, NEW k \in Keys PROVE disk[k] >= memory[k]
    BY DEF AcceptedIsDurable
  <2>1. disk[k] \in Nat /\ cache[k] \in Nat /\ memory[k] \in Nat
    BY DEF StorageIInv, Types
  <2>2. /\ cache[k] = memory[k] \/ cache[k] = memory[k] + 1
        /\ disk[k] = memory[k] \/ disk[k] = cache[k]
    BY DEF StorageIInv, Ahead
  <2> QED BY <2>1, <2>2
<1> QED BY <1>1, StorageInductiveInvariant, PTL
-----------------------------------------------------------------------------
(* Storage implements CatalogStore for every key: what happens to one key  *)
(* is a step of its store, and nothing to the others.                      *)

StoreStep(k) == [Store(k)!Next]_(Store(k)!vars)

\* A key of which nothing changes has a store that does not.
LEMMA StoreStutters ==
  ASSUME NEW k \in Keys, disk'[k] = disk[k], cache'[k] = cache[k], memory'[k] = memory[k],
         Writing(k)' <=> Writing(k), Held(k)' <=> Held(k)
  PROVE  StoreStep(k)
BY DEF StoreStep, Store!vars, Writing, Held

\* A commit begins in the store of its key.
LEMMA CommitStep ==
  ASSUME StorageIInv, NEW key \in Keys, Commit(key), NEW k \in Keys
  PROVE  StoreStep(k)
<1>1. /\ caller[key] = "idle" /\ cache[key] = memory[key]
      /\ cache' = [cache EXCEPT ![key] = @ + 1]
      /\ UNCHANGED <<disk, memory>>
      /\ Writing(key)'
      /\ Held(key)'
      /\ k # key => (Writing(k)' <=> Writing(k)) /\ (Held(k)' <=> Held(k))
  BY DEF Commit, CommitIf, StartFlush, StorageIInv, Types, Writing, Held, Flushing, Nothing
<1>2. CASE k = key
  <2>1. Store(k)!Begin
    BY <1>1, <1>2 DEF StorageIInv, Types, Store!Begin, Writing, Held
  <2> QED BY <2>1 DEF StoreStep, Store!Next
<1>3. CASE k # key
  BY <1>1, <1>3, StoreStutters DEF StorageIInv, Types
<1> QED BY <1>2, <1>3

\* A transaction that commits lands what it holds, and accepts its owner.
LEMMA WrittenStep ==
  ASSUME StorageIInv, Written, NEW k \in Keys
  PROVE  StoreStep(k)
<1>1. /\ disk'[k] = IF k \in DOMAIN flushing THEN cache[k] ELSE disk[k]
      /\ memory'[k] = IF caller[k] = "flushing" THEN cache[k] ELSE memory[k]
      /\ cache' = cache
      /\ Held(k)' <=> k \in inserts
      /\ Writing(k)' <=> Writing(k) /\ caller[k] # "flushing"
  BY DEF Written, Accepted, Callers, StorageIInv, Types, Ahead, Writing, Held, Nothing
<1>2. k \in DOMAIN flushing => k \notin inserts
  BY DEF StorageIInv, Ahead
<1>3. caller[k] = "flushing" => Writing(k) /\ k \notin inserts
  BY DEF StorageIInv, UnderWay, Writing
<1>4. CASE k \in DOMAIN flushing /\ caller[k] = "flushing"
  <2>1. Store(k)!LandAndAccept
    BY <1>1, <1>2, <1>3, <1>4 DEF Store!LandAndAccept, Writing, Held
  <2> QED BY <2>1 DEF StoreStep, Store!Next
<1>5. CASE k \in DOMAIN flushing /\ caller[k] # "flushing"
  <2>1. Store(k)!Land
    BY <1>1, <1>2, <1>5 DEF Store!Land, Writing, Held
  <2> QED BY <2>1 DEF StoreStep, Store!Next
<1>6. CASE k \notin DOMAIN flushing /\ caller[k] = "flushing"
  <2>1. disk[k] = cache[k]
    BY <1>3, <1>6 DEF StorageIInv, UnderWay, Held
  <2>2. Store(k)!Accept
    BY <1>1, <1>3, <1>6, <2>1 DEF Store!Accept, Writing, Held
  <2> QED BY <2>2 DEF StoreStep, Store!Next
<1>7. CASE k \notin DOMAIN flushing /\ caller[k] # "flushing"
  BY <1>1, <1>7, StoreStutters DEF Held
<1> QED BY <1>4, <1>5, <1>6, <1>7

\* A transaction that fails loses what it holds, and refuses its owner and
\* those who waited for it.
LEMMA WriteFailsStep ==
  ASSUME StorageIInv, WriteFails, NEW k \in Keys
  PROVE  StoreStep(k)
<1>1. /\ disk' = disk /\ cache' = cache /\ memory' = memory
      /\ Held(k)' <=> k \in inserts
      /\ ~Writing(k)'
      /\ Writing(k) <=> caller[k] \in {"flushing", "waiting"}
  BY DEF WriteFails, Callers, StorageIInv, Types, Writing, Held, Nothing
<1>2. k \in DOMAIN flushing => k \notin inserts
  BY DEF StorageIInv, Ahead
<1>3. CASE k \in DOMAIN flushing /\ Writing(k)
  <2>1. Store(k)!LoseAndRefuse
    BY <1>1, <1>2, <1>3 DEF Store!LoseAndRefuse, Writing, Held
  <2> QED BY <2>1 DEF StoreStep, Store!Next
<1>4. CASE k \in DOMAIN flushing /\ ~Writing(k)
  <2>1. Store(k)!Lose
    BY <1>1, <1>2, <1>4 DEF Store!Lose, Writing, Held
  <2> QED BY <2>1 DEF StoreStep, Store!Next
<1>5. CASE k \notin DOMAIN flushing /\ Writing(k)
  <2>1. Store(k)!Refuse
    BY <1>1, <1>5 DEF Store!Refuse, Writing, Held
  <2> QED BY <2>1 DEF StoreStep, Store!Next
<1>6. CASE k \notin DOMAIN flushing /\ ~Writing(k)
  BY <1>1, <1>6, StoreStutters DEF Held
<1> QED BY <1>3, <1>4, <1>5, <1>6

\* A writer that waited is accepted, or nothing has changed for any store.
LEMMA ResumeStep ==
  ASSUME StorageIInv, NEW key \in Keys, Resume(key), NEW k \in Keys
  PROVE  StoreStep(k)
<1>1. disk' = disk /\ cache' = cache
  BY DEF Resume
<1>2. CASE Flushing \/ inserts # {}
  <2>1. /\ memory' = memory
        /\ Writing(k)' <=> Writing(k)
        /\ Held(k)' <=> Held(k)
    BY <1>2 DEF Resume, StorageIInv, Types, Writing, Held, Flushing, Nothing
  <2> QED BY <1>1, <2>1, StoreStutters
<1>3. CASE ~Flushing /\ inserts = {}
  <2>1. /\ memory' = [memory EXCEPT ![key] = cache[key]]
        /\ caller' = [caller EXCEPT ![key] = "idle"]
        /\ Held(k)' <=> Held(k)
        /\ ~Held(k)
    BY <1>3 DEF Resume, Accepted, StorageIInv, Types, Held, Flushing, Nothing
  <2>2. CASE k = key
    <3>1. disk[k] = cache[k]
      BY <2>1, <2>2 DEF Resume, StorageIInv, UnderWay, Writing
    <3>2. Store(k)!Accept
      BY <1>1, <2>1, <2>2, <3>1 DEF Resume, StorageIInv, Types, Store!Accept, Writing, Held
    <3> QED BY <3>2 DEF StoreStep, Store!Next
  <2>3. CASE k # key
    BY <1>1, <2>1, <2>3, StoreStutters DEF StorageIInv, Types, Writing
  <2> QED BY <2>2, <2>3
<1> QED BY <1>2, <1>3

\* Every step of storage is one of each store, or none.
LEMMA EveryStep ==
  ASSUME StorageIInv, [StorageNext]_storageVars, NEW k \in Keys
  PROVE  StoreStep(k)
<1>1. ASSUME NEW key \in Keys, CommitConflicts(key) \/ Proceed(key) PROVE StoreStep(k)
  BY <1>1, StoreStutters DEF CommitConflicts, Proceed, StorageIInv, Types, Writing, Held
<1>2. CASE Restart
  <2>1. Store(k)!Restart
    BY <1>2 DEF Restart, Store!Restart, StorageIInv, Types, Nothing
  <2> QED BY <2>1 DEF StoreStep, Store!Next
<1>3. CASE UNCHANGED storageVars
  BY <1>3, StoreStutters DEF storageVars, Writing, Held
<1> QED
  BY <1>1, <1>2, <1>3, CommitStep, WrittenStep, WriteFailsStep, ResumeStep DEF StorageNext

\* The application storage gives every writer the store that CatalogStore
\* describes, whichever other keys it flushes together with its own, and
\* whatever becomes of their transactions.
THEOREM StorePromiseIsKept == StorageSpec => KeepsStorePromise
<1>1. StorageInit => \A key \in Keys : Store(key)!Init
  <2> SUFFICES ASSUME StorageInit, NEW key \in Keys PROVE Store(key)!Init
    OBVIOUS
  <2>1. disk[key] = 0 /\ cache[key] = 0 /\ memory[key] = 0
    BY DEF StorageInit
  <2>2. ~(caller[key] \in {"flushing", "waiting", "resuming"})
    BY DEF StorageInit
  <2>3. ~(key \in inserts \/ key \in DOMAIN flushing)
    BY DEF StorageInit, Nothing
  <2> QED BY <2>1, <2>2, <2>3 DEF Store!Init
<1>2. StorageIInv /\ [StorageNext]_storageVars
        => [\A key \in Keys : [Store(key)!Next]_(Store(key)!vars)]_storageVars
  BY EveryStep DEF StoreStep
<1> QED
  BY <1>1, <1>2, StorageInductiveInvariant, PTL DEF StorageSpec, KeepsStorePromise

-----------------------------------------------------------------------------
(***************************************************************************)
(* What a client may rely on when answers are lost, for any number of      *)
(* mutations and of interruptions.                                         *)
(*                                                                         *)
(* The Host's half of the argument (HostInv) is about the registry alone:  *)
(* an operation is executed by the one job that registered it, and its     *)
(* status says what that job has committed.  ClientInv is about the one    *)
(* call that is outstanding: at most one request or job at the Host still  *)
(* has somebody to answer to, and what it answers is the status.           *)
(* BarrierInv is about what the provider may still be in doubt of: outside *)
(* a recovery only the mutation that runs, which the Host answers once and *)
(* for all unless it may be deferred.                                      *)
(***************************************************************************)

Jobs == [kind : {"execute", "finalize"}, op : Ops, live : BOOLEAN, applied : BOOLEAN]
Requests == [op : Ops, live : BOOLEAN]

HostTypes ==
  /\ status \in [Ops -> {"unknown", "pending"} \cup Terminal]
  /\ effects \in [Ops -> Nat]
  /\ finalizing \subseteq Deferrable
  /\ hashing \subseteq Requests
  /\ queue \in Seq(Jobs)

Executes(i, op) == i \in DOMAIN queue /\ queue[i].kind = "execute" /\ queue[i].op = op

\* An operation has one execution at most, which begins with no effect.
OneExecution ==
  \A op \in Ops :
    /\ \A i, j \in DOMAIN queue : Executes(i, op) /\ Executes(j, op) => i = j
    /\ \A i \in DOMAIN queue : Executes(i, op) =>
         /\ status[op] = "pending" /\ op \notin finalizing
         /\ effects[op] = IF queue[i].applied THEN 1 ELSE 0

\* The registry's status says what the execution has committed.
StatusTellsEffect ==
  \A op \in Ops :
    /\ op \in finalizing => status[op] = "pending"
    /\ effects[op] \in {0, 1}
    /\ status[op] \in {"unknown", "failed"} => effects[op] = 0
    /\ status[op] = "succeeded" => effects[op] = 1

HostInv == HostTypes /\ OneExecution /\ StatusTellsEffect /\ NothingIsStranded

-----------------------------------------------------------------------------
(* The catalog queue *)

\* A job is put at the end of the queue.
LEMMA QueueAppend ==
  ASSUME queue \in Seq(Jobs), NEW job \in Jobs, queue' = Append(queue, job)
  PROVE  /\ queue' \in Seq(Jobs)
         /\ DOMAIN queue \subseteq DOMAIN queue' /\ Len(queue) + 1 \in DOMAIN queue'
         /\ \A i \in DOMAIN queue' : i \in DOMAIN queue \/ i = Len(queue) + 1
         /\ Len(queue) + 1 \notin DOMAIN queue
         /\ \A i \in DOMAIN queue : queue'[i] = queue[i]
         /\ queue'[Len(queue) + 1] = job
OBVIOUS

\* The job at the head leaves.
LEMMA QueueTail ==
  ASSUME queue \in Seq(Jobs), queue # <<>>, queue' = Tail(queue)
  PROVE  /\ queue' \in Seq(Jobs)
         /\ 1 \in DOMAIN queue /\ Head(queue) = queue[1] /\ queue[1] \in Jobs
         /\ \A i \in DOMAIN queue' : i + 1 \in DOMAIN queue /\ i + 1 # 1 /\ queue'[i] = queue[i + 1]
         /\ \A i \in DOMAIN queue : i = 1 \/ (i - 1 \in DOMAIN queue' /\ queue'[i - 1] = queue[i])
         /\ \A i, j \in DOMAIN queue' : i + 1 = j + 1 => i = j
OBVIOUS

\* Every element of the queue is a job.
LEMMA QueueJobs ==
  ASSUME queue \in Seq(Jobs), NEW i \in DOMAIN queue
  PROVE  queue[i] \in Jobs
OBVIOUS

-----------------------------------------------------------------------------
(* The Host's invariant *)

LEMMA HostInit == Init => HostInv
BY DEF Init, HostInv, HostTypes, OneExecution, StatusTellsEffect, NothingIsStranded, Terminal,
  Executes

\* A request that is hashed registers its operation or is answered from it.
LEMMA HostBegin ==
  ASSUME HostInv, NEW request \in hashing, Begin(request), UNCHANGED <<effects, finalizing>>
  PROVE  HostInv'
<1> DEFINE op == request.op
<1>0. /\ op \in Ops /\ request.live \in BOOLEAN /\ hashing' \subseteq Requests
  BY DEF Begin, BeginIf, HostInv, HostTypes, Requests
<1>1. CASE status[op] # "unknown"
  <2>1. UNCHANGED <<status, queue>>
    BY <1>1 DEF Begin, BeginIf
  <2> QED
    BY <1>0, <2>1 DEF HostInv, HostTypes, OneExecution, StatusTellsEffect, NothingIsStranded, Executes
<1>2. CASE status[op] = "unknown"
  <2>1. status' = [status EXCEPT ![op] = "pending"]
    BY <1>2 DEF Begin, BeginIf
  <2>2. PICK job \in Jobs : /\ queue' = Append(queue, job)
                            /\ job.kind = "execute" /\ job.op = op /\ job.applied = FALSE
    <3>1. PICK asked \in Jobs : /\ asked = Job("execute", op)
                               /\ asked.kind = "execute" /\ asked.op = op /\ asked.applied = FALSE
      <4>1. Job("execute", op) \in Jobs
        BY <1>0 DEF Job, Jobs
      <4> QED
        BY <4>1 DEF Job
    <3>2. /\ [asked EXCEPT !.live = request.live] \in Jobs
          /\ [asked EXCEPT !.live = request.live].kind = "execute"
          /\ [asked EXCEPT !.live = request.live].op = op
          /\ [asked EXCEPT !.live = request.live].applied = FALSE
      BY <1>0, <3>1 DEF Jobs
    <3>3. queue' = Append(queue, [asked EXCEPT !.live = request.live])
      BY <1>2, <3>1 DEF Begin, BeginIf
    <3> QED
      BY <3>2, <3>3
  <2>3. queue \in Seq(Jobs)
    BY DEF HostInv, HostTypes
  <2> HIDE DEF op
  <2>4. /\ queue' \in Seq(Jobs)
        /\ DOMAIN queue \subseteq DOMAIN queue' /\ Len(queue) + 1 \in DOMAIN queue'
        /\ \A i \in DOMAIN queue' : i \in DOMAIN queue \/ i = Len(queue) + 1
        /\ Len(queue) + 1 \notin DOMAIN queue
        /\ \A i \in DOMAIN queue : queue'[i] = queue[i]
        /\ queue'[Len(queue) + 1] = job
    BY <2>1, <2>2, <2>3, QueueAppend
  <2>5. /\ status \in [Ops -> {"unknown", "pending"} \cup Terminal]
        /\ status'[op] = "pending" /\ \A o \in Ops : o # op => status'[o] = status[o]
    BY <1>0, <2>1 DEF HostInv, HostTypes
  <2>6. \A i \in DOMAIN queue : ~Executes(i, op)
    BY <1>0, <1>2 DEF HostInv, OneExecution
  <2>7. effects[op] = 0 /\ op \notin finalizing
    BY <1>0, <1>2 DEF HostInv, StatusTellsEffect
  <2>8. HostTypes'
    BY <1>0, <2>1, <2>4, <2>5 DEF HostInv, HostTypes
  <2>9. OneExecution'
    BY <1>0, <2>2, <2>4, <2>5, <2>6, <2>7 DEF HostInv, OneExecution, Executes
  <2>10. StatusTellsEffect'
    BY <1>0, <2>5, <2>7 DEF HostInv, StatusTellsEffect
  <2>11. NothingIsStranded'
    BY <1>0, <2>2, <2>4, <2>5 DEF HostInv, NothingIsStranded
  <2> QED
    BY <2>8, <2>9, <2>10, <2>11 DEF HostInv
<1> QED
  BY <1>1, <1>2

\* A job that does not execute anything joins the queue.
LEMMA HostAsked ==
  ASSUME HostInv, NEW op \in Ops, queue' = Append(queue, Job("finalize", op)),
         UNCHANGED <<status, effects, finalizing, hashing>>
  PROVE  HostInv'
<1>1. PICK job \in Jobs : queue' = Append(queue, job) /\ job.kind = "finalize"
  <2>1. Job("finalize", op) \in Jobs
    BY DEF Job, Jobs
  <2> QED
    BY <2>1 DEF Job
<1>2. queue \in Seq(Jobs)
  BY DEF HostInv, HostTypes
<1>3. /\ queue' \in Seq(Jobs)
      /\ DOMAIN queue \subseteq DOMAIN queue'
      /\ \A i \in DOMAIN queue' : i \in DOMAIN queue \/ i = Len(queue) + 1
      /\ \A i \in DOMAIN queue : queue'[i] = queue[i]
      /\ queue'[Len(queue) + 1] = job
  BY <1>1, <1>2, QueueAppend
<1>4. HostTypes' /\ StatusTellsEffect'
  BY <1>3 DEF HostInv, HostTypes, StatusTellsEffect
<1>5. OneExecution'
  BY <1>1, <1>3 DEF HostInv, OneExecution, Executes
<1>6. NothingIsStranded'
  BY <1>3 DEF HostInv, NothingIsStranded
<1> QED
  BY <1>4, <1>5, <1>6 DEF HostInv

\* The execution at the head commits its effect, once.
LEMMA HostCommitEffect == HostInv /\ CommitEffect => HostInv'
<1> SUFFICES ASSUME HostInv, CommitEffect PROVE HostInv'
  OBVIOUS
<1>1. queue \in Seq(Jobs) /\ queue # <<>>
  BY DEF HostInv, HostTypes, CommitEffect, Running
<1>2. /\ 1 \in DOMAIN queue /\ Head(queue) = queue[1] /\ queue[1] \in Jobs
  BY <1>1
<1>3. PICK op \in Ops : op = queue[1].op
  BY <1>2 DEF Jobs
<1>4. Executes(1, op) /\ queue[1].applied = FALSE
  BY <1>2, <1>3 DEF CommitEffect, Running, Executes, Jobs
<1>5. effects[op] = 0 /\ status[op] = "pending"
  BY <1>2, <1>3, <1>4 DEF HostInv, OneExecution
<1>6. effects' = [effects EXCEPT ![op] = @ + 1] /\ UNCHANGED <<status, finalizing, hashing>>
  BY <1>2, <1>3 DEF CommitEffect
<1>7. effects'[op] = 1 /\ (\A o \in Ops : o # op => effects'[o] = effects[o]) /\ effects' \in [Ops -> Nat]
  BY <1>3, <1>5, <1>6 DEF HostInv, HostTypes
<1>8. PICK job \in Jobs : /\ job.kind = "execute" /\ job.op = op /\ job.applied = TRUE
                          /\ queue' = [queue EXCEPT ![1] = job]
  <2>1. [queue[1] EXCEPT !.applied = TRUE] \in Jobs
    BY <1>2 DEF Jobs
  <2>2. queue' = [queue EXCEPT ![1] = [queue[1] EXCEPT !.applied = TRUE]]
    BY <1>2 DEF CommitEffect
  <2>3. /\ [queue[1] EXCEPT !.applied = TRUE].kind = "execute"
        /\ [queue[1] EXCEPT !.applied = TRUE].op = op
        /\ [queue[1] EXCEPT !.applied = TRUE].applied = TRUE
    BY <1>2, <1>3, <1>4 DEF Jobs, Executes
  <2> QED
    BY <2>1, <2>2, <2>3
<1>9. /\ queue' \in Seq(Jobs) /\ DOMAIN queue' = DOMAIN queue /\ queue'[1] = job
      /\ \A i \in DOMAIN queue : i # 1 => queue'[i] = queue[i]
  BY <1>1, <1>2, <1>8
<1>10. HostTypes'
  BY <1>6, <1>7, <1>9 DEF HostInv, HostTypes
<1>11. OneExecution'
  BY <1>3, <1>4, <1>6, <1>7, <1>8, <1>9 DEF HostInv, OneExecution, Executes
<1>12. StatusTellsEffect'
  BY <1>3, <1>5, <1>6, <1>7 DEF HostInv, StatusTellsEffect
<1>13. NothingIsStranded'
  BY <1>3, <1>4, <1>6, <1>8, <1>9 DEF HostInv, NothingIsStranded, Executes
<1> QED
  BY <1>10, <1>11, <1>12, <1>13 DEF HostInv

\* The head leaves the queue: what is in doubt is what it leaves in doubt.
LEMMA HostLeave ==
  ASSUME HostInv, queue # <<>>, queue' = Tail(queue), UNCHANGED <<effects, hashing>>,
         status' \in [Ops -> {"unknown", "pending"} \cup Terminal], finalizing' \subseteq Deferrable,
         NEW op \in Ops, op = queue[1].op,
         \A o \in Ops : o # op => status'[o] = status[o] /\ (o \in finalizing' <=> o \in finalizing),
         \A i \in DOMAIN queue : Executes(i, op) => i = 1,
         op \in finalizing' => status'[op] = "pending",
         status'[op] = "pending" => op \in finalizing',
         status'[op] \in {"unknown", "failed"} => effects[op] = 0,
         status'[op] = "succeeded" => effects[op] = 1
  PROVE  HostInv'
<1>1. queue \in Seq(Jobs)
  BY DEF HostInv, HostTypes
<1>2. /\ queue' \in Seq(Jobs)
      /\ \A i \in DOMAIN queue' : i + 1 \in DOMAIN queue /\ i + 1 # 1 /\ queue'[i] = queue[i + 1]
      /\ \A i \in DOMAIN queue : i = 1 \/ (i - 1 \in DOMAIN queue' /\ queue'[i - 1] = queue[i])
      /\ \A i, j \in DOMAIN queue' : i + 1 = j + 1 => i = j
  BY <1>1, QueueTail
<1>3. HostTypes'
  BY <1>2 DEF HostInv, HostTypes
<1>4. \A i \in DOMAIN queue' : ~(queue'[i].kind = "execute" /\ queue'[i].op = op)
  BY <1>2 DEF Executes
<1>5. OneExecution'
  <2> SUFFICES ASSUME NEW o \in Ops, NEW i \in DOMAIN queue', Executes(i, o)'
               PROVE  /\ \A j \in DOMAIN queue' : Executes(j, o)' => i = j
                      /\ status'[o] = "pending" /\ o \notin finalizing'
                      /\ effects'[o] = IF queue'[i].applied THEN 1 ELSE 0
    BY DEF OneExecution
  <2>1. o # op
    BY <1>4 DEF Executes
  <2>2. i + 1 \in DOMAIN queue /\ Executes(i + 1, o) /\ queue'[i] = queue[i + 1]
    BY <1>2 DEF Executes
  <2>3. \A j \in DOMAIN queue' : Executes(j, o)' => i = j
    <3> SUFFICES ASSUME NEW j \in DOMAIN queue', Executes(j, o)' PROVE i = j
      OBVIOUS
    <3>1. j + 1 \in DOMAIN queue /\ Executes(j + 1, o)
      BY <1>2 DEF Executes
    <3>2. i + 1 = j + 1
      BY <2>2, <3>1 DEF HostInv, OneExecution
    <3> QED
      BY <1>2, <3>2
  <2>4. status[o] = "pending" /\ o \notin finalizing /\ effects[o] = IF queue[i + 1].applied THEN 1 ELSE 0
    BY <2>2 DEF HostInv, OneExecution
  <2> QED
    BY <2>1, <2>2, <2>3, <2>4
<1>6. StatusTellsEffect'
  BY DEF HostInv, StatusTellsEffect
<1>7. NothingIsStranded'
  <2> SUFFICES ASSUME NEW o \in Ops, status'[o] = "pending", o \notin finalizing'
               PROVE  \E i \in DOMAIN queue' : queue'[i].op = o /\ queue'[i].kind = "execute"
    BY DEF NothingIsStranded
  <2>1. o # op /\ status[o] = "pending" /\ o \notin finalizing
    OBVIOUS
  <2>2. PICK i \in DOMAIN queue : queue[i].op = o /\ queue[i].kind = "execute"
    BY <2>1 DEF HostInv, NothingIsStranded
  <2>3. i # 1
    BY <2>1, <2>2
  <2>4. i - 1 \in DOMAIN queue' /\ queue'[i - 1] = queue[i]
    BY <1>2, <2>2, <2>3
  <2> QED
    BY <2>2, <2>4
<1> QED
  BY <1>3, <1>5, <1>6, <1>7 DEF HostInv

LEMMA HostFinishExecution == HostInv /\ FinishExecution => HostInv'
<1> SUFFICES ASSUME HostInv, FinishExecution PROVE HostInv'
  OBVIOUS
<1>1. queue \in Seq(Jobs) /\ queue # <<>> /\ queue' = Tail(queue) /\ UNCHANGED <<effects, finalizing, hashing>>
  BY DEF HostInv, HostTypes, FinishExecution, Running
<1>2. 1 \in DOMAIN queue /\ Head(queue) = queue[1] /\ queue[1] \in Jobs
  BY <1>1
<1>3. PICK op \in Ops : op = queue[1].op
  BY <1>2 DEF Jobs
<1>4. Executes(1, op) /\ queue[1].applied \in BOOLEAN
  BY <1>2, <1>3 DEF FinishExecution, Running, Executes, Jobs
<1>5. /\ status[op] = "pending" /\ op \notin finalizing
      /\ effects[op] = IF queue[1].applied THEN 1 ELSE 0
      /\ \A i \in DOMAIN queue : Executes(i, op) => i = 1
  BY <1>2, <1>3, <1>4 DEF HostInv, OneExecution
<1>6. status' = [status EXCEPT ![op] = IF queue[1].applied THEN "succeeded" ELSE "failed"]
  BY <1>2, <1>3 DEF FinishExecution, Record
<1>7. /\ status' \in [Ops -> {"unknown", "pending"} \cup Terminal]
      /\ status'[op] = IF queue[1].applied THEN "succeeded" ELSE "failed"
      /\ \A o \in Ops : o # op => status'[o] = status[o]
  BY <1>3, <1>6 DEF HostInv, HostTypes, Terminal
<1>8. finalizing' \subseteq Deferrable
  BY <1>1 DEF HostInv, HostTypes
<1> QED
  BY <1>1, <1>3, <1>4, <1>5, <1>7, <1>8, HostLeave

LEMMA HostDeferExecution == HostInv /\ DeferExecution => HostInv'
<1> SUFFICES ASSUME HostInv, DeferExecution PROVE HostInv'
  OBVIOUS
<1>1. /\ queue \in Seq(Jobs) /\ queue # <<>> /\ queue' = Tail(queue)
      /\ UNCHANGED <<effects, status, hashing>>
  BY DEF HostInv, HostTypes, DeferExecution, Defer, Running
<1>2. 1 \in DOMAIN queue /\ Head(queue) = queue[1] /\ queue[1] \in Jobs
  BY <1>1
<1>3. PICK op \in Ops : op = queue[1].op
  BY <1>2 DEF Jobs
<1>4. Executes(1, op) /\ op \in Deferrable /\ finalizing' = finalizing \cup {op}
  BY <1>2, <1>3 DEF DeferExecution, Defer, Running, Executes
<1>5. /\ status[op] = "pending" /\ \A i \in DOMAIN queue : Executes(i, op) => i = 1
  BY <1>2, <1>3, <1>4 DEF HostInv, OneExecution
<1>6. finalizing' \subseteq Deferrable /\ status' \in [Ops -> {"unknown", "pending"} \cup Terminal]
  BY <1>1, <1>4 DEF HostInv, HostTypes
<1> QED
  BY <1>1, <1>3, <1>4, <1>5, <1>6, HostLeave

LEMMA HostFinalize ==
  ASSUME HostInv, NEW done \in BOOLEAN, Finalize(done)
  PROVE  HostInv'
<1>1. queue \in Seq(Jobs) /\ queue # <<>> /\ queue' = Tail(queue) /\ UNCHANGED <<effects, hashing>>
  BY DEF HostInv, HostTypes, Finalize, Running
<1>2. 1 \in DOMAIN queue /\ Head(queue) = queue[1] /\ queue[1] \in Jobs
  BY <1>1
<1>3. PICK op \in Ops : op = queue[1].op
  BY <1>2 DEF Jobs
<1>4. queue[1].kind = "finalize"
  BY <1>2 DEF Finalize, Running
<1>5. CASE done /\ op \in finalizing
  <2>1. /\ finalizing' = finalizing \ {op}
        /\ status' = [status EXCEPT ![op] = IF effects[op] > 0 THEN "succeeded" ELSE "failed"]
    BY <1>2, <1>3, <1>5 DEF Finalize, Record
  <2>2. /\ status' \in [Ops -> {"unknown", "pending"} \cup Terminal]
        /\ status'[op] = IF effects[op] > 0 THEN "succeeded" ELSE "failed"
        /\ \A o \in Ops : o # op => status'[o] = status[o]
    BY <1>3, <2>1 DEF HostInv, HostTypes, Terminal
  <2>3. effects[op] \in {0, 1} /\ \A i \in DOMAIN queue : ~Executes(i, op)
    BY <1>3, <1>5 DEF HostInv, StatusTellsEffect, OneExecution
  <2>4. finalizing' \subseteq Deferrable
    BY <2>1 DEF HostInv, HostTypes
  <2> QED
    BY <1>1, <1>3, <2>1, <2>2, <2>3, <2>4, HostLeave
<1>6. CASE ~(done /\ op \in finalizing)
  <2>1. UNCHANGED <<finalizing, status>>
    BY <1>2, <1>3, <1>6 DEF Finalize
  <2>2. /\ queue' \in Seq(Jobs)
        /\ \A i \in DOMAIN queue' : i + 1 \in DOMAIN queue /\ queue'[i] = queue[i + 1]
        /\ \A i \in DOMAIN queue : i = 1 \/ (i - 1 \in DOMAIN queue' /\ queue'[i - 1] = queue[i])
        /\ \A i, j \in DOMAIN queue' : i + 1 = j + 1 => i = j
    BY <1>1, QueueTail
  <2>3. HostTypes' /\ StatusTellsEffect'
    BY <1>1, <2>1, <2>2 DEF HostInv, HostTypes, StatusTellsEffect
  <2>4. \A i \in DOMAIN queue' : \A o \in Ops : Executes(i, o)' => Executes(i + 1, o)
    BY <2>2 DEF Executes
  <2>5. OneExecution'
    BY <1>1, <2>1, <2>2, <2>4 DEF HostInv, OneExecution
  <2>6. NothingIsStranded'
    <3> SUFFICES ASSUME NEW o \in Ops, status[o] = "pending", o \notin finalizing
                 PROVE  \E i \in DOMAIN queue' : queue'[i].op = o /\ queue'[i].kind = "execute"
      BY <2>1 DEF NothingIsStranded
    <3>1. PICK i \in DOMAIN queue : queue[i].op = o /\ queue[i].kind = "execute"
      BY DEF HostInv, NothingIsStranded
    <3>2. i # 1
      BY <1>4, <3>1
    <3> QED
      BY <2>2, <3>1, <3>2
  <2> QED
    BY <2>3, <2>5, <2>6 DEF HostInv
<1> QED
  BY <1>5, <1>6

\* An interruption changes only who still waits for an answer.
LEMMA HostInterrupt == HostInv /\ Interrupt => HostInv'
<1> SUFFICES ASSUME HostInv, Interrupt PROVE HostInv'
  OBVIOUS
<1>1. /\ queue \in Seq(Jobs) /\ hashing \subseteq Requests
      /\ queue' = [i \in DOMAIN queue |-> [queue[i] EXCEPT !.live = FALSE]]
      /\ hashing' = {[request EXCEPT !.live = FALSE] : request \in hashing}
      /\ UNCHANGED <<status, effects, finalizing>>
  BY DEF HostInv, HostTypes, Interrupt
<1>2. hashing' \subseteq Requests
  BY <1>1 DEF Requests
<1>3. \A i \in DOMAIN queue : /\ queue'[i] \in Jobs /\ queue'[i].kind = queue[i].kind
                              /\ queue'[i].op = queue[i].op /\ queue'[i].applied = queue[i].applied
  <2> TAKE i \in DOMAIN queue
  <2>1. queue[i] \in Jobs
    BY <1>1, QueueJobs
  <2>2. queue'[i] = [queue[i] EXCEPT !.live = FALSE]
    BY <1>1
  <2> QED
    BY <2>1, <2>2 DEF Jobs
<1>4. DOMAIN queue' = DOMAIN queue /\ queue' \in Seq(Jobs)
  BY <1>1, <1>3
<1>5. HostTypes' /\ StatusTellsEffect'
  BY <1>1, <1>2, <1>4 DEF HostInv, HostTypes, StatusTellsEffect
<1>6. OneExecution'
  BY <1>1, <1>3, <1>4, SMTT(40) DEF HostInv, OneExecution, Executes
<1>7. NothingIsStranded'
  BY <1>1, <1>3, <1>4 DEF HostInv, NothingIsStranded
<1> QED
  BY <1>5, <1>6, <1>7 DEF HostInv

\* A request reaches the Host and is suspended there.
LEMMA HostReceiveMutate ==
  ASSUME HostInv, ReceiveMutate, call.op \in Ops
  PROVE  HostInv'
<1>1. hashing' \subseteq Requests /\ UNCHANGED <<status, effects, finalizing, queue>>
  <2>1. hashing' = hashing \cup {Request(call.op)} /\ UNCHANGED <<status, effects, finalizing, queue>>
    BY DEF ReceiveMutate
  <2>2. Request(call.op) \in Requests
    BY DEF Request, Requests
  <2> QED
    BY <2>1, <2>2 DEF HostInv, HostTypes
<1> QED
  BY <1>1 DEF HostInv, HostTypes, OneExecution, StatusTellsEffect, NothingIsStranded, Executes

LEMMA HostUnchanged == HostInv /\ UNCHANGED hostVars => HostInv'
BY DEF HostInv, HostTypes, OneExecution, StatusTellsEffect, NothingIsStranded, Executes, hostVars

\* A step leaves the Host alone, reaches it, or is taken by it.
LEMMA HostNext ==
  ASSUME HostInv, [Next]_vars, call.kind = "mutate" => call.op \in Ops,
         call.kind = "outcome" => call.op \in Ops
  PROVE  HostInv'
<1>1. CASE ReceiveMutate
  BY <1>1, HostReceiveMutate DEF ReceiveMutate
<1>2. CASE Hashed
  BY <1>2, HostBegin DEF Hashed
<1>3. CASE ReceiveOutcome
  <2>1. CASE call.op \in finalizing
    BY <1>3, <2>1, HostAsked DEF ReceiveOutcome
  <2>2. CASE call.op \notin finalizing
    BY <1>3, <2>2, HostUnchanged DEF ReceiveOutcome, hostVars
  <2> QED
    BY <2>1, <2>2
<1>4. CASE CommitEffect
  BY <1>4, HostCommitEffect
<1>5. CASE FinishExecution
  BY <1>5, HostFinishExecution
<1>6. CASE DeferExecution
  BY <1>6, HostDeferExecution
<1>7. ASSUME NEW done \in BOOLEAN, Finalize(done) PROVE HostInv'
  BY <1>7, HostFinalize
<1>8. CASE ProviderStep
  BY <1>8, HostUnchanged
    DEF ProviderStep, Mutate, Recover, RecoverOperations, Reconcile, CompleteRecovery, LiftBarrier
<1>9. CASE Interrupt
  BY <1>9, HostInterrupt
<1>10. CASE Restore
  BY <1>10, HostUnchanged DEF Restore
<1>11. CASE UNCHANGED vars
  BY <1>11, HostUnchanged DEF vars
<1> QED
  BY <1>1, <1>2, <1>3, <1>4, <1>5, <1>6, <1>7, <1>8, <1>9, <1>10, <1>11 DEF Next, HostStep

\* What is settled stays settled: an operation that has an outcome is neither
\* executed nor finalized again.
LEMMA SettledStays ==
  ASSUME HostInv, [Next]_vars, NEW op \in Ops, status[op] \in Terminal
  PROVE  status'[op] = status[op] /\ effects'[op] = effects[op]
<1>0. status[op] \notin {"unknown", "pending"} /\ status \in [Ops -> {"unknown", "pending"} \cup Terminal]
      /\ effects \in [Ops -> Nat] /\ queue \in Seq(Jobs)
  BY DEF HostInv, HostTypes, Terminal
<1>1. ASSUME queue # <<>>, Head(queue).kind = "execute" PROVE Head(queue).op # op
  <2>1. 1 \in DOMAIN queue /\ Head(queue) = queue[1]
    BY <1>0, <1>1
  <2> QED
    BY <1>0, <1>1, <2>1 DEF HostInv, OneExecution, Executes
<1>2. op \notin finalizing
  BY <1>0 DEF HostInv, StatusTellsEffect
<1>3. CASE Hashed
  <2>1. PICK request \in hashing : Begin(request) /\ UNCHANGED effects
    BY <1>3 DEF Hashed
  <2>2. CASE request.op = op
    BY <1>0, <2>1, <2>2 DEF Begin, BeginIf
  <2>3. CASE request.op # op
    BY <1>0, <2>1, <2>3 DEF Begin, BeginIf
  <2> QED
    BY <2>2, <2>3
<1>4. CASE CommitEffect
  BY <1>0, <1>1, <1>4 DEF CommitEffect, Running
<1>5. CASE FinishExecution
  BY <1>0, <1>1, <1>5 DEF FinishExecution, Running, Record
<1>6. ASSUME NEW done \in BOOLEAN, Finalize(done) PROVE UNCHANGED <<status[op], effects[op]>>
  <2>1. CASE Head(queue).op = op
    BY <1>2, <1>6, <2>1 DEF Finalize
  <2>2. CASE Head(queue).op # op
    BY <1>0, <1>6, <2>2 DEF Finalize, Record
  <2> QED
    BY <2>1, <2>2
<1>7. CASE ReceiveMutate \/ ReceiveOutcome \/ DeferExecution \/ Interrupt \/ Restore \/ UNCHANGED vars
  BY <1>7 DEF ReceiveMutate, ReceiveOutcome, DeferExecution, Defer, Interrupt, Restore, vars, hostVars
<1>8. CASE ProviderStep
  BY <1>8
    DEF ProviderStep, Mutate, Recover, RecoverOperations, Reconcile, CompleteRecovery, LiftBarrier, hostVars
<1> QED
  BY <1>3, <1>4, <1>5, <1>6, <1>7, <1>8 DEF Next, HostStep

-----------------------------------------------------------------------------
(* The provider's call *)

CallTypes ==
  {NoCall} \cup [kind : {"answer"}, outcome : Outcomes]
    \cup [kind : {"mutate", "outcome"}, op : Ops, at : {"wire", "host"}]
TaskTypes ==
  [task : {"mutation", "recovery"}, op : Ops \cup {"none"},
   todo : SUBSET Ops, round : 0..Rounds, resent : BOOLEAN]

ClientTypes ==
  /\ call \in CallTypes
  /\ link \in BOOLEAN /\ interrupts \in Nat
  /\ frame \in {Idle} \cup TaskTypes
  /\ pending \subseteq Ops
  /\ told \in [Ops -> Terminal \cup {"nothing", "uncertain"}]
  /\ recovering \in BOOLEAN /\ mode \in {"live", "disposed"}

AtHost(op) == call.kind \in {"mutate", "outcome"} /\ call.at = "host" /\ call.op = op

\* At most one request or job at the Host has somebody waiting for it, and it
\* is of the operation that the outstanding call is about.
OneListens ==
  /\ \A r \in hashing : r.live => AtHost(r.op)
  /\ \A i \in DOMAIN queue : queue[i].live =>
       /\ AtHost(queue[i].op)
       /\ \A r \in hashing : ~r.live
       /\ \A j \in DOMAIN queue : queue[j].live => i = j

\* The call is the running task's, and a terminal answer is the status.
CallServesTask ==
  /\ call.kind # "none" => frame # Idle /\ frame.op \in Ops
  /\ call.kind \in {"mutate", "outcome"} => call.op = frame.op
  /\ call.kind = "answer" /\ call.outcome \in Terminal => status[frame.op] = call.outcome

\* What a caller was told is the status.
ToldTheStatus == \A op \in Ops : told[op] \in Terminal => status[op] = told[op]

ClientInv == ClientTypes /\ OneListens /\ CallServesTask /\ ToldTheStatus

LEMMA ClientInit == Init => ClientInv
<1> SUFFICES ASSUME Init PROVE ClientInv
  OBVIOUS
<1>1. ClientTypes
  BY DEF Init, ClientTypes, CallTypes
<1>2. OneListens
  BY DEF Init, OneListens
<1>3. CallServesTask
  BY DEF Init, CallServesTask, NoCall
<1>4. ToldTheStatus
  BY DEF Init, ToldTheStatus, Terminal
<1> QED
  BY <1>1, <1>2, <1>3, <1>4 DEF ClientInv

\* The head of the queue leaves with an answer for whoever still waits.
LEMMA HeadAnswers ==
  ASSUME HostInv, ClientInv, queue # <<>>, queue' = Tail(queue), NEW outcome \in Outcomes,
         Answer(Head(queue).live, outcome), UNCHANGED <<hashing, providerVars, link, interrupts>>,
         \A op \in Ops : status[op] \in Terminal => status'[op] = status[op],
         outcome \in Terminal => status'[Head(queue).op] = outcome
  PROVE  ClientInv'
<1>1. queue \in Seq(Jobs) /\ hashing \subseteq Requests
  BY DEF HostInv, HostTypes
<1>2. /\ 1 \in DOMAIN queue /\ Head(queue) = queue[1] /\ queue[1] \in Jobs
      /\ \A i \in DOMAIN queue' : i + 1 \in DOMAIN queue /\ i + 1 # 1 /\ queue'[i] = queue[i + 1]
      /\ \A i, j \in DOMAIN queue' : i + 1 = j + 1 => i = j
  BY <1>1, QueueTail
<1>3. UNCHANGED <<frame, pending, told, recovering, mode, link, interrupts, hashing>>
  BY DEF providerVars
<1>4. ToldTheStatus'
  BY <1>3 DEF ClientInv, ToldTheStatus
<1>5. CASE queue[1].live
  <2>1. call' = [kind |-> "answer", outcome |-> outcome]
    BY <1>2, <1>5 DEF Answer
  <2>2. ClientTypes'
    BY <1>3, <2>1 DEF ClientInv, ClientTypes, CallTypes
  <2>3. AtHost(queue[1].op) /\ frame # Idle /\ frame.op \in Ops /\ frame.op = queue[1].op
    BY <1>2, <1>5 DEF ClientInv, OneListens, CallServesTask, AtHost
  <2>4. CallServesTask'
    BY <1>2, <1>3, <2>1, <2>3 DEF CallServesTask
  <2>5. OneListens'
    BY <1>2, <1>3, <1>5 DEF ClientInv, OneListens
  <2> QED
    BY <1>4, <2>2, <2>4, <2>5 DEF ClientInv
<1>6. CASE ~queue[1].live
  <2>1. call' = call
    BY <1>2, <1>6 DEF Answer
  <2>2. ClientTypes'
    BY <1>3, <2>1 DEF ClientInv, ClientTypes
  <2>3. CallServesTask'
    BY <1>3, <2>1 DEF ClientInv, CallServesTask
  <2>4. OneListens'
    BY <1>2, <1>3, <2>1 DEF ClientInv, OneListens, AtHost
  <2> QED
    BY <1>4, <2>2, <2>3, <2>4 DEF ClientInv
<1> QED
  BY <1>5, <1>6

\* The jobs that answer as they leave.
LEMMA ClientFinish ==
  ASSUME HostInv, ClientInv, [Next]_vars,
         FinishExecution \/ DeferExecution \/ \E done \in BOOLEAN : Finalize(done)
  PROVE  ClientInv'
<1>1. \A op \in Ops : status[op] \in Terminal => status'[op] = status[op]
  BY SettledStays
<1>2. queue # <<>> => /\ Head(queue).op \in Ops /\ status \in [Ops -> {"unknown", "pending"} \cup Terminal]
  <2>1. queue \in Seq(Jobs) /\ status \in [Ops -> {"unknown", "pending"} \cup Terminal]
    BY DEF HostInv, HostTypes
  <2>2. queue # <<>> => Head(queue) \in Jobs
    BY <2>1
  <2> QED
    BY <2>1, <2>2 DEF Jobs
<1>3. CASE FinishExecution
  <2> DEFINE outcome == IF Head(queue).applied THEN "succeeded" ELSE "failed"
  <2>1. /\ queue # <<>> /\ queue' = Tail(queue) /\ status' = [status EXCEPT ![Head(queue).op] = outcome]
        /\ Answer(Head(queue).live, outcome) /\ UNCHANGED <<hashing, providerVars, link, interrupts>>
    BY <1>3 DEF FinishExecution, Running, Record
  <2>2. outcome \in Outcomes /\ status'[Head(queue).op] = outcome
    BY <1>2, <2>1 DEF Outcomes
  <2> QED
    BY <1>1, <2>1, <2>2, HeadAnswers
<1>4. CASE DeferExecution
  <2>1. /\ queue # <<>> /\ queue' = Tail(queue)
        /\ Answer(Head(queue).live, "pending") /\ UNCHANGED <<hashing, providerVars, link, interrupts>>
    BY <1>4 DEF DeferExecution, Defer, Running
  <2>2. "pending" \in Outcomes /\ "pending" \notin Terminal
    BY DEF Outcomes, Terminal
  <2> QED
    BY <1>1, <2>1, <2>2, HeadAnswers
<1>5. ASSUME NEW done \in BOOLEAN, Finalize(done) PROVE ClientInv'
  <2>0. /\ queue # <<>> /\ queue' = Tail(queue) /\ UNCHANGED <<hashing, providerVars, link, interrupts>>
    BY <1>5 DEF Finalize, Running
  <2>1. CASE done /\ Head(queue).op \in finalizing
    <3> DEFINE outcome == IF effects[Head(queue).op] > 0 THEN "succeeded" ELSE "failed"
    <3>1. /\ status' = [status EXCEPT ![Head(queue).op] = outcome] /\ Answer(Head(queue).live, outcome)
      BY <1>5, <2>1 DEF Finalize, Record
    <3>2. outcome \in Outcomes /\ status'[Head(queue).op] = outcome
      BY <1>2, <2>0, <3>1 DEF Outcomes
    <3> QED
      BY <1>1, <2>0, <3>1, <3>2, HeadAnswers
  <2>2. CASE ~(done /\ Head(queue).op \in finalizing)
    <3>1. Answer(Head(queue).live, "pending")
      BY <1>5, <2>2 DEF Finalize
    <3>2. "pending" \in Outcomes /\ "pending" \notin Terminal
      BY DEF Outcomes, Terminal
    <3> QED
      BY <1>1, <2>0, <3>1, <3>2, HeadAnswers
  <2> QED
    BY <2>1, <2>2
<1> QED
  BY <1>3, <1>4, <1>5

\* A request is registered or answered.
LEMMA ClientHashed ==
  ASSUME HostInv, ClientInv, [Next]_vars, Hashed
  PROVE  ClientInv'
<1>1. PICK request \in hashing : Begin(request)
  BY DEF Hashed
<1>2. /\ UNCHANGED <<frame, pending, told, recovering, mode, link, interrupts>>
      /\ hashing' = hashing \ {request}
  BY <1>1 DEF Hashed, Begin, BeginIf, providerVars
<1>3. /\ queue \in Seq(Jobs) /\ request \in Requests /\ status \in [Ops -> {"unknown", "pending"} \cup Terminal]
  BY DEF HostInv, HostTypes
<1>4. ToldTheStatus'
  BY <1>2, SettledStays DEF ClientInv, ToldTheStatus
<1>5. CASE status[request.op] = "unknown"
  <2>1. call' = call
    BY <1>1, <1>5 DEF Begin, BeginIf
  <2>2. PICK job \in Jobs : /\ queue' = Append(queue, job) /\ job.op = request.op
                            /\ job.live = request.live
    <3>1. PICK asked \in Jobs : asked = Job("execute", request.op) /\ asked.op = request.op
      <4>1. Job("execute", request.op) \in Jobs
        BY <1>3 DEF Job, Jobs, Requests
      <4> QED
        BY <4>1 DEF Job
    <3>2. /\ [asked EXCEPT !.live = request.live] \in Jobs
          /\ [asked EXCEPT !.live = request.live].op = request.op
          /\ [asked EXCEPT !.live = request.live].live = request.live
      BY <1>3, <3>1 DEF Jobs, Requests
    <3>3. queue' = Append(queue, [asked EXCEPT !.live = request.live])
      BY <1>1, <1>5, <3>1 DEF Begin, BeginIf
    <3> QED
      BY <3>2, <3>3
  <2>3. /\ \A i \in DOMAIN queue' : i \in DOMAIN queue \/ i = Len(queue) + 1
        /\ Len(queue) + 1 \notin DOMAIN queue
        /\ \A i \in DOMAIN queue : queue'[i] = queue[i]
        /\ queue'[Len(queue) + 1] = job
    BY <1>3, <2>2, QueueAppend
  <2>4. ClientTypes'
    BY <1>2, <2>1 DEF ClientInv, ClientTypes
  <2>5. CallServesTask'
    <3>1. \A op \in Ops : status[op] \in Terminal => status'[op] = status[op]
      BY SettledStays
    <3> QED
      BY <1>2, <2>1, <3>1 DEF ClientInv, CallServesTask
  <2>6. OneListens'
    <3>1. request.live => /\ \A r \in hashing' : ~r.live
                          /\ \A i \in DOMAIN queue : ~queue[i].live
      <4> SUFFICES ASSUME request.live PROVE \A r \in hashing' : ~r.live
        BY DEF ClientInv, OneListens
      <4>1. \A r \in hashing : r.live => r = request
        <5> SUFFICES ASSUME NEW r \in hashing, r.live PROVE r = request
          OBVIOUS
        <5>1. r.op = request.op
          BY DEF ClientInv, OneListens, AtHost
        <5>2. r \in Requests
          BY DEF HostInv, HostTypes
        <5>3. r.live = TRUE /\ request.live = TRUE
          BY <1>3, <5>2 DEF Requests
        <5> QED
          BY <1>3, <5>1, <5>2, <5>3 DEF Requests
      <4> QED
        BY <1>2, <4>1
    <3>2. \A r \in hashing' : r.live => AtHost(r.op)'
      BY <1>2, <2>1 DEF ClientInv, OneListens, AtHost
    <3>3. \A i \in DOMAIN queue' : queue'[i].live => AtHost(queue[i].op)'
      <4> SUFFICES ASSUME NEW i \in DOMAIN queue', queue'[i].live PROVE AtHost(queue[i].op)'
        OBVIOUS
      <4>1. CASE i \in DOMAIN queue
        BY <2>1, <2>3, <4>1 DEF ClientInv, OneListens, AtHost
      <4>2. CASE i = Len(queue) + 1
        <5>1. request.live /\ queue'[i].op = request.op
          BY <2>2, <2>3, <4>2
        <5> QED
          BY <2>1, <5>1 DEF ClientInv, OneListens, AtHost
      <4> QED
        BY <2>3, <4>1, <4>2
    <3>4. \A i \in DOMAIN queue' : queue'[i].live => \A r \in hashing' : ~r.live
      BY <1>2, <2>2, <2>3, <3>1 DEF ClientInv, OneListens
    <3>5. \A i, j \in DOMAIN queue' : queue'[i].live /\ queue'[j].live => i = j
      BY <2>2, <2>3, <3>1 DEF ClientInv, OneListens
    <3>6. ASSUME NEW i \in DOMAIN queue', queue'[i].live
          PROVE  AtHost(queue[i].op)' /\ (\A r \in hashing' : ~r.live)
                 /\ \A j \in DOMAIN queue' : queue'[j].live => i = j
      BY <3>3, <3>4, <3>5, <3>6
    <3> QED
      BY <3>2, <3>6 DEF OneListens
  <2> QED
    BY <1>4, <2>4, <2>5, <2>6 DEF ClientInv
<1>6. CASE status[request.op] # "unknown"
  <2>1. UNCHANGED <<status, queue>> /\ Answer(request.live, status[request.op])
    BY <1>1, <1>6 DEF Begin, BeginIf
  <2>2. CASE request.live
    <3>1. call' = [kind |-> "answer", outcome |-> status[request.op]]
      BY <2>1, <2>2 DEF Answer
    <3>2. status[request.op] \in Outcomes
      BY <1>3 DEF Outcomes, Terminal, Requests
    <3>3. ClientTypes'
      BY <1>2, <3>1, <3>2 DEF ClientInv, ClientTypes, CallTypes
    <3>4. frame # Idle /\ frame.op \in Ops /\ frame.op = request.op
      BY <2>2 DEF ClientInv, OneListens, CallServesTask, AtHost
    <3>5. CallServesTask'
      BY <1>2, <2>1, <3>1, <3>4 DEF CallServesTask
    <3>6. \A r \in hashing : r.live => r = request
      <4> SUFFICES ASSUME NEW r \in hashing, r.live PROVE r = request
        OBVIOUS
      <4>1. r.op = request.op
        BY <2>2 DEF ClientInv, OneListens, AtHost
      <4>2. r \in Requests
        BY DEF HostInv, HostTypes
      <4>3. r.live = TRUE /\ request.live = TRUE
        BY <1>3, <2>2, <4>2 DEF Requests
      <4> QED
        BY <1>3, <4>1, <4>2, <4>3 DEF Requests
    <3>7. OneListens'
      BY <1>2, <2>1, <2>2, <3>6 DEF ClientInv, OneListens
    <3> QED
      BY <1>4, <3>3, <3>5, <3>7 DEF ClientInv
  <2>3. CASE ~request.live
    <3>1. call' = call
      BY <2>1, <2>3 DEF Answer
    <3>2. ClientTypes' /\ CallServesTask'
      BY <1>2, <2>1, <3>1 DEF ClientInv, ClientTypes, CallServesTask
    <3>3. OneListens'
      BY <1>2, <2>1, <3>1 DEF ClientInv, OneListens, AtHost
    <3> QED
      BY <1>4, <3>2, <3>3 DEF ClientInv
  <2> QED
    BY <2>2, <2>3
<1> QED
  BY <1>5, <1>6

\* A call arrives at the Host, where nobody else is listened to.
LEMMA ClientReceives ==
  ASSUME HostInv, ClientInv, [Next]_vars, ReceiveMutate \/ ReceiveOutcome
  PROVE  ClientInv'
<1>1. /\ UNCHANGED <<frame, pending, told, recovering, mode, link, interrupts, status>>
      /\ call.kind \in {"mutate", "outcome"} /\ call.at = "wire"
  BY DEF ReceiveMutate, ReceiveOutcome, providerVars
<1>2. call \in [kind : {"mutate", "outcome"}, op : Ops, at : {"wire", "host"}]
  BY <1>1 DEF ClientInv, ClientTypes, CallTypes, NoCall
<1>3. frame # Idle /\ frame.op = call.op
  BY <1>1 DEF ClientInv, CallServesTask
<1>4. /\ \A r \in hashing : ~r.live
      /\ \A i \in DOMAIN queue : ~queue[i].live
  BY <1>1 DEF ClientInv, OneListens, AtHost
<1>5. ToldTheStatus'
  BY <1>1 DEF ClientInv, ToldTheStatus
<1>6. status \in [Ops -> {"unknown", "pending"} \cup Terminal] /\ queue \in Seq(Jobs)
  BY DEF HostInv, HostTypes
<1>7. CASE call' = [call EXCEPT !.at = "host"]
  <2>1. /\ call' \in [kind : {"mutate", "outcome"}, op : Ops, at : {"wire", "host"}]
        /\ call'.kind = call.kind /\ call'.op = call.op /\ call'.at = "host"
    BY <1>2, <1>7
  <2>2. ClientTypes'
    BY <1>1, <2>1 DEF ClientInv, ClientTypes, CallTypes
  <2>3. CallServesTask'
    BY <1>1, <1>2, <1>3, <2>1 DEF CallServesTask
  <2>4. CASE ReceiveMutate
    <3>1. hashing' = hashing \cup {Request(call.op)} /\ queue' = queue
      BY <2>4 DEF ReceiveMutate
    <3>2. \A r \in hashing' : r.live => r.op = call.op
      BY <1>4, <3>1 DEF Request
    <3>3. OneListens'
      BY <1>1, <1>4, <2>1, <3>1, <3>2 DEF OneListens, AtHost
    <3> QED
      BY <1>5, <2>2, <2>3, <3>3 DEF ClientInv
  <2>5. CASE ReceiveOutcome
    <3>0. hashing' = hashing
      BY <2>5 DEF ReceiveOutcome
    <3>1. CASE queue' = Append(queue, Job("finalize", call.op))
      <4>1. PICK job \in Jobs : queue' = Append(queue, job) /\ job.op = call.op
        <5>1. Job("finalize", call.op) \in Jobs
          BY <1>2 DEF Job, Jobs
        <5> QED
          BY <3>1, <5>1 DEF Job
      <4>2. /\ \A i \in DOMAIN queue' : i \in DOMAIN queue \/ i = Len(queue) + 1
            /\ \A i \in DOMAIN queue : queue'[i] = queue[i]
            /\ queue'[Len(queue) + 1] = job
        BY <1>6, <4>1, QueueAppend
      <4>3. OneListens'
        BY <1>1, <1>4, <2>1, <3>0, <4>1, <4>2 DEF OneListens, AtHost
      <4> QED
        BY <1>5, <2>2, <2>3, <4>3 DEF ClientInv
    <3>2. CASE queue' = queue
      <4>1. OneListens'
        BY <1>4, <3>0, <3>2 DEF OneListens
      <4> QED
        BY <1>5, <2>2, <2>3, <4>1 DEF ClientInv
    <3> QED
      BY <2>5, <3>1, <3>2 DEF ReceiveOutcome
  <2> QED
    BY <2>4, <2>5
<1>8. CASE ReceiveOutcome /\ call.op \notin finalizing
  <2>1. /\ call' = [kind |-> "answer", outcome |-> status[call.op]]
        /\ queue' = queue /\ hashing' = hashing
    BY <1>8 DEF ReceiveOutcome, Answer
  <2>2. status[call.op] \in Outcomes
    BY <1>2, <1>6 DEF Outcomes, Terminal
  <2>3. ClientTypes'
    BY <1>1, <2>1, <2>2 DEF ClientInv, ClientTypes, CallTypes
  <2>4. CallServesTask'
    BY <1>1, <1>2, <1>3, <2>1 DEF CallServesTask
  <2>5. OneListens'
    BY <1>4, <2>1 DEF OneListens
  <2> QED
    BY <1>5, <2>3, <2>4, <2>5 DEF ClientInv
<1> QED
  BY <1>7, <1>8 DEF ReceiveMutate, ReceiveOutcome

\* The effect of an execution and a lost transport tell nobody anything.
LEMMA ClientAside ==
  ASSUME HostInv, ClientInv, CommitEffect \/ Interrupt \/ Restore \/ UNCHANGED vars
  PROVE  ClientInv'
<1>0. queue \in Seq(Jobs) /\ hashing \subseteq Requests
  BY DEF HostInv, HostTypes
<1>1. CASE CommitEffect
  <2>1. queue # <<>> /\ queue' = [queue EXCEPT ![1].applied = TRUE]
    BY <1>1 DEF CommitEffect, Running
  <2>2. /\ DOMAIN queue' = DOMAIN queue
        /\ \A i \in DOMAIN queue : queue'[i].live = queue[i].live /\ queue'[i].op = queue[i].op
    <3>1. \A i \in DOMAIN queue : queue[i] \in Jobs
      BY <1>0, QueueJobs
    <3> QED
      BY <1>0, <2>1, <3>1 DEF Jobs
  <2>3. UNCHANGED <<status, hashing, call, frame, pending, told, recovering, mode, link, interrupts>>
    BY <1>1 DEF CommitEffect, providerVars
  <2>4. ClientTypes' /\ CallServesTask' /\ ToldTheStatus'
    BY <2>3 DEF ClientInv, ClientTypes, CallServesTask, ToldTheStatus
  <2>5. OneListens'
    BY <2>2, <2>3 DEF ClientInv, OneListens, AtHost
  <2> QED
    BY <2>4, <2>5 DEF ClientInv
<1>2. CASE Interrupt
  <2>1. /\ hashing' = {[request EXCEPT !.live = FALSE] : request \in hashing}
        /\ queue' = [i \in DOMAIN queue |-> [queue[i] EXCEPT !.live = FALSE]]
        /\ call' = NoCall /\ frame' = Idle /\ recovering' = TRUE /\ link' = FALSE
        /\ interrupts' = interrupts + 1
        /\ UNCHANGED <<status, pending, mode>>
        /\ \/ told' = told
           \/ frame # Idle /\ frame.task = "mutation" /\ told' = [told EXCEPT ![frame.op] = "uncertain"]
    BY <1>2 DEF Interrupt
  <2>2. OneListens'
    <3>1. \A r \in hashing' : r.live = FALSE
      BY <1>0, <2>1 DEF Requests
    <3>2. \A i \in DOMAIN queue' : queue'[i].live = FALSE
      <4> TAKE i \in DOMAIN queue'
      <4>1. i \in DOMAIN queue /\ queue[i] \in Jobs /\ queue'[i] = [queue[i] EXCEPT !.live = FALSE]
        BY <1>0, <2>1, QueueJobs
      <4> QED
        BY <4>1 DEF Jobs
    <3> QED
      BY <3>1, <3>2 DEF OneListens
  <2>3. CallServesTask'
    BY <2>1 DEF CallServesTask, NoCall
  <2>4. told' \in [Ops -> Terminal \cup {"nothing", "uncertain"}] /\ ToldTheStatus'
    BY <2>1 DEF ClientInv, ClientTypes, ToldTheStatus, Terminal
  <2>5. ClientTypes'
    <3>1. call' \in CallTypes /\ frame' \in {Idle} \cup TaskTypes
      BY <2>1 DEF CallTypes
    <3>2. interrupts' \in Nat
      BY <2>1 DEF ClientInv, ClientTypes
    <3>4. link' \in BOOLEAN /\ recovering' \in BOOLEAN
      BY <2>1
    <3>3. pending' \subseteq Ops /\ mode' \in {"live", "disposed"}
      BY <2>1 DEF ClientInv, ClientTypes
    <3> QED
      BY <2>4, <3>1, <3>2, <3>3, <3>4 DEF ClientTypes
  <2> QED
    BY <2>2, <2>3, <2>4, <2>5 DEF ClientInv
<1>3. CASE Restore \/ UNCHANGED vars
  <2>1. /\ UNCHANGED <<status, hashing, queue, call, frame, pending, told, recovering, mode, interrupts>>
        /\ link' \in BOOLEAN
    BY <1>3 DEF Restore, vars, hostVars, providerVars, ClientInv, ClientTypes
  <2>2. ClientTypes' /\ CallServesTask' /\ ToldTheStatus'
    BY <2>1 DEF ClientInv, ClientTypes, CallServesTask, ToldTheStatus
  <2>3. OneListens'
    BY <2>1 DEF ClientInv, OneListens, AtHost
  <2> QED
    BY <2>2, <2>3 DEF ClientInv
<1> QED
  BY <1>1, <1>2, <1>3

\* Nothing at the Host has a listener while no call is at the Host.
LEMMA NoneListens ==
  ASSUME ClientInv, call.kind \in {"none", "answer"}
  PROVE  (\A r \in hashing : ~r.live) /\ \A i \in DOMAIN queue : ~queue[i].live
BY DEF ClientInv, OneListens, AtHost

\* The next call of a recovery, if there is one.
LEMMA NextPendingCalls ==
  ASSUME NEW todo \in SUBSET Ops, NextPending(todo)
  PROVE  \/ todo = {} /\ frame' = Task("recovery", "none", {}) /\ call' = NoCall
         \/ \E op \in todo : /\ frame' = Task("recovery", op, todo \ {op})
                             /\ call' = [kind |-> "outcome", op |-> op, at |-> "wire"]
BY DEF NextPending, Send

\* A task, as a record.
LEMMA TaskType ==
  ASSUME NEW task \in {"mutation", "recovery"}, NEW op \in Ops \cup {"none"}, NEW todo \in SUBSET Ops
  PROVE  /\ Task(task, op, todo) \in TaskTypes
         /\ Task(task, op, todo) # Idle
         /\ Task(task, op, todo).task = task /\ Task(task, op, todo).op = op
         /\ Task(task, op, todo).todo = todo /\ Task(task, op, todo).round = 0
<1>1. Task(task, op, todo) \in TaskTypes
  BY DEF Task, TaskTypes, Rounds
<1>2. Task(task, op, todo).task = task
  BY DEF Task
<1> QED
  BY <1>1, <1>2 DEF Task, Idle

\* The provider begins a task, or ends one.
LEMMA ClientTask ==
  ASSUME HostInv, ClientInv, UNCHANGED <<hostVars, mode, link, interrupts, told>>,
         call.kind \in {"none", "answer"}, pending' \subseteq Ops, recovering' \in BOOLEAN,
         \/ frame' = Idle /\ call' = NoCall
         \/ frame' = Task("recovery", "none", {}) /\ call' = NoCall
         \/ \E op \in Ops, task \in {"mutation", "recovery"}, kind \in {"mutate", "outcome"}, todo \in SUBSET Ops :
              frame' = Task(task, op, todo) /\ call' = [kind |-> kind, op |-> op, at |-> "wire"]
  PROVE  ClientInv'
<1>1. OneListens'
  BY NoneListens DEF OneListens, hostVars
<1>2. ToldTheStatus'
  BY DEF ClientInv, ToldTheStatus, hostVars
<1>3. ASSUME call' = NoCall, frame' = Idle \/ frame' = Task("recovery", "none", {})
      PROVE  ClientInv'
  <2>0. call' \in CallTypes /\ frame' \in {Idle} \cup TaskTypes
    BY <1>3, TaskType DEF CallTypes
  <2>1. ClientTypes'
    BY <2>0 DEF ClientInv, ClientTypes
  <2>2. CallServesTask'
    BY <1>3 DEF CallServesTask, NoCall
  <2> QED
    BY <1>1, <1>2, <2>1, <2>2 DEF ClientInv
<1>4. ASSUME NEW op \in Ops, NEW task \in {"mutation", "recovery"}, NEW kind \in {"mutate", "outcome"},
             NEW todo \in SUBSET Ops,
             frame' = Task(task, op, todo), call' = [kind |-> kind, op |-> op, at |-> "wire"]
      PROVE  ClientInv'
  <2>1. frame' # Idle /\ frame'.op = op
    BY <1>4, TaskType
  <2>2. ClientTypes'
    <3>1. call' \in CallTypes /\ frame' \in {Idle} \cup TaskTypes
      BY <1>4, TaskType DEF CallTypes
    <3> QED
      BY <3>1 DEF ClientInv, ClientTypes
  <2>3. CallServesTask'
    BY <1>4, <2>1 DEF CallServesTask
  <2> QED
    BY <1>1, <1>2, <2>2, <2>3 DEF ClientInv
<1> QED
  BY <1>3, <1>4

LEMMA ClientReconcile ==
  ASSUME HostInv, ClientInv, Reconcile
  PROVE  ClientInv'
<1> DEFINE op == frame.op
           outcome == call.outcome
<1>1. /\ call.kind = "answer" /\ outcome \in Outcomes
      /\ frame \in TaskTypes /\ op \in Ops /\ frame.task \in {"mutation", "recovery"}
      /\ frame.todo \in SUBSET Ops /\ frame.round \in 0..Rounds
  BY DEF Reconcile, ClientInv, ClientTypes, CallTypes, NoCall, CallServesTask, TaskTypes
<1>2. /\ UNCHANGED <<status, hashing, queue, recovering, link, interrupts>>
  BY DEF Reconcile, hostVars
<1>3. OneListens'
  BY <1>1, <1>2, NoneListens DEF OneListens
<1>4. \A new \in {"uncertain", outcome} :
        /\ outcome \in Terminal \/ new = "uncertain"
        /\ Tell(op, new)
        => told' \in [Ops -> Terminal \cup {"nothing", "uncertain"}] /\ ToldTheStatus'
  <2> SUFFICES ASSUME NEW new \in {"uncertain", outcome}, outcome \in Terminal \/ new = "uncertain",
                      Tell(op, new)
               PROVE  told' \in [Ops -> Terminal \cup {"nothing", "uncertain"}] /\ ToldTheStatus'
    OBVIOUS
  <2>1. new \in Terminal => status[op] = new
    BY <1>1 DEF ClientInv, CallServesTask, Terminal
  <2>2. told' = told \/ told' = [told EXCEPT ![op] = new]
    BY DEF Tell
  <2>3. new \in Terminal \cup {"nothing", "uncertain"}
    OBVIOUS
  <2> QED
    BY <1>1, <1>2, <2>1, <2>2, <2>3 DEF ClientInv, ClientTypes, ToldTheStatus
<1>5. CASE frame.round = Rounds
  <2>1. /\ Tell(op, "uncertain") /\ mode' \in {"live", "disposed"} /\ frame' = Idle /\ call' = NoCall
        /\ pending' = pending
    BY <1>5 DEF Reconcile, GiveUp, GiveUpTelling, ClientInv, ClientTypes
  <2>2. told' \in [Ops -> Terminal \cup {"nothing", "uncertain"}] /\ ToldTheStatus'
    BY <1>4, <2>1
  <2>3. call' \in CallTypes /\ frame' \in {Idle} \cup TaskTypes
    BY <2>1 DEF CallTypes
  <2>4. ClientTypes'
    BY <1>2, <2>1, <2>2, <2>3 DEF ClientInv, ClientTypes
  <2>5. CallServesTask'
    BY <2>1 DEF CallServesTask, NoCall
  <2> QED
    BY <1>3, <2>2, <2>4, <2>5 DEF ClientInv
<1>6. CASE frame.round # Rounds /\ outcome \in Terminal
  <2>1. /\ Tell(op, outcome) /\ mode' = mode /\ pending' = pending \ {op}
        /\ IF frame.task = "recovery" THEN NextPending(frame.todo)
           ELSE frame' = Idle /\ call' = NoCall
    BY <1>6 DEF Reconcile, Complete
  <2>2. told' \in [Ops -> Terminal \cup {"nothing", "uncertain"}] /\ ToldTheStatus'
    BY <1>4, <1>6, <2>1
  <2>3. \/ call' = NoCall /\ frame' \in {Idle} \cup TaskTypes
        \/ \E next \in Ops : /\ call' = [kind |-> "outcome", op |-> next, at |-> "wire"]
                             /\ frame' \in TaskTypes /\ frame' # Idle /\ frame'.op = next
    <3>1. CASE frame.task = "recovery"
      <4>1. CASE frame' = Task("recovery", "none", {}) /\ call' = NoCall
        BY <4>1, TaskType
      <4>2. ASSUME NEW next \in frame.todo,
                   frame' = Task("recovery", next, frame.todo \ {next}),
                   call' = [kind |-> "outcome", op |-> next, at |-> "wire"]
            PROVE  /\ next \in Ops /\ call' = [kind |-> "outcome", op |-> next, at |-> "wire"]
                   /\ frame' \in TaskTypes /\ frame' # Idle /\ frame'.op = next
        <5>1. next \in Ops /\ frame.todo \ {next} \in SUBSET Ops
          BY <1>1
        <5> QED
          BY <4>2, <5>1, TaskType
      <4> QED
        BY <1>1, <2>1, <3>1, <4>1, <4>2, NextPendingCalls
    <3>2. CASE frame.task # "recovery"
      BY <2>1, <3>2
    <3> QED
      BY <3>1, <3>2
  <2>4. call' \in CallTypes /\ frame' \in {Idle} \cup TaskTypes
    BY <2>3 DEF CallTypes
  <2>5. ClientTypes'
    BY <1>2, <2>1, <2>2, <2>4 DEF ClientInv, ClientTypes
  <2>6. CallServesTask'
    BY <2>3 DEF CallServesTask, NoCall
  <2> QED
    BY <1>3, <2>2, <2>5, <2>6 DEF ClientInv
<1>7. CASE frame.round # Rounds /\ outcome \notin Terminal
  <2>1. PICK kind \in {"mutate", "outcome"}, resent \in BOOLEAN :
          /\ call' = [kind |-> kind, op |-> op, at |-> "wire"]
          /\ frame' = [frame EXCEPT !.round = @ + 1, !.resent = resent]
          /\ UNCHANGED <<pending, told, mode>>
    <3>1. frame.resent \in BOOLEAN
      BY <1>1 DEF TaskTypes
    <3> QED
      BY <1>7, <3>1 DEF Reconcile, Again, Send
  <2>2. frame' \in TaskTypes /\ frame'.op = op
    <3>1. PICK round \in 0..Rounds : round = frame.round + 1
      BY <1>1, <1>7 DEF Rounds
    <3>2. frame' = [frame EXCEPT !.round = round, !.resent = resent]
      BY <2>1, <3>1
    <3> QED
      BY <1>1, <2>1, <3>1, <3>2 DEF TaskTypes
  <2>3. call' \in CallTypes /\ frame' \in {Idle} \cup TaskTypes /\ frame' # Idle
    BY <1>1, <2>1, <2>2 DEF CallTypes, TaskTypes, Idle
  <2>4. ClientTypes' /\ ToldTheStatus'
    BY <1>2, <2>1, <2>3 DEF ClientInv, ClientTypes, ToldTheStatus
  <2>5. CallServesTask'
    BY <1>1, <2>1, <2>2, <2>3 DEF CallServesTask
  <2> QED
    BY <1>3, <2>4, <2>5 DEF ClientInv
<1> QED
  BY <1>5, <1>6, <1>7

LEMMA ClientNext == HostInv /\ ClientInv /\ [Next]_vars => ClientInv'
<1> SUFFICES ASSUME HostInv, ClientInv, [Next]_vars PROVE ClientInv'
  OBVIOUS
<1>1. CASE HostStep
  BY <1>1, ClientFinish, ClientHashed, ClientReceives, ClientAside DEF HostStep
<1>2. CASE Interrupt \/ Restore \/ UNCHANGED vars
  BY <1>2, ClientAside
<1>0. frame = Idle => call.kind \in {"none", "answer"}
  BY DEF ClientInv, ClientTypes, CallTypes, NoCall, CallServesTask
<1>3. ASSUME NEW op \in Ops, Mutate(op) PROVE ClientInv'
  <2>1. /\ frame' = Task("mutation", op, {}) /\ call' = [kind |-> "mutate", op |-> op, at |-> "wire"]
        /\ pending' = pending \cup {op} /\ frame = Idle
        /\ UNCHANGED <<hostVars, mode, link, interrupts, told, recovering>>
    BY <1>3 DEF Mutate, Send
  <2> QED
    BY <1>0, <2>1, ClientTask DEF ClientInv, ClientTypes
<1>4. CASE Recover
  <2>1. /\ NextPending(pending) /\ frame = Idle
        /\ UNCHANGED <<hostVars, pending, told, recovering, mode, link, interrupts>>
    BY <1>4 DEF Recover, RecoverOperations
  <2>2. pending \in SUBSET Ops /\ recovering' \in BOOLEAN
    BY <2>1 DEF ClientInv, ClientTypes
  <2>3. CASE frame' = Task("recovery", "none", {}) /\ call' = NoCall
    BY <1>0, <2>1, <2>2, <2>3, ClientTask
  <2>4. ASSUME NEW op \in pending, frame' = Task("recovery", op, pending \ {op}),
               call' = [kind |-> "outcome", op |-> op, at |-> "wire"]
        PROVE  ClientInv'
    <3>1. op \in Ops /\ pending \ {op} \in SUBSET Ops
      BY <2>2
    <3> QED
      BY <1>0, <2>1, <2>2, <2>4, <3>1, ClientTask
  <2> QED
    BY <2>1, <2>2, <2>3, <2>4, NextPendingCalls
<1>5. CASE CompleteRecovery
  <2>1. /\ frame' = Idle /\ call' = NoCall /\ recovering' = FALSE
        /\ frame = Task("recovery", "none", {})
        /\ UNCHANGED <<hostVars, pending, told, mode, link, interrupts>>
    BY <1>5 DEF CompleteRecovery, LiftBarrier
  <2>2. frame.op = "none"
    BY <2>1, TaskType
  <2>3. call.kind \in {"none", "answer"} /\ pending' \subseteq Ops /\ recovering' \in BOOLEAN
    BY <2>1, <2>2, NoneAssumption DEF ClientInv, ClientTypes, CallServesTask
  <2> QED
    BY <2>1, <2>3, ClientTask
<1>6. CASE Reconcile
  BY <1>6, ClientReconcile
<1> QED
  BY <1>1, <1>2, <1>3, <1>4, <1>5, <1>6 DEF Next, ProviderStep

-----------------------------------------------------------------------------
(* The barrier *)

\* The Host has never heard of the operation.
Fresh(op) ==
  /\ status[op] = "unknown"
  /\ \A r \in hashing : r.op # op
  /\ \A i \in DOMAIN queue : queue[i].op # op

\* The call of a mutation that the Host answers once and for all: on the way,
\* being hashed, executed or answered.
FirstCall(op) ==
  \/ call.kind = "mutate" /\ call.at = "wire" /\ Fresh(op)
  \/ /\ call.kind = "mutate" /\ call.at = "host" /\ status[op] = "unknown"
     /\ \A r \in hashing : r.op = op => r.live
     /\ \A i \in DOMAIN queue : queue[i].op # op
  \/ /\ call.kind = "mutate" /\ call.at = "host"
     /\ \A r \in hashing : r.op # op
     /\ \A i \in DOMAIN queue : queue[i].op = op => queue[i].kind = "execute"
  \/ call.kind = "answer" /\ call.outcome \in Terminal

Runs(task) == frame # Idle /\ frame.task = task

\* The barrier itself, and what a recovery still has to reconcile under it.
Reconciles ==
  /\ BarrierCoversUncertainty
  /\ Runs("mutation") => ~recovering /\ frame.op \in pending /\ told[frame.op] = "nothing"
  /\ Runs("recovery") =>
       /\ recovering /\ frame.todo = pending \ {frame.op}
       /\ frame.op \in pending \/ frame.op = "none"

\* Only the mutation that runs is pending without its caller having been told
\* something, and what was never asked for is not known to the Host.
Untold ==
  \A op \in Ops : told[op] = "nothing" =>
    IF op \in pending THEN Runs("mutation") /\ frame.op = op ELSE Fresh(op)

\* A mutation that cannot be deferred is answered by its first call.
FirstCallAnswers ==
  Runs("mutation") /\ frame.op \notin Deferrable => frame.round = 0 /\ FirstCall(frame.op)

BarrierInv == Reconciles /\ Untold /\ FirstCallAnswers

LEMMA BarrierInit == Init => BarrierInv
<1> SUFFICES ASSUME Init PROVE BarrierInv
  OBVIOUS
<1>1. Reconciles
  BY DEF Init, Reconciles, BarrierCoversUncertainty, Runs
<1>2. Untold
  BY DEF Init, Untold, Fresh
<1>3. FirstCallAnswers
  BY DEF Init, FirstCallAnswers, Runs
<1> QED
  BY <1>1, <1>2, <1>3 DEF BarrierInv

\* What hashing a request does: it leaves, answered or registered.
LEMMA HashedDoes ==
  ASSUME HostInv, Hashed
  PROVE  \E request \in hashing :
           /\ request \in Requests /\ hashing' = hashing \ {request}
           /\ \/ /\ UNCHANGED <<status, queue>> /\ status[request.op] # "unknown"
                 /\ Answer(request.live, status[request.op])
              \/ /\ status' = [status EXCEPT ![request.op] = "pending"] /\ call' = call
                 /\ \E job \in Jobs : /\ queue' = Append(queue, job) /\ job.kind = "execute"
                                      /\ job.op = request.op
<1>1. PICK request \in hashing : Begin(request)
  BY DEF Hashed
<1>2. request \in Requests /\ hashing' = hashing \ {request}
  BY <1>1 DEF HostInv, HostTypes, Begin, BeginIf
<1>3. CASE status[request.op] # "unknown"
  <2>1. UNCHANGED <<status, queue>> /\ Answer(request.live, status[request.op])
    BY <1>1, <1>3 DEF Begin, BeginIf
  <2> QED
    BY <1>2, <1>3, <2>1
<1>4. CASE status[request.op] = "unknown"
  <2>1. /\ status' = [status EXCEPT ![request.op] = "pending"] /\ call' = call
        /\ queue' = Append(queue, [Job("execute", request.op) EXCEPT !.live = request.live])
    BY <1>1, <1>4 DEF Begin, BeginIf
  <2>2. PICK asked \in Jobs : /\ asked = Job("execute", request.op)
                             /\ asked.op = request.op /\ asked.kind = "execute"
    <3>1. Job("execute", request.op) \in Jobs
      BY <1>2 DEF Job, Jobs, Requests
    <3> QED
      BY <3>1 DEF Job
  <2>3. /\ [asked EXCEPT !.live = request.live] \in Jobs
        /\ [asked EXCEPT !.live = request.live].op = request.op
        /\ [asked EXCEPT !.live = request.live].kind = "execute"
    BY <1>2, <2>2 DEF Jobs, Requests
  <2> QED
    BY <1>2, <2>1, <2>2, <2>3
<1> QED
  BY <1>3, <1>4

\* A step of the Host concerns the operations it already has.
LEMMA HostKeepsFresh ==
  ASSUME HostInv, HostStep, NEW op \in Ops, Fresh(op),
         ReceiveMutate \/ ReceiveOutcome => call.op \in Ops /\ call.op # op
  PROVE  Fresh(op)'
<1>1. queue \in Seq(Jobs) /\ hashing \subseteq Requests
      /\ status \in [Ops -> {"unknown", "pending"} \cup Terminal]
  BY DEF HostInv, HostTypes
<1>2. CASE ReceiveMutate
  BY <1>2 DEF ReceiveMutate, Request, Fresh
<1>3. CASE Hashed
  <2>1. PICK request \in hashing :
           /\ hashing' = hashing \ {request}
           /\ \/ UNCHANGED <<status, queue>>
              \/ /\ status' = [status EXCEPT ![request.op] = "pending"]
                 /\ \E job \in Jobs : queue' = Append(queue, job) /\ job.op = request.op
    BY <1>3, HashedDoes
  <2>2. request.op # op
    BY DEF Fresh
  <2>3. CASE UNCHANGED <<status, queue>>
    BY <2>1, <2>3 DEF Fresh
  <2>4. ASSUME status' = [status EXCEPT ![request.op] = "pending"],
               NEW job \in Jobs, queue' = Append(queue, job), job.op = request.op
        PROVE  Fresh(op)'
    <3>1. /\ \A i \in DOMAIN queue' : i \in DOMAIN queue \/ i = Len(queue) + 1
          /\ \A i \in DOMAIN queue : queue'[i] = queue[i]
          /\ queue'[Len(queue) + 1] = job
      BY <1>1, <2>4, QueueAppend
    <3> QED
      BY <1>1, <2>1, <2>2, <2>4, <3>1 DEF Fresh
  <2> QED
    BY <2>1, <2>3, <2>4
<1>4. CASE ReceiveOutcome
  <2>1. UNCHANGED <<status, hashing>>
    BY <1>4 DEF ReceiveOutcome
  <2>2. CASE queue' = queue
    BY <2>1, <2>2 DEF Fresh
  <2>3. CASE queue' = Append(queue, Job("finalize", call.op))
    <3>1. PICK job \in Jobs : queue' = Append(queue, job) /\ job.op = call.op
      <4>1. Job("finalize", call.op) \in Jobs
        BY <1>4 DEF Job, Jobs
      <4> QED
        BY <2>3, <4>1 DEF Job
    <3>2. /\ \A i \in DOMAIN queue' : i \in DOMAIN queue \/ i = Len(queue) + 1
          /\ \A i \in DOMAIN queue : queue'[i] = queue[i]
          /\ queue'[Len(queue) + 1] = job
      BY <1>1, <3>1, QueueAppend
    <3> QED
      BY <1>4, <2>1, <3>1, <3>2 DEF Fresh
  <2> QED
    BY <1>4, <2>2, <2>3 DEF ReceiveOutcome
<1>5. CASE CommitEffect
  <2>1. UNCHANGED <<status, hashing>> /\ queue' = [queue EXCEPT ![1].applied = TRUE]
    BY <1>5 DEF CommitEffect
  <2>2. DOMAIN queue' = DOMAIN queue /\ \A i \in DOMAIN queue : queue'[i].op = queue[i].op
    <3>1. \A i \in DOMAIN queue : queue[i] \in Jobs
      BY <1>1, QueueJobs
    <3> QED
      BY <1>1, <2>1, <3>1 DEF Jobs
  <2> QED
    BY <2>1, <2>2 DEF Fresh
<1>6. CASE FinishExecution \/ DeferExecution \/ \E done \in BOOLEAN : Finalize(done)
  <2>1. queue # <<>> /\ queue' = Tail(queue) /\ hashing' = hashing
    BY <1>6 DEF FinishExecution, DeferExecution, Defer, Finalize, Running
  <2>2. /\ 1 \in DOMAIN queue /\ Head(queue) = queue[1]
        /\ \A i \in DOMAIN queue' : i + 1 \in DOMAIN queue /\ queue'[i] = queue[i + 1]
    BY <1>1, <2>1, QueueTail
  <2>3. Head(queue).op # op
    BY <2>2 DEF Fresh
  <2>4. status'[op] = status[op]
    BY <1>1, <1>6, <2>3 DEF FinishExecution, DeferExecution, Defer, Finalize, Record
  <2> QED
    BY <2>1, <2>2, <2>4 DEF Fresh
<1> QED
  BY <1>2, <1>3, <1>4, <1>5, <1>6 DEF HostStep

\* The first call of a mutation goes its way whatever else the Host does.
LEMMA HostKeepsFirstCall ==
  ASSUME HostInv, ClientInv, HostStep, NEW op \in Ops \ Deferrable, frame.op = op, FirstCall(op)
  PROVE  FirstCall(op)'
<1>0. /\ queue \in Seq(Jobs) /\ hashing \subseteq Requests
      /\ status \in [Ops -> {"unknown", "pending"} \cup Terminal]
      /\ call.kind \in {"mutate", "answer"}
      /\ call.kind = "mutate" => call.op = op
  BY DEF HostInv, HostTypes, FirstCall, ClientInv, CallServesTask
<1>1. /\ \A r \in hashing : r.live => r.op = op /\ call.kind = "mutate" /\ call.at = "host"
      /\ \A i \in DOMAIN queue : queue[i].live => queue[i].op = op /\ call.kind = "mutate" /\ call.at = "host"
  BY <1>0 DEF ClientInv, OneListens, AtHost
<1>2. CASE ReceiveMutate
  <2>1. /\ call.at = "wire" /\ hashing' = hashing \cup {Request(op)} /\ UNCHANGED <<status, queue>>
        /\ call' = [call EXCEPT !.at = "host"] /\ call.kind = "mutate"
    BY <1>0, <1>2 DEF ReceiveMutate
  <2>2. call'.kind = "mutate" /\ call'.at = "host"
    <3>1. call \in [kind : {"mutate", "outcome"}, op : Ops, at : {"wire", "host"}]
      BY <2>1 DEF ClientInv, ClientTypes, CallTypes, NoCall
    <3> QED
      BY <2>1, <3>1
  <2>3. Fresh(op)
    BY <2>1 DEF FirstCall
  <2>4. \A r \in hashing' : r.op = op => r.live
    BY <2>1, <2>3 DEF Fresh, Request
  <2> QED
    BY <2>1, <2>2, <2>3, <2>4 DEF FirstCall, Fresh
<1>3. CASE Hashed
  <2>1. PICK request \in hashing :
           /\ request \in Requests /\ hashing' = hashing \ {request}
           /\ \/ /\ UNCHANGED <<status, queue>> /\ status[request.op] # "unknown"
                 /\ Answer(request.live, status[request.op])
              \/ /\ status' = [status EXCEPT ![request.op] = "pending"] /\ call' = call
                 /\ \E job \in Jobs : /\ queue' = Append(queue, job) /\ job.kind = "execute"
                                      /\ job.op = request.op
    BY <1>3, HashedDoes
  <2>2. CASE UNCHANGED <<status, queue>> /\ status[request.op] # "unknown"
             /\ Answer(request.live, status[request.op])
    <3>1. ~request.live
      BY <1>1, <2>1, <2>2 DEF FirstCall
    <3>2. call' = call
      BY <2>2, <3>1 DEF Answer
    <3> QED
      BY <2>1, <2>2, <3>2 DEF FirstCall, Fresh
  <2>3. ASSUME status' = [status EXCEPT ![request.op] = "pending"], call' = call,
               NEW job \in Jobs, queue' = Append(queue, job), job.kind = "execute",
               job.op = request.op
        PROVE  FirstCall(op)'
    <3>1. /\ \A i \in DOMAIN queue' : i \in DOMAIN queue \/ i = Len(queue) + 1
          /\ \A i \in DOMAIN queue : queue'[i] = queue[i]
          /\ queue'[Len(queue) + 1] = job
      BY <1>0, <2>3, QueueAppend
    <3>2. CASE request.op # op
      <4>1. status'[op] = status[op]
        BY <1>0, <2>3, <3>2
      <4>2. \A i \in DOMAIN queue' : queue'[i].op = op => i \in DOMAIN queue /\ queue'[i] = queue[i]
        BY <2>3, <3>1, <3>2
      <4> QED
        BY <2>1, <2>3, <4>1, <4>2 DEF FirstCall, Fresh
    <3>3. CASE request.op = op
      <4>1. CASE call.kind = "answer" /\ call.outcome \in Terminal
        BY <2>3, <4>1 DEF FirstCall
      <4>2. CASE ~(call.kind = "answer" /\ call.outcome \in Terminal)
        <5>1. /\ call.kind = "mutate" /\ call.at = "host"
              /\ \A r \in hashing : r.op = op => r.live
              /\ \A i \in DOMAIN queue : queue[i].op # op
          BY <2>1, <3>3, <4>2 DEF FirstCall, Fresh
        <5>2. \A r \in hashing : r.op = op => r = request
          <6> SUFFICES ASSUME NEW r \in hashing, r.op = op PROVE r = request
            OBVIOUS
          <6>1. r \in Requests /\ r.live = TRUE /\ request.live = TRUE
            BY <1>0, <2>1, <3>3, <5>1 DEF Requests
          <6> QED
            BY <2>1, <3>3, <6>1 DEF Requests
        <5>3. \A r \in hashing' : r.op # op
          BY <2>1, <5>2
        <5>4. \A i \in DOMAIN queue' : queue'[i].op = op => queue'[i].kind = "execute"
          BY <2>3, <3>1, <5>1
        <5> QED
          BY <2>3, <5>1, <5>3, <5>4 DEF FirstCall
      <4> QED
        BY <4>1, <4>2
    <3> QED
      BY <3>2, <3>3
  <2> QED
    BY <2>1, <2>2, <2>3
<1>4. CASE ReceiveOutcome
  BY <1>0, <1>4 DEF ReceiveOutcome
<1>5. CASE CommitEffect
  <2>1. UNCHANGED <<status, hashing, call>> /\ queue' = [queue EXCEPT ![1].applied = TRUE]
    BY <1>5 DEF CommitEffect
  <2>2. DOMAIN queue' = DOMAIN queue
        /\ \A i \in DOMAIN queue : queue'[i].op = queue[i].op /\ queue'[i].kind = queue[i].kind
    <3>1. \A i \in DOMAIN queue : queue[i] \in Jobs
      BY <1>0, QueueJobs
    <3> QED
      BY <1>0, <2>1, <3>1 DEF Jobs
  <2> QED
    BY <2>1, <2>2 DEF FirstCall, Fresh
<1>6. ASSUME FinishExecution \/ DeferExecution \/ \E done \in BOOLEAN : Finalize(done)
      PROVE  FirstCall(op)'
  <2>1. queue # <<>> /\ queue' = Tail(queue) /\ hashing' = hashing
    BY <1>6 DEF FinishExecution, DeferExecution, Defer, Finalize, Running
  <2>2. /\ 1 \in DOMAIN queue /\ Head(queue) = queue[1] /\ queue[1] \in Jobs
        /\ \A i \in DOMAIN queue' : i + 1 \in DOMAIN queue /\ queue'[i] = queue[i + 1]
    BY <1>0, <2>1, QueueTail
  <2>3. CASE Head(queue).live
    <3>1. /\ Head(queue).op = op /\ call.kind = "mutate" /\ call.at = "host"
      BY <1>1, <2>2, <2>3
    <3>2. Head(queue).kind = "execute"
      BY <2>2, <3>1 DEF FirstCall
    <3>3. FinishExecution
      BY <1>6, <3>1, <3>2 DEF DeferExecution, Finalize, Running
    <3>4. call' = [kind |-> "answer", outcome |-> IF Head(queue).applied THEN "succeeded" ELSE "failed"]
      BY <2>3, <3>3 DEF FinishExecution, Answer
    <3> QED
      BY <3>4 DEF FirstCall, Terminal
  <2>4. CASE ~Head(queue).live
    <3>1. call' = call
      BY <1>6, <2>4 DEF FinishExecution, DeferExecution, Defer, Finalize, Answer
    <3>2. Head(queue).op # op => status'[op] = status[op]
      BY <1>0, <1>6 DEF FinishExecution, DeferExecution, Defer, Finalize, Record
    <3> QED
      BY <2>1, <2>2, <3>1, <3>2 DEF FirstCall, Fresh
  <2> QED
    BY <2>3, <2>4
<1> QED
  BY <1>2, <1>3, <1>4, <1>5, <1>6 DEF HostStep

\* No step of the Host disturbs the barrier.
LEMMA BarrierHost ==
  ASSUME HostInv, ClientInv, BarrierInv, HostStep
  PROVE  BarrierInv'
<1>1. UNCHANGED <<frame, pending, told, recovering, mode>>
  BY DEF HostStep, ReceiveMutate, Hashed, ReceiveOutcome, CommitEffect, FinishExecution,
    DeferExecution, Defer, Finalize, providerVars
<1>2. Reconciles'
  BY <1>1 DEF BarrierInv, Reconciles, BarrierCoversUncertainty, Runs
<1>3. Untold'
  <2> SUFFICES ASSUME NEW op \in Ops, told[op] = "nothing", op \notin pending PROVE Fresh(op)'
    BY <1>1 DEF BarrierInv, Untold, Runs
  <2>1. Fresh(op)
    BY DEF BarrierInv, Untold
  <2>2. ReceiveMutate \/ ReceiveOutcome => call.op \in Ops /\ call.op # op
    <3> SUFFICES ASSUME call.kind \in {"mutate", "outcome"} PROVE call.op \in Ops /\ call.op # op
      BY DEF ReceiveMutate, ReceiveOutcome
    <3>1. frame \in TaskTypes /\ frame # Idle /\ frame.op \in Ops /\ call.op = frame.op
      BY DEF ClientInv, ClientTypes, CallServesTask
    <3>2. frame.op \in pending
      BY <3>1, NoneAssumption DEF BarrierInv, Reconciles, Runs, TaskTypes
    <3> QED
      BY <3>1, <3>2
  <2> QED
    BY <2>1, <2>2, HostKeepsFresh
<1>4. FirstCallAnswers'
  <2> SUFFICES ASSUME Runs("mutation"), frame.op \notin Deferrable PROVE FirstCall(frame.op)'
    BY <1>1 DEF BarrierInv, FirstCallAnswers, Runs
  <2>1. frame.op \in Ops \ Deferrable /\ FirstCall(frame.op)
    BY DEF BarrierInv, Reconciles, FirstCallAnswers, ClientInv, ClientTypes
  <2> QED
    BY <1>1, <2>1, HostKeepsFirstCall
<1> QED
  BY <1>2, <1>3, <1>4 DEF BarrierInv

LEMMA BarrierMutate ==
  ASSUME HostInv, ClientInv, BarrierInv, NEW op \in Ops, Mutate(op)
  PROVE  BarrierInv'
<1>1. /\ mode = "live" /\ frame = Idle /\ ~recovering /\ op \notin pending /\ told[op] = "nothing"
      /\ pending' = pending \cup {op} /\ frame' = Task("mutation", op, {})
      /\ call' = [kind |-> "mutate", op |-> op, at |-> "wire"]
      /\ UNCHANGED <<status, hashing, queue, told, recovering, mode>>
  BY DEF Mutate, Send, hostVars
<1>2. frame' # Idle /\ frame'.task = "mutation" /\ frame'.op = op /\ frame'.round = 0
  BY <1>1, TaskType
<1>3. Reconciles'
  BY <1>1, <1>2 DEF BarrierInv, Reconciles, BarrierCoversUncertainty, Runs
<1>4. Untold'
  BY <1>1, <1>2 DEF BarrierInv, Untold, Fresh, Runs
<1>5. FirstCallAnswers'
  BY <1>1, <1>2 DEF BarrierInv, Untold, FirstCallAnswers, FirstCall, Fresh, Runs
<1> QED
  BY <1>3, <1>4, <1>5 DEF BarrierInv

\* A recovery takes the next operation in doubt.
LEMMA BarrierNextPending ==
  ASSUME ClientInv, BarrierInv, UNCHANGED <<status, hashing, queue, told, mode>>,
         recovering, recovering', pending' \subseteq Ops,
         ~Runs("mutation"), pending' \subseteq pending, NextPending(pending'),
         \A op \in pending \ pending' : told[op] # "nothing"
  PROVE  BarrierInv'
<1>1. PICK op \in pending' \cup {"none"} :
        frame' # Idle /\ frame'.task = "recovery" /\ frame'.op = op /\ frame'.todo = pending' \ {op}
  <2>1. pending' \in SUBSET Ops
    OBVIOUS
  <2>2. CASE pending' = {} /\ frame' = Task("recovery", "none", {})
    BY <2>2, TaskType
  <2>3. ASSUME NEW op \in pending', frame' = Task("recovery", op, pending' \ {op})
        PROVE  frame' # Idle /\ frame'.task = "recovery" /\ frame'.op = op /\ frame'.todo = pending' \ {op}
    <3>1. op \in Ops /\ pending' \ {op} \in SUBSET Ops
      OBVIOUS
    <3> QED
      BY <2>3, <3>1, TaskType
  <2> QED
    BY <2>1, <2>2, <2>3, NextPendingCalls
<1>2. Reconciles'
  BY <1>1 DEF Reconciles, BarrierCoversUncertainty, Runs
<1>3. Untold'
  BY DEF BarrierInv, Untold, Fresh
<1>4. FirstCallAnswers'
  BY <1>1 DEF FirstCallAnswers, Runs
<1> QED
  BY <1>2, <1>3, <1>4 DEF BarrierInv

LEMMA BarrierRecover == ClientInv /\ BarrierInv /\ Recover => BarrierInv'
<1> SUFFICES ASSUME ClientInv, BarrierInv, Recover PROVE BarrierInv'
  OBVIOUS
<1>1. /\ frame = Idle /\ recovering /\ NextPending(pending')
      /\ UNCHANGED <<status, hashing, queue, pending, told, recovering, mode>>
  BY DEF Recover, RecoverOperations, NextPending, hostVars
<1>2. pending' \subseteq Ops /\ ~Runs("mutation")
  BY <1>1 DEF ClientInv, ClientTypes, Runs
<1> QED
  BY <1>1, <1>2, BarrierNextPending

\* The barrier is lifted when the list is empty.
LEMMA BarrierCompleteRecovery == ClientInv /\ BarrierInv /\ CompleteRecovery => BarrierInv'
<1> SUFFICES ASSUME ClientInv, BarrierInv, CompleteRecovery PROVE BarrierInv'
  OBVIOUS
<1>1. /\ frame = Task("recovery", "none", {}) /\ frame' = Idle
      /\ UNCHANGED <<status, hashing, queue, pending, told, mode>>
  BY DEF CompleteRecovery, LiftBarrier, hostVars
<1>2. frame # Idle /\ frame.task = "recovery" /\ frame.op = "none" /\ frame.todo = {}
  BY <1>1, TaskType
<1>3. pending = {}
  BY <1>2, NoneAssumption DEF BarrierInv, Reconciles, Runs, ClientInv, ClientTypes
<1>4. Reconciles'
  BY <1>1, <1>3 DEF Reconciles, BarrierCoversUncertainty, Runs
<1>5. Untold'
  BY <1>1, <1>3 DEF BarrierInv, Untold, Fresh
<1>6. FirstCallAnswers'
  BY <1>1 DEF FirstCallAnswers, Runs
<1> QED
  BY <1>4, <1>5, <1>6 DEF BarrierInv

\* An answer settles an operation, is given up, or is asked for again.
LEMMA BarrierReconcile == ClientInv /\ BarrierInv /\ Reconcile => BarrierInv'
<1> SUFFICES ASSUME ClientInv, BarrierInv, Reconcile PROVE BarrierInv'
  OBVIOUS
<1> DEFINE op == frame.op
<1>1. /\ call.kind = "answer" /\ frame # Idle /\ frame \in TaskTypes /\ op \in Ops
      /\ frame.task \in {"mutation", "recovery"} /\ op \in pending /\ pending \subseteq Ops
      /\ UNCHANGED <<status, hashing, queue, recovering>>
      /\ told \in [Ops -> Terminal \cup {"nothing", "uncertain"}]
  <2>1. /\ call.kind = "answer" /\ frame # Idle /\ frame \in TaskTypes /\ op \in Ops
    BY DEF Reconcile, ClientInv, ClientTypes, CallServesTask
  <2>2. frame.task \in {"mutation", "recovery"}
    BY <2>1 DEF TaskTypes
  <2> QED
    BY <2>1, <2>2, NoneAssumption
      DEF Reconcile, hostVars, BarrierInv, Reconciles, Runs, ClientInv, ClientTypes
<1>2. Runs("mutation") /\ op \notin Deferrable => frame.round = 0 /\ call.outcome \in Terminal
  BY <1>1 DEF BarrierInv, FirstCallAnswers, FirstCall
<1>3. Runs("mutation") => \A o \in Ops : o # op /\ o \in pending => told[o] # "nothing"
  BY DEF BarrierInv, Untold
<1>4. CASE frame.round = Rounds
  <2>1. /\ frame' = Idle /\ pending' = pending
        /\ IF frame.task = "mutation" THEN told' = [told EXCEPT ![op] = "uncertain"] /\ mode' = mode
           ELSE told' = told /\ mode' = "disposed"
    BY <1>1, <1>4 DEF Reconcile, GiveUp, GiveUpTelling, Tell
  <2>2. Reconciles'
    BY <1>1, <1>2, <1>4, <2>1
      DEF BarrierInv, Reconciles, BarrierCoversUncertainty, Runs, Rounds
  <2>3. Untold'
    BY <1>1, <2>1 DEF BarrierInv, Untold, Fresh, Runs
  <2>4. FirstCallAnswers'
    BY <2>1 DEF FirstCallAnswers, Runs
  <2> QED
    BY <2>2, <2>3, <2>4 DEF BarrierInv
<1>5. CASE frame.round # Rounds /\ call.outcome \in Terminal /\ frame.task = "mutation"
  <2>1. /\ frame' = Idle /\ pending' = pending \ {op} /\ mode' = mode
        /\ told' = [told EXCEPT ![op] = call.outcome]
    BY <1>1, <1>5 DEF Reconcile, Complete, Tell
  <2>2. Reconciles'
    BY <1>1, <1>5, <2>1 DEF BarrierInv, Reconciles, BarrierCoversUncertainty, Runs
  <2>3. Untold'
    BY <1>1, <1>5, <2>1 DEF BarrierInv, Untold, Fresh, Runs, Terminal
  <2>4. FirstCallAnswers'
    BY <2>1 DEF FirstCallAnswers, Runs
  <2> QED
    BY <2>2, <2>3, <2>4 DEF BarrierInv
<1>6. CASE frame.round # Rounds /\ call.outcome \in Terminal /\ frame.task = "recovery"
  <2>1. /\ Complete(op, call.outcome) /\ pending' = pending \ {op} /\ UNCHANGED <<told, mode>>
    BY <1>6 DEF Reconcile, Complete, Tell
  <2>2. recovering /\ recovering' /\ frame.todo = pending'
    BY <1>1, <1>6, <2>1 DEF BarrierInv, Reconciles, Runs
  <2>3. NextPending(pending')
    BY <1>6, <2>1, <2>2 DEF Complete, NextPending
  <2>4. ~Runs("mutation") /\ told[op] # "nothing"
    BY <1>1, <1>6 DEF BarrierInv, Untold, Runs
  <2> QED
    BY <1>1, <2>1, <2>2, <2>3, <2>4, BarrierNextPending
<1>7. CASE frame.round # Rounds /\ call.outcome \notin Terminal
  <2>1. PICK resent \in BOOLEAN :
          /\ frame' = [frame EXCEPT !.round = @ + 1, !.resent = resent]
          /\ UNCHANGED <<pending, told, mode>>
    <3>1. frame.resent \in BOOLEAN
      BY <1>1 DEF TaskTypes
    <3> QED
      BY <1>7, <3>1 DEF Reconcile, Again
  <2>2. frame'.task = frame.task /\ frame'.op = op /\ frame'.todo = frame.todo
    BY <1>1, <2>1 DEF TaskTypes
  <2>3. frame' # Idle
    BY <1>1, <2>1 DEF TaskTypes, Idle
  <2>4. Reconciles'
    BY <1>1, <2>1, <2>2, <2>3 DEF BarrierInv, Reconciles, BarrierCoversUncertainty, Runs
  <2>5. Untold'
    BY <1>1, <2>1, <2>2, <2>3 DEF BarrierInv, Untold, Fresh, Runs
  <2>6. FirstCallAnswers'
    BY <1>1, <1>2, <1>7, <2>2 DEF FirstCallAnswers, Runs
  <2> QED
    BY <2>4, <2>5, <2>6 DEF BarrierInv
<1> QED
  BY <1>1, <1>4, <1>5, <1>6, <1>7

\* An interruption raises the barrier.
LEMMA BarrierInterrupt == HostInv /\ ClientInv /\ BarrierInv /\ Interrupt => BarrierInv'
<1> SUFFICES ASSUME HostInv, ClientInv, BarrierInv, Interrupt PROVE BarrierInv'
  OBVIOUS
<1>1. /\ hashing' = {[request EXCEPT !.live = FALSE] : request \in hashing}
      /\ queue' = [i \in DOMAIN queue |-> [queue[i] EXCEPT !.live = FALSE]]
      /\ frame' = Idle /\ recovering' = TRUE /\ UNCHANGED <<status, pending, mode>>
      /\ told' = IF frame # Idle /\ frame.task = "mutation"
                 THEN [told EXCEPT ![frame.op] = "uncertain"] ELSE told
  BY DEF Interrupt
<1>2. \A op \in Ops : Fresh(op) => Fresh(op)'
  <2>1. \A r \in hashing : r \in Requests
    BY DEF HostInv, HostTypes
  <2>2. \A i \in DOMAIN queue : queue[i] \in Jobs
    BY QueueJobs DEF HostInv, HostTypes
  <2>3. \A op \in Ops : (\A r \in hashing : r.op # op) => \A r \in hashing' : r.op # op
    BY <1>1, <2>1 DEF Requests
  <2>4. DOMAIN queue' = DOMAIN queue /\ \A i \in DOMAIN queue : queue'[i].op = queue[i].op
    BY <1>1, <2>2 DEF Jobs
  <2> QED
    BY <1>1, <2>3, <2>4 DEF Fresh
<1>3. Reconciles'
  BY <1>1 DEF Reconciles, BarrierCoversUncertainty, Runs
<1>4. Untold'
  <2> SUFFICES ASSUME NEW op \in Ops, told'[op] = "nothing" PROVE op \notin pending' /\ Fresh(op)'
    BY DEF Untold
  <2>1. told[op] = "nothing" /\ ~(Runs("mutation") /\ frame.op = op)
    BY <1>1 DEF ClientInv, ClientTypes, Runs
  <2> QED
    BY <1>1, <1>2, <2>1 DEF BarrierInv, Untold
<1>5. FirstCallAnswers'
  BY <1>1 DEF FirstCallAnswers, Runs
<1> QED
  BY <1>3, <1>4, <1>5 DEF BarrierInv

LEMMA BarrierNext == HostInv /\ ClientInv /\ BarrierInv /\ [Next]_vars => BarrierInv'
<1> SUFFICES ASSUME HostInv, ClientInv, BarrierInv, [Next]_vars PROVE BarrierInv'
  OBVIOUS
<1>1. CASE HostStep
  BY <1>1, BarrierHost
<1>2. CASE ProviderStep
  BY <1>2, BarrierMutate, BarrierRecover, BarrierReconcile, BarrierCompleteRecovery DEF ProviderStep
<1>3. CASE Interrupt
  BY <1>3, BarrierInterrupt
<1>4. CASE Restore \/ UNCHANGED vars
  BY <1>4 DEF Restore, vars, hostVars, providerVars, BarrierInv, Reconciles, BarrierCoversUncertainty,
    Untold, FirstCallAnswers, FirstCall, Fresh, Runs
<1> QED
  BY <1>1, <1>2, <1>3, <1>4 DEF Next

-----------------------------------------------------------------------------
(* The theorems *)

HostOperationsInv == HostInv /\ ClientInv /\ BarrierInv

\* The three parts hold together, whatever the Host, the provider and the
\* transport do, in any order.  (mutate, getOperationOutcome and the registry
\* on one side, the Sequencer's tasks on the other)
THEOREM InductiveInvariant == Spec => []HostOperationsInv
<1>1. Init => HostOperationsInv
  BY HostInit, ClientInit, BarrierInit DEF HostOperationsInv
<1>2. HostOperationsInv /\ [Next]_vars => HostOperationsInv'
  <2> SUFFICES ASSUME HostOperationsInv, [Next]_vars PROVE HostOperationsInv'
    OBVIOUS
  <2>1. HostInv'
    <3>1. call.kind \in {"mutate", "outcome"} => call.op \in Ops
      BY DEF HostOperationsInv, ClientInv, CallServesTask
    <3> QED
      BY <3>1, HostNext DEF HostOperationsInv
  <2>2. ClientInv'
    BY ClientNext DEF HostOperationsInv
  <2>3. BarrierInv'
    BY BarrierNext DEF HostOperationsInv
  <2> QED
    BY <2>1, <2>2, <2>3 DEF HostOperationsInv
<1> QED
  BY <1>1, <1>2, PTL DEF Spec

\* The registry, the queue, the call and the provider's task keep their types.
THEOREM TypeCorrect == Spec => []TypeOK
<1>1. HostOperationsInv => TypeOK
  BY DEF HostOperationsInv, HostInv, HostTypes, Jobs, Requests, ClientInv, ClientTypes, CallTypes,
    TaskTypes, TypeOK
<1> QED
  BY <1>1, InductiveInvariant, PTL

\* A mutation is committed once at most, however many requests carry it and
\* whenever they arrive.  (operations.begin)
THEOREM MutationsTakeEffectOnce == Spec => []EffectAtMostOnce
<1>1. HostOperationsInv => EffectAtMostOnce
  BY DEF HostOperationsInv, HostInv, StatusTellsEffect, EffectAtMostOnce
<1> QED
  BY <1>1, InductiveInvariant, PTL

\* What the caller of a mutation is told agrees with what the Host has done.
\* (the outcome that mutate or reconcileMutation reports)
THEOREM AnswersAreTrue == Spec => []ToldIsTrue
<1>1. HostOperationsInv => ToldIsTrue
  BY DEF HostOperationsInv, HostInv, StatusTellsEffect, ClientInv, ToldTheStatus, ToldIsTrue, Terminal
<1> QED
  BY <1>1, InductiveInvariant, PTL

\* An operation is pending only while its execution or its finalization is
\* still ahead.  (the catalog queue, pendingSessionConfigurationFinalizations)
THEOREM NothingStranded == Spec => []NothingIsStranded
<1>1. HostOperationsInv => NothingIsStranded
  BY DEF HostOperationsInv, HostInv
<1> QED
  BY <1>1, InductiveInvariant, PTL

\* No new mutation starts while one that cannot be deferred is still in doubt.
\* (reconcilePendingMutations before completeConnectionRecovery)
THEOREM BarrierHolds == Spec => []BarrierCoversUncertainty
<1>1. HostOperationsInv => BarrierCoversUncertainty
  BY DEF HostOperationsInv, BarrierInv, Reconciles
<1> QED
  BY <1>1, InductiveInvariant, PTL

\* An outcome is never revised.  (commit answers with the first outcome)
THEOREM OutcomesStay == Spec => OutcomesAreFinal
<1>1. HostOperationsInv /\ [Next]_vars =>
        [\A op \in Ops : status[op] \in Terminal => UNCHANGED <<status[op], effects[op]>>]_vars
  BY SettledStays DEF HostOperationsInv
<1> QED
  BY <1>1, InductiveInvariant, PTL DEF Spec, OutcomesAreFinal

=============================================================================
