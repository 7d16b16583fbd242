--------------------------- MODULE ChannelDelivery ---------------------------
(***************************************************************************)
(* One channel of the Host seen through the worst transport: any action    *)
(* that was ever published and any snapshot that was ever taken may be     *)
(* delivered to the client's reducer now, later, repeatedly or never, in   *)
(* any order.  The reducer alone has to keep the replica honest.           *)
(***************************************************************************)
EXTENDS ChannelReducer, Sequences

CONSTANTS Chan,      \* the channel
          MaxSeq     \* bound of the model: the last Host sequence published

\* An undefined state is not a state of the channel.
ASSUME NoStateAssumption == NoState \notin Nat

VARIABLES hostSeq,   \* catalog.hostSequence
          log,       \* the actions published on the channel, by revision
          taken,     \* the snapshots the Host has produced
          reducer    \* the client's AgentHostChannelStateReducer

deliveryVars == <<hostSeq, log, taken, reducer>>

\* The Host's state of the channel at a revision; 0 is the state it was
\* created with.  States are told apart by the Host sequence they date from.
StateAt(rev) == IF rev = 0 THEN 0 ELSE log[rev].state
Current == [seq |-> hostSeq, rev |-> Len(log), state |-> StateAt(Len(log))]

DeliveryInit ==
  /\ hostSeq = 0
  /\ log = <<>>
  /\ taken = {}
  /\ reducer = NewReducer

\* commitHostState: the next Host sequence and the next contiguous revision.
Publish ==
  /\ hostSeq < MaxSeq
  /\ hostSeq' = hostSeq + 1
  /\ log' = Append(log, [chan |-> Chan, seq |-> hostSeq + 1,
                         rev |-> Len(log) + 1, state |-> hostSeq + 1])
  /\ UNCHANGED <<taken, reducer>>

\* A commit that addresses other channels only moves the Host sequence.
PublishElsewhere ==
  /\ hostSeq < MaxSeq
  /\ hostSeq' = hostSeq + 1
  /\ UNCHANGED <<log, taken, reducer>>

\* createSnapshot
TakeSnapshot ==
  /\ taken' = taken \cup {Current}
  /\ UNCHANGED <<hostSeq, log, reducer>>

DeliverSnapshot(snap) ==
  /\ ~SnapshotPrecedes(reducer, snap)
  /\ reducer' = ApplySnapshot(reducer, snap)
  /\ UNCHANGED <<hostSeq, log, taken>>

DeliverAction(rev) ==
  /\ reducer' = ApplyAction(reducer, log[rev])
  /\ UNCHANGED <<hostSeq, log, taken>>

DeliveryNext ==
  \/ Publish
  \/ PublishElsewhere
  \/ TakeSnapshot
  \/ \E snap \in taken : DeliverSnapshot(snap)
  \/ \E rev \in DOMAIN log : DeliverAction(rev)

DeliverySpec == DeliveryInit /\ [][DeliveryNext]_deliveryVars

-----------------------------------------------------------------------------
Envelopes == [chan: {Chan}, seq: Nat, rev: Nat, state: Nat]
Snapshots == [seq: Nat, rev: Nat, state: Nat]

\* Types of the Host's publication state and of the reducer's fields.
DeliveryTypeOK ==
  /\ hostSeq \in Nat
  /\ log \in Seq(Envelopes)
  /\ taken \subseteq Snapshots
  /\ reducer \in [state: Nat \cup {NoState}, seq: Nat, rev: Nat,
                  snapSeq: Nat, snapRev: Nat, applied: SUBSET Envelopes,
                  need: {"none", "missingSnapshot", "gap", "conflict"}]

\* Whatever was lost, repeated or reordered, the state a client shows for a
\* revision is the very state the Host published for it (applySnapshot and
\* applyAction never assemble a state the Host did not have).
StateIsHistory ==
  HasState(reducer) =>
    /\ reducer.rev \in 0 .. Len(log)
    /\ reducer.state = StateAt(reducer.rev)

\* The Host sequence a reducer reports is one at which the Host was exactly
\* at the reducer's revision: at least that of its last action and before
\* that of the next one.  A reconnect that starts from such a sequence
\* replays exactly what the reducer lacks.
SequenceMatchesRevision ==
  HasState(reducer) =>
    /\ reducer.rev > 0 => log[reducer.rev].seq <= reducer.seq
    /\ \A i \in DOMAIN log : i > reducer.rev => reducer.seq < log[i].seq

\* Exact duplicates are discarded: a conflict with authentic actions needs a
\* duplicate older than the Remembered newest applied revisions.
ConflictOnlyWhenForgotten ==
  reducer.need = "conflict" => reducer.rev - reducer.snapRev > Remembered

-----------------------------------------------------------------------------
(***************************************************************************)
(* The inductive invariant behind the four properties above.               *)
(***************************************************************************)
\* The published actions are contiguous in revision, ordered in sequence.
LogOrdered ==
  /\ \A i \in DOMAIN log : log[i].rev = i /\ log[i].seq <= hostSeq
  /\ \A i, j \in DOMAIN log : i < j => log[i].seq < log[j].seq

\* seq is a Host sequence at which the channel was exactly at revision rev.
Located(seq, rev) ==
  /\ rev \in 0 .. Len(log)
  /\ seq <= hostSeq
  /\ rev > 0 => log[rev].seq <= seq
  /\ \A i \in DOMAIN log : i > rev => seq < log[i].seq

SnapshotsLocated ==
  \A snap \in taken : Located(snap.seq, snap.rev) /\ snap.state = StateAt(snap.rev)

ReducerLocated ==
  HasState(reducer) =>
    /\ Located(reducer.seq, reducer.rev)
    /\ reducer.state = StateAt(reducer.rev)
    /\ reducer.snapRev <= reducer.rev
    /\ Located(reducer.snapSeq, reducer.snapRev)

\* What applyAction remembers: authentic actions, the newest ones applied.
AppliedRemembered ==
  /\ \A a \in reducer.applied : a.rev \in DOMAIN log /\ a = log[a.rev]
  /\ \A i \in DOMAIN log :
       i > reducer.snapRev /\ i <= reducer.rev /\ i > reducer.rev - Remembered
         => log[i] \in reducer.applied

\* A reducer without a snapshot has applied nothing.
UnsetReducer ==
  ~HasState(reducer) => reducer.rev = 0 /\ reducer.applied = {}

DeliveryIInv ==
  /\ DeliveryTypeOK
  /\ LogOrdered
  /\ SnapshotsLocated
  /\ ReducerLocated
  /\ AppliedRemembered
  /\ UnsetReducer
  /\ ConflictOnlyWhenForgotten

\* A replica never goes back: neither late snapshots nor late actions lower
\* its revision or its sequence, and an unchanged revision keeps its state.
NeverRegresses ==
  [][HasState(reducer) =>
       /\ reducer'.rev >= reducer.rev
       /\ reducer'.seq >= reducer.seq
       /\ reducer'.rev = reducer.rev => reducer'.state = reducer.state]_deliveryVars

\* Once a gap, conflict or missing snapshot is detected nothing is applied
\* until a fresh snapshot lifts the requirement.
RequirementIsSticky ==
  [][SnapshotRequired(reducer) /\ reducer' # reducer
       => \E snap \in taken : reducer' = ApplySnapshot(reducer, snap)]_deliveryVars
=============================================================================
