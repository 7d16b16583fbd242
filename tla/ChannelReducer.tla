--------------------------- MODULE ChannelReducer ---------------------------
(***************************************************************************)
(* AgentHostChannelStateReducer (platform/agentHost/common/channelState):  *)
(* the client-side replica of one Agent Host channel, as operators on a    *)
(* reducer record.  A snapshot is [seq, rev, state]; an action envelope    *)
(* is [chan, seq, rev, state], whose state is the complete next state of   *)
(* the channel, because every reduceAgentHost*State of protocol.ts         *)
(* returns action.state.  Equality of envelopes stands for equality of     *)
(* the action digests, which cover the whole envelope.                     *)
(***************************************************************************)
EXTENDS Integers

CONSTANTS NoState,     \* the undefined state of a reducer without snapshot
          Remembered   \* maximumRememberedActionIdentities (4096 in the code)

ASSUME RememberedAssumption == Remembered \in Nat \ {0}

\* A reducer as constructed: no snapshot, nothing applied, nothing required.
NewReducer ==
  [state |-> NoState, seq |-> 0, rev |-> 0, snapSeq |-> 0, snapRev |-> 0,
   applied |-> {}, need |-> "none"]

HasState(r) == r.state # NoState

\* A wrong variant: older in both counters, not in either.
SnapshotPrecedesBoth(r, snap) ==
  HasState(r) /\ snap.seq < r.seq /\ snap.rev < r.rev

\* applySnapshot refuses a snapshot that precedes what was already applied.
SnapshotPrecedes(r, snap) ==
  HasState(r) /\ (snap.seq < r.seq \/ snap.rev < r.rev)

\* A wrong variant: the revision is left as it was.
ApplySnapshotState(r, snap) ==
  [r EXCEPT !.state = snap.state, !.seq = snap.seq, !.snapSeq = snap.seq,
            !.snapRev = snap.rev, !.applied = {}, !.need = "none"]

\* The rest of applySnapshot: the new baseline forgets applied actions and
\* lifts any requirement for a fresh snapshot.
ApplySnapshot(r, snap) ==
  [state |-> snap.state, seq |-> snap.seq, rev |-> snap.rev,
   snapSeq |-> snap.seq, snapRev |-> snap.rev,
   applied |-> {}, need |-> "none"]

\* A wrong variant: what the snapshot already covers is applied again.
VerdictAfterSnapshot(r, a) ==
  CASE r.need # "none"                               -> "stillRequired"
    [] r.need = "none" /\ ~HasState(r)               -> "missingSnapshot"
    [] OTHER ->
         IF a \in r.applied THEN "duplicate"
         ELSE IF a.rev > r.rev + 1 THEN "gap" ELSE "applied"

\* How applyAction classifies an envelope; the order is the code's.
Verdict(r, a) ==
  CASE r.need # "none"                               -> "stillRequired"
    [] r.need = "none" /\ ~HasState(r)               -> "missingSnapshot"
    [] OTHER ->
         IF a.seq <= r.snapSeq /\ a.rev <= r.snapRev THEN "duplicate"
         ELSE IF a.rev = r.rev + 1
              THEN IF a.seq <= r.seq THEN "conflict" ELSE "applied"
         ELSE IF a \in r.applied THEN "duplicate"
         ELSE IF a.rev > r.rev + 1 THEN "gap" ELSE "conflict"

\* A wrong variant: one identity fewer than promised is kept.
RememberFewer(r, a) ==
  {b \in r.applied \cup {a} : b.rev > a.rev - Remembered + 1}

\* The identities kept after one more application: only the newest
\* Remembered revisions survive the shift of appliedActionOrder.
Remember(r, a) ==
  {b \in r.applied \cup {a} : b.rev > a.rev - Remembered}

\* The reducer after applyAction.  A gap, a conflict or a missing snapshot
\* is sticky: nothing more is applied until applySnapshot.
ApplyAction(r, a) ==
  LET v == Verdict(r, a) IN
  CASE v = "applied" ->
         [r EXCEPT !.state = a.state, !.seq = a.seq, !.rev = a.rev,
                   !.applied = Remember(r, a)]
    [] v \in {"gap", "conflict", "missingSnapshot"} -> [r EXCEPT !.need = v]
    [] OTHER -> r

SnapshotRequired(r) == r.need # "none"
=============================================================================
