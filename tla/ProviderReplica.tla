--------------------------- MODULE ProviderReplica ---------------------------
(***************************************************************************)
(* The replica AgentHostSessionsProvider keeps of one authority, as        *)
(* operators on a record:                                                  *)
(*   red    the channel reducers (sessionsReducer, sessionReducers,        *)
(*          chatReducers), by channel                                      *)
(*   subs   this.subscriptions                                             *)
(*   last   lastHostSequence, Unnoted while undefined                      *)
(*   shown  this.records: the Session and Chat states shown to the user    *)
(* A computation runs to its next await: its result is the replica and     *)
(* what follows, "done", "failed" (it threw) or the subscriptions it asks  *)
(* for and the place where it resumes.                                     *)
(***************************************************************************)
EXTENDS ChannelTopology, ChannelReducer

Unnoted == -1

NewReplica ==
  [red |-> [ch \in {Catalog} |-> NewReducer], subs |-> {}, last |-> Unnoted,
   shown |-> [ch \in {} |-> NoState]]

Done(p) == [p |-> p, then |-> "done"]
Failed(p) == [p |-> p, then |-> "failed"]
Ask(p, at, channels) == [p |-> p, then |-> "ask", at |-> at, asked |-> channels]

Note(p, seq) == IF seq > p.last THEN [p EXCEPT !.last = seq] ELSE p

Reducer(p, ch) == IF ch \in DOMAIN p.red THEN p.red[ch] ELSE NewReducer

\* catalogSessionChannels and catalogChatChannels
SessionChannels(p) == Children(p.red[Catalog].state)
ChatChannels(p) == UNION {Children(p.red[s].state) : s \in SessionChannels(p)}

SnapshotOf(snapshots, ch) == CHOOSE snap \in snapshots : snap.chan = ch
Channels(snapshots) == {snap.chan : snap \in snapshots}

\* dropMissingChannels: a missing Session takes its Chats' reducers along.
DropMissing(p, missing) ==
  [p EXCEPT !.subs = @ \ missing,
            !.red = [ch \in {k \in DOMAIN p.red :
                               /\ k \notin missing
                               /\ k \in Chat => Home[k] \notin missing} |-> p.red[ch]]]

\* The subscriptions become those the Host answered with a snapshot.
Subscribed(p, result) ==
  DropMissing([p EXCEPT !.subs = Channels(result.snapshots)], result.missing)

\* Whether applySnapshot throws for one of the channels.
Regresses(p, snapshots, channels) ==
  \E ch \in channels :
    \/ ch \notin Channels(snapshots)
    \/ SnapshotPrecedes(Reducer(p, ch), SnapshotOf(snapshots, ch))

ApplySnapshots(p, snapshots, channels) ==
  [p EXCEPT !.red =
     [ch \in DOMAIN p.red \cup channels |->
        IF ch \in channels
        THEN ApplySnapshot(Reducer(p, ch), SnapshotOf(snapshots, ch))
        ELSE p.red[ch]]]

\* retainReducersForCurrentTopology
RetainReducers(p) ==
  [p EXCEPT !.red = [ch \in DOMAIN p.red \cap ({Catalog} \cup SessionChannels(p)
                                                 \cup ChatChannels(p)) |-> p.red[ch]]]

\* reconcileCatalog: the records become the reducers' states.
ReconcileCatalog(p) ==
  [p EXCEPT !.shown = [ch \in SessionChannels(p) \cup ChatChannels(p) |-> p.red[ch].state]]

-----------------------------------------------------------------------------
(* hydrateCatalog: subscribe to the Sessions the catalog lists, then to the *)
(* Chats these list, from the start whenever the Host's answer lists others. *)

AskSessions(p) == Ask(p, "sessions", {Catalog} \cup SessionChannels(p))

\* What both stages do with their answer first.
CatalogAnswer(p, result) ==
  Note(ApplySnapshots(Subscribed(p, result), result.snapshots, {Catalog}), result.seq)

SessionsAnswer(p, asked, result) ==
  LET q == CatalogAnswer(p, result)
      listed == SessionChannels(q)
      r == ApplySnapshots(q, result.snapshots, listed)
  IN IF Regresses(p, result.snapshots, {Catalog}) THEN Failed(Subscribed(p, result))
     ELSE IF asked \ {Catalog} # listed THEN AskSessions(q)
     ELSE IF Regresses(q, result.snapshots, listed) THEN Failed(q)
     ELSE Ask(r, "topology", {Catalog} \cup listed \cup ChatChannels(r))

\* A wrong variant: the Sessions listed by the answer are not compared.
TopologyAnswerUnchecked(p, asked, result) ==
  LET q == CatalogAnswer(p, result)
      listed == SessionChannels(q)
      r == ApplySnapshots(q, result.snapshots, listed)
      t == ApplySnapshots(r, result.snapshots, ChatChannels(r))
  IN IF Regresses(q, result.snapshots, listed) THEN Failed(q)
     ELSE IF Regresses(r, result.snapshots, ChatChannels(r)) THEN Failed(r)
     ELSE Done(ReconcileCatalog(RetainReducers(t)))

TopologyAnswer(p, asked, result) ==
  LET q == CatalogAnswer(p, result)
      listed == SessionChannels(q)
      r == ApplySnapshots(q, result.snapshots, listed)
      chats == ChatChannels(r)
      t == ApplySnapshots(r, result.snapshots, chats)
  IN IF Regresses(p, result.snapshots, {Catalog}) THEN Failed(Subscribed(p, result))
     ELSE IF asked \cap Session # listed THEN AskSessions(q)
     ELSE IF Regresses(q, result.snapshots, listed) THEN Failed(q)
     ELSE IF asked \cap Chat # chats THEN AskSessions(r)
     ELSE IF Regresses(r, result.snapshots, chats) THEN Failed(r)
     ELSE Done(ReconcileCatalog(RetainReducers(t)))

\* initialize and refreshAuthoritativeState resume alike.
BaselineAnswer(p, result) ==
  IF Regresses(p, result.snapshots, {Catalog}) THEN Failed(Subscribed(p, result))
  ELSE AskSessions(CatalogAnswer(p, result))

-----------------------------------------------------------------------------
(* applyAction                                                             *)

\* refreshOneChat: the Chat's record takes the reducer's state.
ShowChat(p, c) ==
  IF /\ c \in DOMAIN p.shown /\ Home[c] \in DOMAIN p.shown
     /\ c \in Children(p.shown[Home[c]])
  THEN Done([p EXCEPT !.shown[c] = p.red[c].state])
  ELSE Failed(p)

\* What follows once the channel's reducer has the action or a snapshot.
Follow(p, ch) ==
  CASE ch = Catalog   -> AskSessions(p)
    [] ch \in Session -> IF ch \in DOMAIN p.shown THEN AskSessions(p) ELSE Failed(p)
    [] OTHER          -> ShowChat(p, ch)

LiveAction(p, a) ==
  IF a.chan \notin DOMAIN p.red
  THEN IF a.seq <= p.last THEN Done(p) ELSE Failed(p)
  ELSE LET v == Verdict(p.red[a.chan], a)
           q == [p EXCEPT !.red[a.chan] = ApplyAction(@, a)]
       IN CASE v = "duplicate" -> Done(p)
            [] v = "applied"   -> Follow(Note(q, a.seq), a.chan)
            [] OTHER -> IF a.chan \in p.subs THEN Ask(q, "resync", p.subs) ELSE Failed(q)

\* applyAction after the await of refreshSubscribedChannel.
ResyncAnswer(p, a, result) ==
  LET q == Note(Subscribed(p, result), result.seq)
  IN IF Regresses(q, result.snapshots, {a.chan}) \/ a.chan \notin DOMAIN q.red
     THEN Failed(q)
     ELSE Follow(Note(ApplySnapshots(q, result.snapshots, {a.chan}), a.seq), a.chan)

-----------------------------------------------------------------------------
(* applyReconnectResult                                                    *)

\* assertReplayActionsApplicable: every action continues its channel.
Continues(p, actions, i) ==
  LET a == actions[i]
      r == Reducer(p, a.chan)
      before == {j \in 1 .. i - 1 : actions[j].chan = a.chan}
      previous == IF before = {} THEN r
                  ELSE actions[CHOOSE j \in before : \A k \in before : k <= j]
  IN /\ before = {} => /\ a.chan \in p.subs /\ a.chan \in DOMAIN p.red
                       /\ ~SnapshotRequired(r) /\ HasState(r)
     /\ a.rev = previous.rev + 1
     /\ a.seq > previous.seq
ReplayApplicable(p, actions) == \A i \in DOMAIN actions : Continues(p, actions, i)

\* The actions of one channel, applied in order: the last one decides.
Replayed(p, actions) ==
  [p EXCEPT !.red =
     [ch \in DOMAIN p.red |->
        LET mine == Subsequence(actions, {i \in DOMAIN actions : actions[i].chan = ch})
            state[n \in 0 .. Len(mine)] ==
              IF n = 0 THEN p.red[ch] ELSE ApplyAction(state[n - 1], mine[n])
        IN state[Len(mine)]]]

\* The subscribed Sessions of the new catalog, then their subscribed Chats.
ReconnectSnapshots(p, result) ==
  LET q == ApplySnapshots(Subscribed(p, result), result.snapshots, {Catalog})
      sessions == SessionChannels(q) \cap q.subs
      r == ApplySnapshots(q, result.snapshots, sessions)
      known == {s \in SessionChannels(r) \cap DOMAIN r.red : HasState(r.red[s])}
      chats == (UNION {Children(r.red[s].state) : s \in known}) \cap r.subs
  IN IF \/ Regresses(p, result.snapshots, {Catalog})
        \/ Regresses(q, result.snapshots, sessions)
        \/ Regresses(r, result.snapshots, chats)
     THEN Failed(p)
     ELSE AskSessions(Note(ApplySnapshots(r, result.snapshots, chats), result.seq))

\* recoverConnection hydrates after either kind of answer.
ReconnectAnswer(p, result) ==
  CASE result.kind = "replay" /\ ReplayApplicable(p, result.actions) ->
         AskSessions([DropMissing(Replayed(p, result.actions), result.missing)
                        EXCEPT !.last = result.through])
    [] result.kind = "snapshots" -> ReconnectSnapshots(p, result)
    [] OTHER -> Failed(p)
=============================================================================
