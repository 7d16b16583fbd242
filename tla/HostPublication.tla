--------------------------- MODULE HostPublication ---------------------------
(***************************************************************************)
(* The publication side of AgentHostAuthority: commitHostState numbers and *)
(* publishes the actions of one commit, the replay buffer retains the      *)
(* newest of them, and initialize, setSubscriptions and reconnect answer   *)
(* one logical client connection.  All of it runs without an await between *)
(* the persisted catalog and the last published action, so a commit is one *)
(* step.                                                                   *)
(***************************************************************************)
EXTENDS ChannelTopology

CONSTANTS MaximumReplay,   \* options.maximumReplayActions
          InitialLive,     \* the Sessions and Chats the Host starts with
          MaxCommits       \* bound of the model: commits of the Host

ASSUME ReplayAssumption == MaximumReplay \in Nat \ {0}
\* A Chat belongs to its Session, which the Host therefore has as well.
ASSUME InitialAssumption ==
  /\ InitialLive \subseteq Session \cup Chat
  /\ \A c \in InitialLive \cap Chat : Home[c] \in InitialLive

VARIABLES hostSeq,     \* catalog.hostSequence
          revs,        \* catalog.channelRevisions (0 where absent)
          live,        \* the Sessions and Chats of this.sessions
          stamps,      \* the content of every channel, by commit
          replay,      \* this.replay
          hostSubs,    \* connectionStates: the connection's subscriptions
          commits,     \* how many commits happened
          log          \* history: every action ever published

hostState == <<hostSeq, revs, live, stamps, replay, commits, log>>
hostVars == <<hostState, hostSubs>>

ListedIn(ch, alive) == Listable(ch) \cap alive
StateOf(ch, alive, stamp) ==
  [stamp |-> stamp[ch], members |-> [k \in ListedIn(ch, alive) |-> stamp[k]]]

\* createSessionCatalog, record.state and chat.state of the current catalog.
CurrentState(ch) == StateOf(ch, live, stamps)

Exists(ch) == ch = Catalog \/ ch \in live

\* The newest n elements of a sequence: push followed by shift.
Newest(s, n) == IF Len(s) <= n THEN s ELSE SubSeq(s, Len(s) - n + 1, Len(s))

\* A wrong variant: the actions carry the state before the commit.
EnvelopesOfOldState(batch, alive, stamp) ==
  [i \in 1 .. Len(batch) |->
     [kind |-> "action", chan |-> batch[i], seq |-> hostSeq + i,
      rev |-> revs[batch[i]] + 1, state |-> CurrentState(batch[i])]]

\* The envelopes of one commit, in the order of its action list: every action
\* takes the next Host sequence and the next revision of its own channel.
Envelopes(batch, alive, stamp) ==
  [i \in 1 .. Len(batch) |->
     [kind |-> "action", chan |-> batch[i], seq |-> hostSeq + i, rev |-> revs[batch[i]] + 1,
      state |-> StateOf(batch[i], alive, stamp)]]

\* commitHostState with the actions of batch, which lists distinct channels.
CommitHostState(batch, alive) ==
  LET touched == {batch[i] : i \in DOMAIN batch}
      stamp == [ch \in Chan |-> IF ch \in touched THEN commits + 1 ELSE stamps[ch]]
      envelopes == Envelopes(batch, alive, stamp)
  IN /\ commits < MaxCommits
     /\ commits' = commits + 1
     /\ hostSeq' = hostSeq + Len(batch)
     /\ revs' = [ch \in Chan |-> IF ch \in touched THEN revs[ch] + 1 ELSE revs[ch]]
     /\ live' = alive
     /\ stamps' = stamp
     /\ replay' = Newest(replay \o envelopes, MaximumReplay)
     /\ log' = log \o envelopes

\* receiveAction: what this commit delivers to the connection.
Delivered ==
  Subsequence(log', {i \in Len(log) + 1 .. Len(log') : log'[i].chan \in hostSubs})

-----------------------------------------------------------------------------
(* The commits, by the channels their action lists name.  Identities are    *)
(* never reused: a created channel is one that was never published.         *)

CreateSession(s, chats) ==
  /\ s \notin live /\ revs[s] = 0
  /\ \A i \in DOMAIN chats : Home[chats[i]] = s
  /\ CommitHostState(<<Catalog, s>> \o chats, live \cup {s} \cup {chats[i] : i \in DOMAIN chats})

CreateChat(c) ==
  /\ Home[c] \in live /\ c \notin live /\ revs[c] = 0
  /\ CommitHostState(<<Catalog, Home[c], c>>, live \cup {c})

\* Every Turn transition, title or status change of a Chat.
UpdateChat(c) ==
  /\ c \in live
  /\ CommitHostState(<<Catalog, Home[c], c>>, live)

\* A change of Session metadata or configuration.
UpdateSession(s) ==
  /\ s \in live
  /\ CommitHostState(<<Catalog, s>>, live)

DeleteChat(c) ==
  /\ c \in live
  /\ CommitHostState(<<Catalog, Home[c]>>, live \ {c})

DeleteSession(s) ==
  /\ s \in live
  /\ CommitHostState(<<Catalog>>, live \ ({s} \cup Listable(s)))

Commit ==
  \/ \E s \in Session, chats \in {<<>>} \cup {<<c>> : c \in Chat} : CreateSession(s, chats)
  \/ \E c \in Chat : CreateChat(c)
  \/ \E c \in Chat : UpdateChat(c)
  \/ \E s \in Session : UpdateSession(s)
  \/ \E c \in Chat : DeleteChat(c)
  \/ \E s \in Session : DeleteSession(s)

-----------------------------------------------------------------------------
(* createSnapshots and the three subscription requests, as their results.   *)

Snapshot(ch) == [chan |-> ch, seq |-> hostSeq, rev |-> revs[ch], state |-> CurrentState(ch)]
Present(channels) == {ch \in channels : Exists(ch)}
Missing(channels) == channels \ Present(channels)

\* initialize and setSubscriptions
SubscribedResult(channels) ==
  [kind |-> "subscribed", seq |-> hostSeq,
   snapshots |-> {Snapshot(ch) : ch \in Present(channels)},
   missing |-> Missing(channels)]

\* A wrong variant: off by one at the oldest retained action.
RetainedEarly(last) ==
  \/ last = hostSeq
  \/ replay # <<>> /\ last >= replay[1].seq - 2

\* Whether the replay buffer still holds everything after a Host sequence.
Retained(last) ==
  \/ last = hostSeq
  \/ replay # <<>> /\ last >= replay[1].seq - 1

ReplayAfter(last, channels) ==
  Subsequence(replay, {i \in DOMAIN replay : /\ replay[i].seq > last
                                             /\ replay[i].chan \in Present(channels)})

ReconnectResult(last, channels) ==
  IF channels # hostSubs \/ last > hostSeq
  THEN [kind |-> "rejected"]
  ELSE IF Retained(last)
  THEN [kind |-> "replay", from |-> last, through |-> hostSeq,
        actions |-> ReplayAfter(last, channels), missing |-> Missing(channels)]
  ELSE [kind |-> "snapshots", seq |-> hostSeq,
        snapshots |-> {Snapshot(ch) : ch \in Present(channels)},
        missing |-> Missing(channels)]

\* replaceSubscriptions; a rejected reconnect changes nothing.
SubscriptionsAfter(result, channels) ==
  IF result.kind = "rejected" THEN hostSubs ELSE Present(channels)

\* The authority with its first Sessions, before any client.
HostInit ==
  /\ hostSeq = 0
  /\ revs = [ch \in Chan |-> IF ch \in InitialLive THEN 1 ELSE 0]
  /\ live = InitialLive
  /\ stamps = [ch \in Chan |-> 0]
  /\ replay = <<>>
  /\ hostSubs = {}
  /\ commits = 0
  /\ log = <<>>

\* The content every channel starts with.
InitialState(ch) == StateOf(ch, InitialLive, [k \in Chan |-> 0])

=============================================================================
