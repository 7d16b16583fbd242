--------------------------- MODULE ChannelTopology ---------------------------
(***************************************************************************)
(* The channels of one Agent Host authority and the shape of their states. *)
(* The Session catalog channel lists the Sessions, a Session channel lists *)
(* its Chats, a Chat channel is a leaf.  A channel state is                *)
(*   [stamp |-> the commit that produced it,                               *)
(*    members |-> for every listed child, the stamp of the child]:         *)
(* the summaries a parent carries are a projection of the children's own   *)
(* states, and the stamp stands for all other content.                     *)
(* The root channel is left out: it is subscribed like the catalog, always *)
(* next to it, and nothing else is discovered from it.                     *)
(***************************************************************************)
EXTENDS Integers, Sequences, FiniteSets

CONSTANTS Catalog,   \* getAgentHostSessionsChannelId()
          Session,   \* Session channels
          Chat,      \* Chat channels
          Home       \* the Session of every Chat

ASSUME TopologyAssumption ==
  /\ Catalog \notin Session \cup Chat
  /\ Session \cap Chat = {}
  /\ Home \in [Chat -> Session]

Chan == {Catalog} \cup Session \cup Chat

\* The children a channel state lists.
Children(state) == DOMAIN state.members

\* Channels that could be listed by a channel.
Listable(ch) ==
  IF ch = Catalog THEN Session
  ELSE IF ch \in Session THEN {c \in Chat : Home[c] = ch} ELSE {}

\* The elements of s at the indices of a set, in the order of s.
Subsequence(s, indices) ==
  LET kept[n \in 0 .. Len(s)] ==
        IF n = 0 THEN <<>>
        ELSE IF n \in indices THEN Append(kept[n - 1], s[n])
        ELSE kept[n - 1]
  IN kept[Len(s)]
=============================================================================
