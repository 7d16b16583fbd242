------------------------- MODULE MCHostReplication -------------------------
EXTENDS HostReplication, TLC

CONSTANTS s1, s2, c1, c2

AllHome == (c1 :> s1) @@ (c2 :> s1)
MCHome == [c \in Chat |-> AllHome[c]]
=============================================================================
