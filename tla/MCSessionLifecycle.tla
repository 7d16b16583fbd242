------------------------- MODULE MCSessionLifecycle -------------------------
EXTENDS SessionLifecycle, TLC
CONSTANTS c1, c2
=============================================================================
