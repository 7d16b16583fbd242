------------------------- MODULE MCChannelDelivery -------------------------
EXTENDS ChannelDelivery
=============================================================================
