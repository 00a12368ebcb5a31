------------------------- MODULE MCRealtimeDelivery -------------------------
EXTENDS RealtimeDelivery

MCRun == 1 .. 2
=============================================================================
