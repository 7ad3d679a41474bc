------------------------ MODULE MCOutboundDispatcher ------------------------
EXTENDS OutboundDispatcher

CONSTANTS j1, j2, j3
=============================================================================
