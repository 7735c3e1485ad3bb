--------------------------- MODULE MCReliableLink ---------------------------
EXTENDS ReliableLink

CONSTANTS ClientMessages, ServerMessages

MessageBound == [client |-> ClientMessages, server |-> ServerMessages]
=============================================================================
