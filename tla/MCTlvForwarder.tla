--------------------------- MODULE MCTlvForwarder ---------------------------
EXTENDS TlvForwarder

CONSTANTS a, b
=============================================================================
