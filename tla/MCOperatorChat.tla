--------------------------- MODULE MCOperatorChat ---------------------------
EXTENDS OperatorChat

CONSTANTS a1, a2, u1, u2
=============================================================================
