--------------------------- MODULE MCRegistration ---------------------------
EXTENDS Registration

CONSTANTS p1, p2
=============================================================================
