--------------------------- MODULE MCReadinessWait ---------------------------
EXTENDS ReadinessWait
=============================================================================
