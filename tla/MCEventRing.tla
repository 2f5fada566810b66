----------------------------- MODULE MCEventRing -----------------------------
EXTENDS EventRing
=============================================================================
