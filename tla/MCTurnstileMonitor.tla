------------------------- MODULE MCTurnstileMonitor -------------------------
\* TurnstileMonitor for TLC.  Its run checks liveness, so it has no symmetry.
EXTENDS TurnstileMonitor
=============================================================================
