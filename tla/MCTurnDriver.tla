---------------------------- MODULE MCTurnDriver ----------------------------
\* Small instances of TurnDriver for TLC.
EXTENDS TurnDriver, TLC
=============================================================================
