---------------------------- MODULE MCTurnUsage ----------------------------
EXTENDS TurnUsage
=============================================================================
