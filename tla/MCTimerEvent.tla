---------------------------- MODULE MCTimerEvent ----------------------------
\* TimerEvent on a pool of three nodes.
EXTENDS TimerEvent, TLC

CONSTANTS n1, n2, n3

MCTNode     == {n1, n2, n3}
MCFirstFree == <<n1, n2, n3>>
=============================================================================
