-------------------------- MODULE MCPushCoordinator --------------------------
EXTENDS PushCoordinator, TLC

CONSTANTS ada, lin, t1, t2

Symmetry == Permutations(Holders) \cup Permutations(Tasks)
=============================================================================
