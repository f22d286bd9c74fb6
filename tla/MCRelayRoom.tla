---------------------------- MODULE MCRelayRoom ----------------------------
EXTENDS RelayRoom, TLC

Symmetry == Permutations(Session)
=============================================================================
