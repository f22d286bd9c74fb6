---------------------------- MODULE MCSubAgents ----------------------------
EXTENDS SubAgents, TLC

Symmetric == Permutations(Agent)
=============================================================================
