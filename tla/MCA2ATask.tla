----------------------------- MODULE MCA2ATask -----------------------------
EXTENDS A2ATask, TLC

Symmetric == Permutations(Task) \cup Permutations(Message)
=============================================================================
