--------------------------- MODULE MCSwarmRunner ---------------------------
(***************************************************************************)
(* SwarmRunner for TLC: two teammates that are interchangeable.            *)
(***************************************************************************)
EXTENDS SwarmRunner, TLC

CONSTANTS amy, bob, leader, MaxTask

MCTaskID == 1 .. MaxTask
MCOwner == {amy, bob}
MCCaller == {leader}

\* Tasks for anyone.  The second may wait for the first; a first task that
\* names itself is refused.
DependentDrafts == {NoOwner} \X {{}, {1}}

\* Single tasks, for anyone or for one teammate.
SingleDrafts == (MCOwner \cup {NoOwner}) \X {{}}

Symmetry == Permutations(MCOwner)
=============================================================================
