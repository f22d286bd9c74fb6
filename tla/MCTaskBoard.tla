---------------------------- MODULE MCTaskBoard ----------------------------
(***************************************************************************)
(* TaskBoard for TLC: three tasks, one owner, batches of two edges.         *)
(***************************************************************************)
EXTENDS TaskBoard

CONSTANTS alice, MaxBatch

MCTaskID == 1 .. 3
MCOwner == {alice}

\* Batches of one or two edges, in one list or spread over both.
Links ==
    {[NoOptions EXCEPT !.addBlocks = A, !.addBlockedBy = B] :
        <<A, B>> \in {p \in (SUBSET MCTaskID) \X (SUBSET MCTaskID) :
                        Cardinality(p[1]) + Cardinality(p[2]) \in 1 .. MaxBatch}}

\* A completion that also links task 3.
Finish ==
    [NoOptions EXCEPT !.expected = "pending", !.status = "completed", !.owner = alice,
                      !.addBlocks = {3}, !.meta["permanent_error"] = 1]

MCRequests == Links \cup {Finish}
=============================================================================
