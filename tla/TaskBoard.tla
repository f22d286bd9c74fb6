----------------------------- MODULE TaskBoard -----------------------------
(***************************************************************************)
(* task.Manager: the task board and its operations.  Every exported method *)
(* holds the manager's mutex for its whole body, so each one is a single   *)
(* action.  SnapshotJSON and RestoreJSON are what a session or a team uses *)
(* to keep the board across restarts.                                      *)
(***************************************************************************)
EXTENDS TaskBoardOps

CONSTANT
    Requests    \* the UpdateOptions the callers pass

ASSUME RequestsAssumption == Requests \subseteq Options

VARIABLES
    tasks,      \* Manager.tasks: the board, an id that is not in the map is "absent"
    nextID,     \* Manager.nextID
    saved,      \* the last bytes SnapshotJSON produced
    result      \* what the last call returned: "ok", or "error" from an Update

vars == <<tasks, nextID, saved, result>>

-----------------------------------------------------------------------------
(* The operations of task.Manager *)

Init ==
    /\ tasks = EmptyBoard
    /\ nextID = 0
    /\ saved = [tasks |-> EmptyBoard, nextID |-> 0]
    /\ result = "ok"

Create ==
    /\ nextID + 1 \in TaskID
    /\ nextID' = nextID + 1
    /\ tasks' = [tasks EXCEPT ![nextID + 1] = NewTask]
    /\ result' = "ok"
    /\ UNCHANGED saved

Update(id, o) ==
    /\ IF Refused(tasks, id, o)
         THEN /\ result' = "error"
              /\ UNCHANGED tasks
         ELSE IF HalfUpdated(tasks, id, o) # {}
           THEN /\ result' = "error"
                /\ tasks' \in HalfUpdated(tasks, id, o)
           ELSE /\ result' = "ok"
                /\ tasks' = Updated(tasks, id, o)
    /\ UNCHANGED <<nextID, saved>>

Delete(id) ==
    /\ HasTask(tasks, id)
    /\ tasks' = Deleted(tasks, id)
    /\ result' = "ok"
    /\ UNCHANGED <<nextID, saved>>

SnapshotJSON ==
    /\ saved' = [tasks |-> tasks, nextID |-> nextID]
    /\ result' = "ok"
    /\ UNCHANGED <<tasks, nextID>>

\* The counter after a restore: at least the stored one, and one above every
\* restored id that reaches it.
RestoredID(s) ==
    LET high == {id \in Live(s.tasks) : id >= s.nextID}
    IN  IF high = {} THEN s.nextID
        ELSE 1 + (CHOOSE id \in high : \A x \in high : id >= x)

\* Mutant: the counter is not restored.
RestoreKeepsCounter ==
    /\ tasks' = saved.tasks
    /\ result' = "ok"
    /\ UNCHANGED <<nextID, saved>>

RestoreJSON ==
    /\ tasks' = saved.tasks
    /\ nextID' = RestoredID(saved)
    /\ result' = "ok"
    /\ UNCHANGED saved

\* RestoreJSON of no data, as when a session without a board is resumed.  (Data
\* that does not decode, or of a newer version, leaves the board as it is.)
RestoreEmpty ==
    /\ tasks' = EmptyBoard
    /\ nextID' = 0
    /\ result' = "ok"
    /\ UNCHANGED saved

Next ==
    \/ Create
    \/ \E id \in TaskID, o \in Requests : Update(id, o)
    \/ \E id \in TaskID : Delete(id)
    \/ SnapshotJSON
    \/ RestoreJSON
    \/ RestoreEmpty

Spec == Init /\ [][Next]_vars

-----------------------------------------------------------------------------
(* Properties *)

\* Every variable has its type: whatever fields an Update leaves nil, a task
\* has a status IsValidStatus accepts and an owner.
TypeOK ==
    /\ tasks \in [TaskID -> Task]
    /\ nextID \in Nat
    /\ saved \in [tasks : [TaskID -> Task], nextID : Nat]
    /\ result \in {"ok", "error"}

\* The two dependency lists always mirror each other and never name a task
\* that is gone: Update links both ends, Delete scrubs both, and a restored
\* board has the edges it was saved with.
EdgesMirror == Mirrored(tasks)

\* No task ever waits, directly or through others, for itself: whatever
\* batches of blocks and blocked-by edges the callers pass, in whatever order.
Acyclic == AcyclicBoard(tasks)

\* As long as a task is not completed, some task that is not completed has
\* every task it waits for completed: the dependencies never wedge the board,
\* neither by a cycle nor by naming a task that is gone.
BoardNotStuck ==
    LET open == {id \in Live(tasks) : tasks[id].status # "completed"}
    IN  open # {} => \E id \in open : \A d \in tasks[id].blockedBy : tasks[d].status = "completed"

\* The counter is never below the number of a task on the board, across any
\* sequence of saves and restores, so Create cannot overwrite a task.
FreshIDs == Numbered(tasks, nextID)

\* The board has its type, and the one in memory and the one that was saved,
\* which RestoreJSON brings back, both have mirrored and acyclic dependencies
\* and fresh ids: nothing weaker is kept by every operation.
IInv == TypeOK /\ Sound(tasks, nextID) /\ Sound(saved.tasks, saved.nextID)

\* An Update that returns an error has written nothing: the cycle check made
\* while the edges are linked never fires after the one made before them.
RejectedUpdateIsNoOp ==
    [][result' = "error" => tasks' = tasks]_vars

=============================================================================
