-------------------------- MODULE TaskBoardProofs --------------------------
(***************************************************************************)
(* Proofs about TaskBoard: the board stays typed, its two dependency lists *)
(* mirror each other, no task waits for itself, ids are never reused, and  *)
(* an Update that fails writes nothing.  They hold for any set of task     *)
(* ids, any owners and any requests.                                       *)
(***************************************************************************)
EXTENDS TaskBoard, TaskBoardOpsProofs

-----------------------------------------------------------------------------
(* The inductive invariant: IInv of TaskBoard *)

\* The empty board is sound.
LEMMA EmptySound == EmptyBoard \in [TaskID -> Task] /\ Sound(EmptyBoard, 0)
BY DEF EmptyBoard, NoTask, NoMeta, Task, Sound, Mirrored, AcyclicBoard, Numbered,
       Live, HasTask

\* A snapshot that SnapshotJSON wrote restores a counter above every task.
LEMMA RestoredIDFresh ==
    ASSUME NEW s \in [tasks : [TaskID -> Task], nextID : Nat],
           Numbered(s.tasks, s.nextID)
    PROVE  RestoredID(s) \in Nat /\ RestoredID(s) >= s.nextID
<1> DEFINE high == {id \in Live(s.tasks) : id >= s.nextID}
<1>1. CASE high = {}
  BY <1>1 DEF RestoredID
<1>2. CASE high # {}
  <2>1. s.nextID \in Nat /\ \A id \in high : id \in Nat /\ id = s.nextID
    BY TaskIDAssumption DEF Numbered, Live
  <2>2. s.nextID \in high /\ \A x \in high : s.nextID >= x
    BY <1>2, <2>1
  <2>3. (CHOOSE id \in high : \A x \in high : id >= x) = s.nextID
    <3> HIDE DEF high
    <3> QED BY <2>1, <2>2
  <2> QED BY <1>2, <2>1, <2>3 DEF RestoredID
<1> QED BY <1>1, <1>2

\* The invariant holds of the empty board Init starts from.
LEMMA InitIInv == Init => IInv
BY EmptySound DEF Init, IInv, TypeOK

\* Create adds a task without edges under a number nothing uses.
LEMMA CreateIInv == IInv /\ Create => IInv'
<1> SUFFICES ASSUME IInv, Create PROVE IInv'
  OBVIOUS
<1>1. nextID \in Nat /\ nextID + 1 \in TaskID /\ tasks \in [TaskID -> Task] /\ Sound(tasks, nextID)
  BY DEF IInv, TypeOK, Create
<1>2. tasks' = [tasks EXCEPT ![nextID + 1] = NewTask] /\ nextID' = nextID + 1
  BY DEF Create
<1>3. tasks' \in [TaskID -> Task] /\ Sound(tasks', nextID')
  BY <1>1, <1>2, CreateKeepsSound
<1> QED BY <1>1, <1>2, <1>3 DEF IInv, TypeOK, Create

\* Update adds its edges or changes nothing.
LEMMA UpdateIInv ==
    ASSUME NEW id \in TaskID, NEW o \in Requests, IInv, Update(id, o)
    PROVE  IInv'
<1>0. o \in Options
  BY RequestsAssumption
<1>1. CASE Refused(tasks, id, o)
  BY <1>1 DEF Update, IInv, TypeOK
<1>2. CASE ~Refused(tasks, id, o)
  <2>1. tasks' = Updated(tasks, id, o) /\ result' = "ok"
    BY <1>0, <1>2, NeverHalfUpdated DEF Update, IInv, TypeOK
  <2>2. tasks' \in [TaskID -> Task] /\ Sound(tasks', nextID)
    BY <1>0, <1>2, <2>1, UpdateKeepsSound DEF IInv, TypeOK
  <2> QED BY <2>1, <2>2 DEF IInv, TypeOK, Update
<1> QED BY <1>1, <1>2

\* Delete removes edges on both sides.
LEMMA DeleteIInv ==
    ASSUME NEW id \in TaskID, IInv, Delete(id)
    PROVE  IInv'
<1>1. tasks' \in [TaskID -> Task] /\ Sound(tasks', nextID)
  BY DeleteKeepsSound DEF IInv, TypeOK, Delete
<1> QED BY <1>1 DEF IInv, TypeOK, Delete

\* RestoreJSON brings back a sound board under a counter at least as large.
LEMMA RestoreIInv == IInv /\ RestoreJSON => IInv'
<1> SUFFICES ASSUME IInv, RestoreJSON PROVE IInv'
  OBVIOUS
<1>1. nextID' \in Nat /\ nextID' >= saved.nextID
  BY RestoredIDFresh DEF IInv, TypeOK, Sound, RestoreJSON
<1>2. Numbered(tasks', nextID')
  BY <1>1, TaskIDAssumption DEF IInv, TypeOK, Sound, Numbered, Live, RestoreJSON
<1> QED BY <1>1, <1>2 DEF IInv, TypeOK, Sound, RestoreJSON

\* Every step keeps the invariant.
LEMMA NextIInv == IInv /\ [Next]_vars => IInv'
<1> SUFFICES ASSUME IInv, [Next]_vars PROVE IInv'
  OBVIOUS
<1>1. CASE Create
  BY <1>1, CreateIInv
<1>2. ASSUME NEW id \in TaskID, NEW o \in Requests, Update(id, o) PROVE IInv'
  BY <1>2, UpdateIInv
<1>3. ASSUME NEW id \in TaskID, Delete(id) PROVE IInv'
  BY <1>3, DeleteIInv
<1>4. CASE SnapshotJSON
  BY <1>4 DEF SnapshotJSON, IInv, TypeOK, Sound
<1>5. CASE RestoreJSON
  BY <1>5, RestoreIInv
<1>6. CASE RestoreEmpty
  BY <1>6, EmptySound DEF RestoreEmpty, IInv, TypeOK
<1>7. CASE UNCHANGED vars
  BY <1>7 DEF vars, IInv, TypeOK, Sound
<1> QED BY <1>1, <1>2, <1>3, <1>4, <1>5, <1>6, <1>7 DEF Next

-----------------------------------------------------------------------------
(* Theorems *)

\* The invariant holds in every reachable state.
THEOREM Invariance == Spec => []IInv
BY InitIInv, NextIInv, PTL DEF Spec

\* Every variable of the board always has its type.
THEOREM TypeCorrect == Spec => []TypeOK
<1>1. IInv => TypeOK
  BY DEF IInv
<1> QED BY <1>1, Invariance, PTL

\* Blocks and BlockedBy always mirror each other and name existing tasks.
THEOREM EdgesAlwaysMirror == Spec => []EdgesMirror
<1>1. IInv => EdgesMirror
  BY DEF IInv, Sound, EdgesMirror
<1> QED BY <1>1, Invariance, PTL

\* No sequence of Update, Delete, save and restore makes a task wait for itself.
THEOREM AlwaysAcyclic == Spec => []Acyclic
<1>1. IInv => Acyclic
  BY DEF IInv, Sound, Acyclic
<1> QED BY <1>1, Invariance, PTL

\* While a task is not completed, one that is not completed has all its
\* blockers completed: acyclicity gives one that waits for none of the others,
\* and the mirrored lists say that what it waits for exists.
THEOREM NeverStuck == Spec => []BoardNotStuck
<1>1. IInv => BoardNotStuck
  <2> DEFINE open == {id \in Live(tasks) : tasks[id].status # "completed"}
  <2> SUFFICES ASSUME IInv, open # {}
               PROVE  \E id \in open : \A d \in tasks[id].blockedBy : tasks[d].status = "completed"
    BY DEF BoardNotStuck
  <2>1. open \in SUBSET TaskID
    BY DEF Live
  <2>2. PICK id \in open : tasks[id].blockedBy \cap open = {}
    BY <2>1 DEF IInv, Sound, AcyclicBoard
  <2>3. ASSUME NEW d \in tasks[id].blockedBy
        PROVE  tasks[d].status = "completed"
    <3>1. d \in TaskID
      BY <2>1, <2>3 DEF IInv, TypeOK, Task
    <3>2. HasTask(tasks, d)
      BY <2>1, <2>3, <3>1 DEF IInv, Sound, Mirrored
    <3> QED BY <2>2, <2>3, <3>1, <3>2 DEF Live
  <2> QED BY <2>3
<1> QED BY <1>1, Invariance, PTL

\* Create never reuses the number of a task that is on the board.
THEOREM AlwaysFreshIDs == Spec => []FreshIDs
<1>1. IInv => FreshIDs
  BY DEF IInv, Sound, FreshIDs
<1> QED BY <1>1, Invariance, PTL

\* An Update that returns an error leaves every task as it was.
THEOREM ErrorsWriteNothing == Spec => RejectedUpdateIsNoOp
<1>1. IInv /\ [Next]_vars => [result' = "error" => tasks' = tasks]_vars
  <2> SUFFICES ASSUME IInv, Next, result' = "error" PROVE tasks' = tasks
    BY DEF vars
  <2>1. ASSUME NEW id \in TaskID, NEW o \in Requests, Update(id, o)
        PROVE  tasks' = tasks
    <3>1. o \in Options
      BY RequestsAssumption
    <3>2. Refused(tasks, id, o)
      BY <2>1, <3>1, NeverHalfUpdated DEF Update, IInv, TypeOK
    <3> QED BY <2>1, <3>2 DEF Update
  <2> QED BY <2>1 DEF Next, Create, Delete, SnapshotJSON, RestoreJSON, RestoreEmpty
<1> QED BY <1>1, Invariance, PTL DEF Spec, RejectedUpdateIsNoOp
=============================================================================
