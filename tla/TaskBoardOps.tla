---------------------------- MODULE TaskBoardOps ----------------------------
(***************************************************************************)
(* The task board of internal/task as a value: a map of tasks with a       *)
(* status, an owner, mirrored dependency lists (Blocks / BlockedBy) and    *)
(* metadata, and what Create, Update and Delete make of it.  TaskBoard     *)
(* gives the board its own specification; SwarmRunner shares one board     *)
(* between the goroutines of a team.                                       *)
(***************************************************************************)
EXTENDS Naturals, FiniteSets

CONSTANTS
    TaskID,     \* the numbers N of the ids "task-N" that can be allocated
    Owner,      \* who may own a task
    NoOwner,    \* the empty owner string
    Unset       \* a nil pointer in UpdateOptions

ASSUME TaskIDAssumption == TaskID \subseteq Nat \ {0}
ASSUME OwnerAssumption == NoOwner \notin Owner
ASSUME UnsetAssumption ==
    /\ Unset \notin Owner \cup {NoOwner, "absent", "pending", "in_progress", "completed"}
    /\ Unset \notin Nat

-----------------------------------------------------------------------------
(* Tasks *)

Status == {"pending", "in_progress", "completed"}

\* The metadata keys the control flow reads; a value of 0 is a missing key.
MetaKey == {"retry_attempts", "permanent_error"}

NoMeta == [k \in MetaKey |-> 0]

Task == [status : Status \cup {"absent"},
         owner : Owner \cup {NoOwner},
         blocks : SUBSET TaskID,
         blockedBy : SUBSET TaskID,
         meta : [MetaKey -> Nat]]

NoTask == [status |-> "absent", owner |-> NoOwner,
           blocks |-> {}, blockedBy |-> {}, meta |-> NoMeta]

NewTask == [NoTask EXCEPT !.status = "pending"]

EmptyBoard == [id \in TaskID |-> NoTask]

\* hasTask, and the keys of the map.
HasTask(b, id) == b[id].status # "absent"

Live(b) == {id \in TaskID : HasTask(b, id)}

-----------------------------------------------------------------------------
(* Update *)

\* UpdateOptions.  A metadata entry of Unset is a key the call does not pass.
Options == [status : Status \cup {Unset},
            expected : Status \cup {Unset},
            owner : Owner \cup {NoOwner, Unset},
            addBlocks : SUBSET TaskID,
            addBlockedBy : SUBSET TaskID,
            meta : [MetaKey -> Nat \cup {Unset}]]

KeepMeta == [k \in MetaKey |-> Unset]

NoOptions == [status |-> Unset, expected |-> Unset, owner |-> Unset,
              addBlocks |-> {}, addBlockedBy |-> {}, meta |-> KeepMeta]

\* The edges an update adds: virtualBlockedBy, per blocked task.
Virtual(id, o) ==
    [x \in TaskID |-> (IF x = id THEN o.addBlockedBy ELSE {})
                      \cup (IF x \in o.addBlocks THEN {id} ELSE {})]

NoEdges == [x \in TaskID |-> {}]

\* A set the search never leaves: it follows the stored and the extra edges
\* of the tasks that exist.
Closed(b, extra, S) ==
    \A x \in S : HasTask(b, x) => b[x].blockedBy \cup extra[x] \subseteq S

\* Mutant: the search looks at the direct blockers of start only.
DirectCycleOnly(b, extra, start, target) ==
    start = target \/ (HasTask(b, start) /\ target \in b[start].blockedBy \cup extra[start])

\* wouldCreateCycleVirtual: the depth-first search with a visited set finds
\* target exactly when target is in every closed set that holds start.
WouldCreateCycle(b, extra, start, target) ==
    \A S \in SUBSET TaskID :
        (start \in S /\ Closed(b, extra, S)) => target \in S

\* Mutant: the checks look at the stored edges only.
RefusedStoredEdges(b, id, o) ==
    \/ ~HasTask(b, id)
    \/ o.expected # Unset /\ b[id].status # o.expected
    \/ \E x \in o.addBlocks :
          x = id \/ ~HasTask(b, x) \/ WouldCreateCycle(b, NoEdges, id, x)
    \/ \E x \in o.addBlockedBy :
          x = id \/ ~HasTask(b, x) \/ WouldCreateCycle(b, NoEdges, x, id)

\* Mutant: the tasks an edge names are not looked up.
RefusedUnlessKnown(b, id, o) ==
    \/ ~HasTask(b, id)
    \/ o.expected # Unset /\ b[id].status # o.expected
    \/ \E x \in o.addBlocks : x = id \/ WouldCreateCycle(b, Virtual(id, o), id, x)
    \/ \E x \in o.addBlockedBy :
          x = id \/ WouldCreateCycle(b, Virtual(id, o), x, id) \/ x \in o.addBlocks

\* The checks Update makes before it writes anything.
Refused(b, id, o) ==
    \/ ~HasTask(b, id)
    \/ o.expected # Unset /\ b[id].status # o.expected
    \/ \E x \in o.addBlocks :
          \/ x = id
          \/ ~HasTask(b, x)
          \/ WouldCreateCycle(b, Virtual(id, o), id, x)
    \/ \E x \in o.addBlockedBy :
          \/ x = id
          \/ ~HasTask(b, x)
          \/ WouldCreateCycle(b, Virtual(id, o), x, id)
          \/ x \in o.addBlocks

Choose(new, old) == IF new = Unset THEN old ELSE new

\* The scalar fields: status and owner (subject, description, activeForm and
\* the timestamps carry no control).
Fields(b, id, o) ==
    [b EXCEPT ![id] = [b[id] EXCEPT !.status = Choose(o.status, b[id].status),
                                    !.owner = Choose(o.owner, b[id].owner)]]

WithEdges(t, blocks, blockedBy) == [t EXCEPT !.blocks = blocks, !.blockedBy = blockedBy]

\* The mirrored dependency lists once the tasks of blocks and of blockedBy
\* have been linked to id.
Linked(b, id, blocks, blockedBy) ==
    [x \in TaskID |->
        WithEdges(b[x],
            b[x].blocks \cup (IF x = id THEN blocks ELSE {})
                        \cup (IF x \in blockedBy THEN {id} ELSE {}),
            b[x].blockedBy \cup (IF x = id THEN blockedBy ELSE {})
                           \cup (IF x \in blocks THEN {id} ELSE {}))]

WithMeta(b, id, o) ==
    [b EXCEPT ![id] = [b[id] EXCEPT !.meta =
                          [k \in MetaKey |-> Choose(o.meta[k], b[id].meta[k])]]]

\* The board when every write of Update has happened.
Updated(b, id, o) ==
    WithMeta(Linked(Fields(b, id, o), id, o.addBlocks, o.addBlockedBy), id, o)

\* While it links, Update looks for a cycle once more before each edge, in
\* the stored edges alone.  If it finds one it returns an error and keeps the
\* fields and the edges it has written: these are the boards it can leave.
\* AddBlocks is linked before AddBlockedBy.
HalfUpdated(b, id, o) ==
    LET f == Fields(b, id, o)
    IN  {Linked(f, id, S, {}) : S \in {T \in SUBSET o.addBlocks :
            \E x \in o.addBlocks \ T :
                WouldCreateCycle(Linked(f, id, T, {}), NoEdges, id, x)}}
        \cup
        {Linked(f, id, o.addBlocks, S) : S \in {T \in SUBSET o.addBlockedBy :
            \E x \in o.addBlockedBy \ T :
                WouldCreateCycle(Linked(f, id, o.addBlocks, T), NoEdges, x, id)}}

\* Mutant: Delete removes the task and leaves the edges of the others.
DeletedNoScrub(b, id) == [b EXCEPT ![id] = NoTask]

\* Mutant: Delete scrubs the tasks it blocks, not the ones that block it.
DeletedHalfScrub(b, id) ==
    [x \in TaskID |->
        IF x = id THEN NoTask ELSE [b[x] EXCEPT !.blockedBy = @ \ {id}]]

\* The board after Delete: every other task forgets the deleted one.
Deleted(b, id) ==
    [x \in TaskID |->
        IF x = id THEN NoTask
        ELSE WithEdges(b[x], b[x].blocks \ {id}, b[x].blockedBy \ {id})]

-----------------------------------------------------------------------------
(* Facts about a board *)

\* The two dependency lists agree and name tasks that exist.
Mirrored(b) ==
    \A x, y \in TaskID :
        /\ y \in b[x].blockedBy <=> x \in b[y].blocks
        /\ y \in b[x].blockedBy => HasTask(b, x) /\ HasTask(b, y)

\* No task waits, directly or through others, for itself: in every set of
\* tasks there is one that waits for none of the others.
AcyclicBoard(b) ==
    \A S \in SUBSET TaskID : S # {} => \E x \in S : b[x].blockedBy \cap S = {}

\* The ids on the board are not above n.
Numbered(b, n) == \A id \in Live(b) : id <= n

\* A board and its counter, as the operations keep them.
Sound(b, n) == Mirrored(b) /\ AcyclicBoard(b) /\ Numbered(b, n)
=============================================================================
