------------------------ MODULE TaskBoardOpsProofs ------------------------
(***************************************************************************)
(* Lemmas about the operators of TaskBoardOps, for any board: what Update  *)
(* and Delete change, and that they keep the board sound.                  *)
(***************************************************************************)
EXTENDS TaskBoardOps, TLAPS

-----------------------------------------------------------------------------
(* What Update and Delete do to a board *)

\* WithEdges replaces the two lists of a task.
LEMMA WithEdgesTask ==
    ASSUME NEW t \in Task, NEW A \in SUBSET TaskID, NEW B \in SUBSET TaskID
    PROVE  LET e == WithEdges(t, A, B)
           IN  e \in Task /\ e.status = t.status /\ e.blocks = A /\ e.blockedBy = B
BY DEF WithEdges, Task

\* The scalar fields leave the set of tasks and the edges alone.
LEMMA FieldsBoard ==
    ASSUME NEW b \in [TaskID -> Task], NEW id \in TaskID, NEW o \in Options,
           HasTask(b, id)
    PROVE  LET f == Fields(b, id, o)
           IN  /\ f \in [TaskID -> Task]
               /\ \A x \in TaskID : /\ HasTask(f, x) <=> HasTask(b, x)
                                    /\ f[x].blocks = b[x].blocks
                                    /\ f[x].blockedBy = b[x].blockedBy
<1> DEFINE s == Choose(o.status, b[id].status)
           w == Choose(o.owner, b[id].owner)
           t == [b[id] EXCEPT !.status = s, !.owner = w]
<1>1. b[id] \in Task /\ b[id].status \in Status
  BY DEF HasTask, Task
<1>2. s \in Status /\ w \in Owner \cup {NoOwner}
  BY <1>1 DEF Choose, Task, Options
<1> HIDE DEF s, w
<1>3. /\ t \in Task /\ t.status = s /\ t.blocks = b[id].blocks
      /\ t.blockedBy = b[id].blockedBy
  BY <1>1, <1>2 DEF Task
<1>4. Fields(b, id, o) = [b EXCEPT ![id] = t]
  BY DEF Fields, s, w
<1>5. s # "absent"
  BY <1>2 DEF Status
<1> HIDE DEF t
<1> QED BY <1>1, <1>3, <1>4, <1>5 DEF HasTask, Status

\* Update's result is a board, it keeps the set of tasks, and adds exactly the
\* edges of Virtual, once in each of the two lists.
LEMMA UpdatedBoard ==
    ASSUME NEW b \in [TaskID -> Task], NEW id \in TaskID, NEW o \in Options,
           HasTask(b, id)
    PROVE  LET u == Updated(b, id, o)
           IN  /\ u \in [TaskID -> Task]
               /\ \A x \in TaskID :
                    /\ HasTask(u, x) <=> HasTask(b, x)
                    /\ u[x].blockedBy = b[x].blockedBy \cup Virtual(id, o)[x]
                    /\ u[x].blocks = b[x].blocks
                         \cup (IF x = id THEN o.addBlocks ELSE {})
                         \cup (IF x \in o.addBlockedBy THEN {id} ELSE {})
<1> DEFINE f == Fields(b, id, o)
           l == Linked(f, id, o.addBlocks, o.addBlockedBy)
           u == WithMeta(l, id, o)
<1>1. /\ f \in [TaskID -> Task]
      /\ \A x \in TaskID : /\ HasTask(f, x) <=> HasTask(b, x)
                           /\ f[x].blocks = b[x].blocks
                           /\ f[x].blockedBy = b[x].blockedBy
  BY FieldsBoard
<1>2. /\ l \in [TaskID -> Task]
      /\ \A x \in TaskID :
            /\ l[x].status = f[x].status
            /\ l[x].blockedBy = f[x].blockedBy \cup Virtual(id, o)[x]
            /\ l[x].blocks = f[x].blocks
                 \cup (IF x = id THEN o.addBlocks ELSE {})
                 \cup (IF x \in o.addBlockedBy THEN {id} ELSE {})
  <2> HIDE DEF f
  <2> DEFINE A(x) == f[x].blocks \cup (IF x = id THEN o.addBlocks ELSE {})
                                \cup (IF x \in o.addBlockedBy THEN {id} ELSE {})
             B(x) == f[x].blockedBy \cup (IF x = id THEN o.addBlockedBy ELSE {})
                                   \cup (IF x \in o.addBlocks THEN {id} ELSE {})
  <2>1. ASSUME NEW x \in TaskID
        PROVE  /\ A(x) \in SUBSET TaskID /\ B(x) \in SUBSET TaskID
               /\ B(x) = f[x].blockedBy \cup Virtual(id, o)[x]
    BY <1>1 DEF Virtual, Task, Options
  <2>2. l = [x \in TaskID |-> WithEdges(f[x], A(x), B(x))]
    BY DEF Linked
  <2> HIDE DEF A, B, l
  <2>3. ASSUME NEW x \in TaskID
        PROVE  /\ WithEdges(f[x], A(x), B(x)) \in Task
               /\ l[x].status = f[x].status
               /\ l[x].blocks = A(x)
               /\ l[x].blockedBy = B(x)
    <3>1. f[x] \in Task /\ A(x) \in SUBSET TaskID /\ B(x) \in SUBSET TaskID
      BY <1>1, <2>1
    <3>2. l[x] = WithEdges(f[x], A(x), B(x))
      BY <2>2
    <3> QED BY <3>1, <3>2, WithEdgesTask
  <2>4. l \in [TaskID -> Task]
    BY <2>2, <2>3
  <2> QED BY <2>1, <2>3, <2>4 DEF A
<1>3. /\ u \in [TaskID -> Task]
      /\ \A x \in TaskID : /\ u[x].status = l[x].status
                           /\ u[x].blocks = l[x].blocks
                           /\ u[x].blockedBy = l[x].blockedBy
  <2> HIDE DEF l
  <2> DEFINE m == [k \in MetaKey |-> Choose(o.meta[k], l[id].meta[k])]
             t == [l[id] EXCEPT !.meta = m]
  <2>1. m \in [MetaKey -> Nat]
    BY <1>2 DEF Choose, Task, Options
  <2> HIDE DEF m
  <2>2. /\ t \in Task /\ t.status = l[id].status /\ t.blocks = l[id].blocks
        /\ t.blockedBy = l[id].blockedBy
    <3>1. l[id] \in Task
      BY <1>2
    <3> QED BY <2>1, <3>1 DEF Task
  <2>3. u = [l EXCEPT ![id] = t]
    BY DEF WithMeta, m
  <2> HIDE DEF t, u
  <2> QED BY <1>2, <2>2, <2>3
<1>4. Updated(b, id, o) = u
  BY DEF Updated
<1> QED
  <2> HIDE DEF u, l, f
  <2> QED BY <1>1, <1>2, <1>3, <1>4 DEF HasTask

\* A set closed in a graph is closed in any graph with fewer edges and the
\* same tasks, so what is unreachable there stays unreachable here.
LEMMA FewerEdges ==
    ASSUME NEW b, NEW c, NEW e, NEW g,
           \A x \in TaskID : HasTask(c, x) => HasTask(b, x),
           \A x \in TaskID : HasTask(c, x) =>
               c[x].blockedBy \cup g[x] \subseteq b[x].blockedBy \cup e[x],
           NEW s \in TaskID, NEW t \in TaskID, ~WouldCreateCycle(b, e, s, t)
    PROVE  ~WouldCreateCycle(c, g, s, t)
<1>1. PICK S \in SUBSET TaskID : s \in S /\ Closed(b, e, S) /\ t \notin S
  BY DEF WouldCreateCycle
<1>2. Closed(c, g, S)
  BY <1>1 DEF Closed
<1> QED BY <1>1, <1>2 DEF WouldCreateCycle

\* The check Update makes before it writes covers the one it makes while it
\* links: it can never stop half way.
LEMMA NeverHalfUpdated ==
    ASSUME NEW b \in [TaskID -> Task], NEW id \in TaskID, NEW o \in Options,
           ~Refused(b, id, o)
    PROVE  HalfUpdated(b, id, o) = {}
<1> DEFINE f == Fields(b, id, o)
<1>0. HasTask(b, id)
  BY DEF Refused
<1>1. /\ f \in [TaskID -> Task]
      /\ \A x \in TaskID : /\ HasTask(f, x) <=> HasTask(b, x)
                           /\ f[x].blockedBy = b[x].blockedBy
  BY <1>0, FieldsBoard
<1> HIDE DEF f
<1>2. ASSUME NEW A \in SUBSET o.addBlocks, NEW B \in SUBSET o.addBlockedBy,
             NEW x \in TaskID
      PROVE  /\ HasTask(Linked(f, id, A, B), x) => HasTask(b, x)
             /\ Linked(f, id, A, B)[x].blockedBy \cup NoEdges[x]
                  \subseteq b[x].blockedBy \cup Virtual(id, o)[x]
  <2> DEFINE c == Linked(f, id, A, B)
             C == f[x].blocks \cup (IF x = id THEN A ELSE {})
                              \cup (IF x \in B THEN {id} ELSE {})
             D == f[x].blockedBy \cup (IF x = id THEN B ELSE {})
                                 \cup (IF x \in A THEN {id} ELSE {})
  <2>1. c[x] = WithEdges(f[x], C, D)
    BY DEF Linked
  <2>2. f[x] \in Task /\ C \in SUBSET TaskID /\ D \in SUBSET TaskID
    BY <1>1 DEF Task, Options
  <2>3. D \cup NoEdges[x] \subseteq b[x].blockedBy \cup Virtual(id, o)[x]
    BY <1>1 DEF NoEdges, Virtual
  <2> HIDE DEF c, C, D
  <2>4. c[x].status = f[x].status /\ c[x].blockedBy = D
    BY <2>1, <2>2, WithEdgesTask
  <2> QED BY <1>1, <2>3, <2>4 DEF HasTask, c
<1>3. ASSUME NEW A \in SUBSET o.addBlocks, NEW B \in SUBSET o.addBlockedBy,
             NEW s \in TaskID, NEW t \in TaskID,
             ~WouldCreateCycle(b, Virtual(id, o), s, t)
      PROVE  ~WouldCreateCycle(Linked(f, id, A, B), NoEdges, s, t)
  <2> DEFINE c == Linked(f, id, A, B)
  <2>1. \A x \in TaskID :
            /\ HasTask(c, x) => HasTask(b, x)
            /\ c[x].blockedBy \cup NoEdges[x] \subseteq b[x].blockedBy \cup Virtual(id, o)[x]
    BY <1>2
  <2> HIDE DEF c
  <2>2. ~WouldCreateCycle(c, NoEdges, s, t)
    BY <1>3, <2>1, FewerEdges
  <2> QED BY <2>2 DEF c
<1>4. /\ \A x \in o.addBlocks : x \in TaskID /\ ~WouldCreateCycle(b, Virtual(id, o), id, x)
      /\ \A x \in o.addBlockedBy : x \in TaskID /\ ~WouldCreateCycle(b, Virtual(id, o), x, id)
  BY DEF Refused, Options
<1>5. ~\E T \in SUBSET o.addBlocks : \E x \in o.addBlocks \ T :
          WouldCreateCycle(Linked(f, id, T, {}), NoEdges, id, x)
  BY <1>3, <1>4
<1>6. ~\E T \in SUBSET o.addBlockedBy : \E x \in o.addBlockedBy \ T :
          WouldCreateCycle(Linked(f, id, o.addBlocks, T), NoEdges, x, id)
  BY <1>3, <1>4
<1> QED BY <1>5, <1>6 DEF HalfUpdated, f

-----------------------------------------------------------------------------
(* The three facts about the edges, kept by every operation *)

\* Update links both ends of every edge.
LEMMA UpdateKeepsMirrored ==
    ASSUME NEW b \in [TaskID -> Task], NEW id \in TaskID, NEW o \in Options,
           Mirrored(b), ~Refused(b, id, o)
    PROVE  Mirrored(Updated(b, id, o))
<1> DEFINE u == Updated(b, id, o)
<1>1. /\ HasTask(b, id)
      /\ \A x \in o.addBlocks \cup o.addBlockedBy : HasTask(b, x)
      /\ o.addBlocks \subseteq TaskID /\ o.addBlockedBy \subseteq TaskID
  BY DEF Refused, Options
<1>2. \A x \in TaskID :
        /\ HasTask(u, x) <=> HasTask(b, x)
        /\ u[x].blockedBy = b[x].blockedBy \cup Virtual(id, o)[x]
        /\ u[x].blocks = b[x].blocks
             \cup (IF x = id THEN o.addBlocks ELSE {})
             \cup (IF x \in o.addBlockedBy THEN {id} ELSE {})
  BY <1>1, UpdatedBoard
<1> HIDE DEF u
<1> SUFFICES ASSUME NEW x \in TaskID, NEW y \in TaskID
             PROVE  /\ y \in u[x].blockedBy <=> x \in u[y].blocks
                    /\ y \in u[x].blockedBy => HasTask(u, x) /\ HasTask(u, y)
  BY DEF Mirrored, u
<1>3. y \in Virtual(id, o)[x] <=> (x = id /\ y \in o.addBlockedBy) \/ (y = id /\ x \in o.addBlocks)
  BY DEF Virtual
<1>4. y \in u[x].blockedBy <=> y \in b[x].blockedBy \/ y \in Virtual(id, o)[x]
  BY <1>2
<1>5. x \in u[y].blocks <=> \/ x \in b[y].blocks
                            \/ y = id /\ x \in o.addBlocks
                            \/ x = id /\ y \in o.addBlockedBy
  BY <1>2
<1>6. /\ y \in b[x].blockedBy <=> x \in b[y].blocks
      /\ y \in b[x].blockedBy => HasTask(b, x) /\ HasTask(b, y)
  BY DEF Mirrored
<1>7. /\ HasTask(u, x) <=> HasTask(b, x)
      /\ HasTask(u, y) <=> HasTask(b, y)
  BY <1>2
<1> QED BY <1>1, <1>3, <1>4, <1>5, <1>6, <1>7

\* Adding a batch of edges none of which closes a cycle in the resulting
\* graph keeps the graph acyclic.  Every new edge has id at one end.  In a set
\* S whose every member waits for a member, the members that reach id and are
\* reached from it are again such a set; one of them waits for none of them by
\* an old edge, so it does by a new one, and that edge closes a cycle.
LEMMA UpdateKeepsAcyclic ==
    ASSUME NEW b \in [TaskID -> Task], NEW id \in TaskID, NEW o \in Options,
           Mirrored(b), AcyclicBoard(b), ~Refused(b, id, o)
    PROVE  AcyclicBoard(Updated(b, id, o))
<1> DEFINE u == Updated(b, id, o)
           v == Virtual(id, o)
           Reach(s, t) == WouldCreateCycle(u, NoEdges, s, t)
<1>1. /\ u \in [TaskID -> Task]
      /\ \A x \in TaskID : /\ HasTask(u, x) <=> HasTask(b, x)
                           /\ u[x].blockedBy = b[x].blockedBy \cup v[x]
                           /\ b[x].blockedBy \subseteq TaskID
                           /\ v[x] \subseteq TaskID
  <2>1. HasTask(b, id)
    BY DEF Refused
  <2>2. \A x \in TaskID : b[x].blockedBy \subseteq TaskID
    BY DEF Task
  <2>3. \A x \in TaskID : v[x] \subseteq TaskID
    BY DEF Virtual, Options
  <2> HIDE DEF v
  <2> QED BY <2>1, <2>2, <2>3, UpdatedBoard DEF v
<1>2. \A x \in TaskID : \A y \in v[x] :
        /\ HasTask(b, x)
        /\ x = id \/ y = id
        /\ ~WouldCreateCycle(b, v, y, x)
  BY DEF Refused, Virtual, Options
<1>3. \A x \in TaskID : b[x].blockedBy # {} => HasTask(b, x)
  BY <1>1 DEF Mirrored
<1> HIDE DEF u, v
<1>4. ASSUME NEW x \in TaskID, NEW y \in v[x]
      PROVE  ~Reach(y, x)
  <2>1. \A z \in TaskID : NoEdges[z] = {}
    BY DEF NoEdges
  <2>2. \A z \in TaskID : u[z].blockedBy \cup NoEdges[z] \subseteq b[z].blockedBy \cup v[z]
    BY <1>1, <2>1
  <2>3. y \in TaskID /\ ~WouldCreateCycle(b, v, y, x)
    BY <1>1, <1>2
  <2> QED BY <1>1, <2>2, <2>3, FewerEdges
<1>5. \A x \in TaskID : u[x].blockedBy # {} => HasTask(u, x)
  BY <1>1, <1>2, <1>3
<1>6. ASSUME NEW x \in TaskID, NEW y \in u[x].blockedBy, NEW z \in TaskID
      PROVE  /\ y \in TaskID
             /\ Reach(y, z) => Reach(x, z)
             /\ Reach(z, x) => Reach(z, y)
  BY <1>1, <1>5 DEF WouldCreateCycle, Closed
<1>7. \A x, y, z \in TaskID : Reach(x, y) /\ Reach(y, z) => Reach(x, z)
  BY DEF WouldCreateCycle
<1>8. \A x \in TaskID : Reach(x, x)
  BY DEF WouldCreateCycle
<1> HIDE DEF Reach
<1> SUFFICES ASSUME NEW S \in SUBSET TaskID, S # {},
                    \A x \in S : u[x].blockedBy \cap S # {}
             PROVE  FALSE
  BY DEF AcyclicBoard, u
<1>9. \A x \in S : Reach(x, id)
  <2> DEFINE N == {x \in S : ~Reach(x, id)}
  <2>1. SUFFICES ASSUME N # {} PROVE FALSE
    OBVIOUS
  <2>2. PICK x \in N : b[x].blockedBy \cap N = {}
    BY <2>1 DEF AcyclicBoard
  <2>3. PICK y \in S : y \in u[x].blockedBy
    OBVIOUS
  <2>4. y \in N
    BY <1>6, <2>3
  <2>5. y \in v[x]
    BY <1>1, <2>2, <2>3, <2>4
  <2>6. x = id \/ y = id
    BY <1>2, <2>5
  <2> QED BY <1>8, <2>4, <2>6
<1>10. id \in S
  <2>1. PICK x \in S : b[x].blockedBy \cap S = {}
    BY DEF AcyclicBoard
  <2>2. PICK y \in S : y \in u[x].blockedBy
    OBVIOUS
  <2>3. y \in v[x]
    BY <1>1, <2>1, <2>2
  <2> QED BY <1>2, <2>3
<1> DEFINE C == {x \in S : Reach(id, x)}
<1>11. id \in C
  BY <1>8, <1>10
<1>12. PICK x \in C : b[x].blockedBy \cap C = {}
  BY <1>11 DEF AcyclicBoard
<1>13. PICK y \in S : y \in u[x].blockedBy
  OBVIOUS
<1>14. y \in C
  BY <1>6, <1>13
<1>15. y \in v[x]
  BY <1>1, <1>12, <1>13, <1>14
<1>16. Reach(y, x)
  BY <1>7, <1>9, <1>12, <1>13
<1> QED BY <1>4, <1>15, <1>16

\* A board with no more edges than an acyclic one is acyclic.
LEMMA FewerEdgesAcyclic ==
    ASSUME NEW b, NEW c, AcyclicBoard(b),
           \A x \in TaskID : c[x].blockedBy \subseteq b[x].blockedBy
    PROVE  AcyclicBoard(c)
BY DEF AcyclicBoard
-----------------------------------------------------------------------------
(* Create, Update and Delete keep a board sound *)

\* What Update does to the fields: those the request sets, of one task.
LEMMA UpdatedFields ==
    ASSUME NEW b \in [TaskID -> Task], NEW id \in TaskID, NEW o \in Options,
           HasTask(b, id)
    PROVE  LET u == Updated(b, id, o)
           IN  /\ u[id].status = Choose(o.status, b[id].status)
               /\ u[id].owner = Choose(o.owner, b[id].owner)
               /\ \A k \in MetaKey : u[id].meta[k] = Choose(o.meta[k], b[id].meta[k])
               /\ \A x \in TaskID \ {id} : /\ u[x].status = b[x].status
                                           /\ u[x].owner = b[x].owner
                                           /\ u[x].meta = b[x].meta
<1> DEFINE f == Fields(b, id, o)
           l == Linked(f, id, o.addBlocks, o.addBlockedBy)
           u == WithMeta(l, id, o)
<1>1. /\ f \in [TaskID -> Task]
      /\ f[id].status = Choose(o.status, b[id].status)
      /\ f[id].owner = Choose(o.owner, b[id].owner)
      /\ f[id].meta = b[id].meta
      /\ \A x \in TaskID \ {id} : f[x] = b[x]
  <2>1. f \in [TaskID -> Task]
    BY FieldsBoard
  <2>2. b[id] \in Task
    OBVIOUS
  <2>3. f = [b EXCEPT ![id] = [b[id] EXCEPT !.status = Choose(o.status, b[id].status),
                                           !.owner = Choose(o.owner, b[id].owner)]]
    BY DEF Fields
  <2>4. f[id] = [b[id] EXCEPT !.status = Choose(o.status, b[id].status),
                              !.owner = Choose(o.owner, b[id].owner)]
    BY <2>3
  <2> HIDE DEF f
  <2> QED BY <2>1, <2>2, <2>3, <2>4 DEF Task
<1>2. \A x \in TaskID : /\ l[x].status = f[x].status
                        /\ l[x].owner = f[x].owner
                        /\ l[x].meta = f[x].meta
  <2> HIDE DEF f
  <2> SUFFICES ASSUME NEW x \in TaskID
               PROVE  /\ l[x].status = f[x].status
                      /\ l[x].owner = f[x].owner
                      /\ l[x].meta = f[x].meta
    OBVIOUS
  <2>1. PICK A, B : l[x] = WithEdges(f[x], A, B)
    BY DEF Linked
  <2>2. f[x] \in Task
    BY <1>1
  <2> HIDE DEF l
  <2> QED BY <2>1, <2>2 DEF WithEdges, Task
<1>3. l = [x \in TaskID |-> l[x]] /\ l[id] \in Task
  <2>1. PICK A \in SUBSET TaskID, B \in SUBSET TaskID : l[id] = WithEdges(f[id], A, B)
    <3> HIDE DEF f
    <3>1. /\ f[id].blocks \cup o.addBlocks \cup (IF id \in o.addBlockedBy THEN {id} ELSE {})
                \in SUBSET TaskID
          /\ f[id].blockedBy \cup o.addBlockedBy \cup (IF id \in o.addBlocks THEN {id} ELSE {})
                \in SUBSET TaskID
      BY <1>1 DEF Task, Options
    <3> QED BY <3>1 DEF Linked
  <2>2. f[id] \in Task
    BY <1>1
  <2> HIDE DEF f
  <2> QED BY <2>1, <2>2, WithEdgesTask DEF Linked
<1>4. /\ u[id].status = l[id].status
      /\ u[id].owner = l[id].owner
      /\ \A k \in MetaKey : u[id].meta[k] = Choose(o.meta[k], l[id].meta[k])
      /\ \A x \in TaskID \ {id} : u[x] = l[x]
  <2> HIDE DEF l
  <2> DEFINE m == [k \in MetaKey |-> Choose(o.meta[k], l[id].meta[k])]
  <2>1. u = [l EXCEPT ![id] = [l[id] EXCEPT !.meta = m]]
    BY DEF WithMeta
  <2>2. \A k \in MetaKey : m[k] = Choose(o.meta[k], l[id].meta[k])
    OBVIOUS
  <2> HIDE DEF m, u
  <2>3. u[id] = [l[id] EXCEPT !.meta = m]
    BY <1>3, <2>1
  <2>4. u[id].status = l[id].status /\ u[id].owner = l[id].owner /\ u[id].meta = m
    BY <1>3, <2>3 DEF Task
  <2> QED BY <1>3, <2>1, <2>2, <2>4
<1>5. Updated(b, id, o) = u
  BY DEF Updated
<1> HIDE DEF u, l, f
<1> QED BY <1>1, <1>2, <1>4, <1>5

\* Update keeps a board sound.
LEMMA UpdateKeepsSound ==
    ASSUME NEW b \in [TaskID -> Task], NEW n, NEW id \in TaskID, NEW o \in Options,
           Sound(b, n), ~Refused(b, id, o)
    PROVE  Updated(b, id, o) \in [TaskID -> Task] /\ Sound(Updated(b, id, o), n)
<1> DEFINE u == Updated(b, id, o)
<1>1. HasTask(b, id)
  BY DEF Refused
<1>2. u \in [TaskID -> Task] /\ \A x \in TaskID : HasTask(u, x) <=> HasTask(b, x)
  BY <1>1, UpdatedBoard
<1>3. Mirrored(u) /\ AcyclicBoard(u)
  BY UpdateKeepsMirrored, UpdateKeepsAcyclic DEF Sound
<1>4. Numbered(u, n)
  BY <1>2 DEF Sound, Numbered, Live
<1> QED BY <1>2, <1>3, <1>4 DEF Sound

\* Create keeps a board sound: the number is fresh, so no edge names it.
LEMMA CreateKeepsSound ==
    ASSUME NEW b \in [TaskID -> Task], NEW n \in Nat, n + 1 \in TaskID, Sound(b, n)
    PROVE  LET c == [b EXCEPT ![n + 1] = NewTask]
           IN  /\ c \in [TaskID -> Task] /\ Sound(c, n + 1)
               /\ ~HasTask(b, n + 1)
               /\ c[n + 1].status = "pending" /\ c[n + 1].meta = NoMeta
<1> DEFINE c == [b EXCEPT ![n + 1] = NewTask]
<1>1. /\ NewTask \in Task /\ NewTask.blockedBy = {} /\ NewTask.blocks = {}
      /\ NewTask.status = "pending" /\ NewTask.meta = NoMeta
  BY DEF NewTask, NoTask, NoMeta, Task, Status
<1>2. ~HasTask(b, n + 1)
  BY TaskIDAssumption DEF Sound, Numbered, Live
<1>3. /\ b[n + 1].blockedBy = {} /\ b[n + 1].blocks = {}
      /\ \A x \in TaskID : n + 1 \notin b[x].blockedBy \cup b[x].blocks
  BY <1>2 DEF Sound, Mirrored, Task
<1>4. \A x \in TaskID : /\ c[x].blockedBy = b[x].blockedBy
                        /\ c[x].blocks = b[x].blocks
                        /\ HasTask(b, x) => HasTask(c, x)
                        /\ HasTask(c, x) => HasTask(b, x) \/ x = n + 1
  BY <1>1, <1>3 DEF HasTask
<1>5. c \in [TaskID -> Task] /\ c[n + 1] = NewTask
  BY <1>1
<1> HIDE DEF c
<1>6. Mirrored(c)
  BY <1>4 DEF Sound, Mirrored
<1>7. AcyclicBoard(c)
  BY <1>4, FewerEdgesAcyclic DEF Sound
<1>8. Numbered(c, n + 1)
  BY <1>4, TaskIDAssumption DEF Sound, Numbered, Live
<1> QED BY <1>1, <1>2, <1>5, <1>6, <1>7, <1>8 DEF Sound, c

\* What Delete leaves of the other tasks.
LEMMA DeletedBoard ==
    ASSUME NEW b \in [TaskID -> Task], NEW id \in TaskID
    PROVE  LET d == Deleted(b, id)
           IN  /\ d \in [TaskID -> Task]
               /\ d[id] = NoTask
               /\ \A x \in TaskID \ {id} :
                    /\ d[x].status = b[x].status
                    /\ d[x].meta = b[x].meta
                    /\ d[x].blocks = b[x].blocks \ {id}
                    /\ d[x].blockedBy = b[x].blockedBy \ {id}
<1> DEFINE d == Deleted(b, id)
<1>1. NoTask \in Task
  BY DEF NoTask, NoMeta, Task
<1>2. ASSUME NEW x \in TaskID \ {id}
      PROVE  /\ d[x] \in Task
             /\ d[x].status = b[x].status
             /\ d[x].meta = b[x].meta
             /\ d[x].blocks = b[x].blocks \ {id}
             /\ d[x].blockedBy = b[x].blockedBy \ {id}
  <2>1. d[x] = WithEdges(b[x], b[x].blocks \ {id}, b[x].blockedBy \ {id})
    BY DEF Deleted
  <2>2. /\ b[x] \in Task /\ b[x].blocks \ {id} \in SUBSET TaskID
        /\ b[x].blockedBy \ {id} \in SUBSET TaskID
    BY DEF Task
  <2>3. d[x].meta = b[x].meta
    BY <2>1, <2>2 DEF WithEdges, Task
  <2> HIDE DEF d
  <2>4. /\ WithEdges(b[x], b[x].blocks \ {id}, b[x].blockedBy \ {id}) \in Task
        /\ d[x].status = b[x].status
        /\ d[x].blocks = b[x].blocks \ {id}
        /\ d[x].blockedBy = b[x].blockedBy \ {id}
    BY <2>1, <2>2, WithEdgesTask
  <2> QED BY <2>1, <2>3, <2>4
<1>3. d[id] = NoTask /\ d = [x \in TaskID |-> d[x]]
  BY DEF Deleted
<1> HIDE DEF d
<1>4. d \in [TaskID -> Task]
  BY <1>1, <1>2, <1>3
<1> QED BY <1>2, <1>3, <1>4 DEF d

\* Delete keeps a board sound: both lists of every other task are scrubbed.
LEMMA DeleteKeepsSound ==
    ASSUME NEW b \in [TaskID -> Task], NEW n, NEW id \in TaskID, Sound(b, n)
    PROVE  Deleted(b, id) \in [TaskID -> Task] /\ Sound(Deleted(b, id), n)
<1> DEFINE d == Deleted(b, id)
<1>1. d \in [TaskID -> Task] /\ d[id] = NoTask
  BY DeletedBoard
<1>2. ASSUME NEW x \in TaskID
      PROVE  /\ HasTask(d, x) <=> x # id /\ HasTask(b, x)
             /\ d[x].blocks = IF x = id THEN {} ELSE b[x].blocks \ {id}
             /\ d[x].blockedBy = IF x = id THEN {} ELSE b[x].blockedBy \ {id}
  <2>1. CASE x = id
    BY <1>1, <2>1 DEF HasTask, NoTask
  <2>2. CASE x # id
    BY <2>2, DeletedBoard DEF HasTask
  <2> QED BY <2>1, <2>2
<1> HIDE DEF d
<1>3. Mirrored(d)
  <2> SUFFICES ASSUME NEW x \in TaskID, NEW y \in TaskID
               PROVE  /\ y \in d[x].blockedBy <=> x \in d[y].blocks
                      /\ y \in d[x].blockedBy => HasTask(d, x) /\ HasTask(d, y)
    BY DEF Mirrored
  <2>1. /\ y \in b[x].blockedBy <=> x \in b[y].blocks
        /\ y \in b[x].blockedBy => HasTask(b, x) /\ HasTask(b, y)
    BY DEF Sound, Mirrored
  <2>2. y \in d[x].blockedBy <=> x # id /\ y # id /\ y \in b[x].blockedBy
    BY <1>2
  <2>3. x \in d[y].blocks <=> x # id /\ y # id /\ x \in b[y].blocks
    BY <1>2
  <2> QED BY <1>2, <2>1, <2>2, <2>3
<1>4. AcyclicBoard(d)
  <2>1. \A x \in TaskID : d[x].blockedBy \subseteq b[x].blockedBy
    BY <1>2
  <2> QED BY <2>1, FewerEdgesAcyclic DEF Sound
<1>5. Numbered(d, n)
  BY <1>2 DEF Sound, Numbered, Live
<1> QED BY <1>1, <1>3, <1>4, <1>5 DEF Sound, d
=============================================================================
