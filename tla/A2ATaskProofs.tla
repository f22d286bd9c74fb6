---------------------------- MODULE A2ATaskProofs ----------------------------
(***************************************************************************)
(* The A2A task handler, for any number of tasks, messages and executions: *)
(* a task ends once, wakes those who wait for it whatever way it leaves    *)
(* its activity, can be cancelled as long as it runs, and runs a message   *)
(* that is sent again only once.                                           *)
(***************************************************************************)
EXTENDS A2ATask, TLAPS

-----------------------------------------------------------------------------
(* The inductive invariant *)

\* The generations given out so far, and no others, have executions, each of a task.
Births ==
    \A g \in Gen :
        IF g <= cancelGen THEN exec[g].of \in Task /\ exec[g].pc # "none"
        ELSE exec[g] = NoExec

\* An id that was not given out belongs to no task and no execution.
Fresh == \A t \in Task : task[t].state = "none" => t \notin tasks /\ ExecsOf(t) = {}

\* Beyond these the execution has no entry in cancels any more.
Past == {"canceled", "mark", "read", "store", "complete", "ended"}

\* Whoever calls a cancel function has taken or replaced the entry, in the same critical
\* section: an execution that finds itself cancelled, or has cleaned up, has none.
NoEntry ==
    \A g \in Gen : exec[g].ctx = "canceled" \/ exec[g].pc \in Past =>
        \A t \in Task : cancels[t] # g

\* The entry of a task is its newest execution's, from its start to its cleanup.
Entry(t) ==
    /\ cancels[t] # 0 => Newest(t, cancels[t])
    /\ \A g \in Gen :
           /\ t \in tasks /\ ~IsTerminal(task[t].state)
           /\ Newest(t, g) /\ exec[g].pc \in {"begin", "run"}
           => cancels[t] = g

Entries == \A t \in Task : Entry(t)

\* The index is the history of the remembered tasks, read backwards.
IndexIsHistory ==
    \A m \in Message : \A t \in tasks : m \in task[t].history <=> messageIndex[m] = t

\* What started an execution is in its task's history, once.
StartedOnce ==
    \A m \in Message :
        /\ \A g \in Gen : exec[g].by = m /\ exec[g].of \in tasks => m \in task[exec[g].of].history
        /\ \A g, h \in Gen :
               exec[g].by = m /\ exec[h].by = m /\ {exec[g].of, exec[h].of} \subseteq tasks => g = h

Inv ==
    /\ TypeOK /\ Births /\ Fresh /\ WaitersWoken
    /\ NoEntry /\ Entries
    /\ IndexIsHistory /\ StartedOnce

-----------------------------------------------------------------------------
(* Helpers *)

WorkState == {"working", "canceled", "failed", "completed"}

\* updateStatus keeps the history, never moves a task that has ended, and closes the
\* channel of those who wait when the task is no longer active.
LEMMA UpdatedRec ==
    ASSUME NEW r \in TaskRec, NEW s \in WorkState
    PROVE  /\ Updated(r, s) \in TaskRec
           /\ Updated(r, s).history = r.history
           /\ Updated(r, s).state \in {r.state, s}
           /\ IsTerminal(r.state) => Updated(r, s).state = r.state
           /\ (r.done => r.state \in {"submitted", "working"})
                 => (Updated(r, s).done => Updated(r, s).state \in {"submitted", "working"})
<1>1. CASE IsTerminal(r.state) \/ r.state = "input-required"
  BY <1>1 DEF Updated
<1>2. CASE ~(IsTerminal(r.state) \/ r.state = "input-required")
  <2> DEFINE d == r.done /\ ~IsTerminal(s)
  <2>1. Updated(r, s) = [r EXCEPT !.state = s, !.done = d]
    BY <1>2 DEF Updated
  <2>2. d \in BOOLEAN
    OBVIOUS
  <2>3. d => s = "working"
    BY DEF IsTerminal, WorkState
  <2>4. s \in State
    BY DEF WorkState, State
  <2> HIDE DEF d
  <2>5. /\ Updated(r, s) \in TaskRec
        /\ Updated(r, s).history = r.history
        /\ Updated(r, s).state = s /\ Updated(r, s).done = d
    BY <2>1, <2>2, <2>4 DEF TaskRec
  <2> QED BY <1>2, <2>3, <2>5
<1> QED BY <1>1, <1>2

\* Calling a cancel function changes the context of one execution, and nothing else.
LEMMA CancelledExec ==
    ASSUME TypeOK, NEW g
    PROVE  /\ Cancelled(exec, g) \in [Gen -> Exec]
           /\ \A h \in Gen :
                 /\ Cancelled(exec, g)[h].of = exec[h].of
                 /\ Cancelled(exec, g)[h].by = exec[h].by
                 /\ Cancelled(exec, g)[h].pc = exec[h].pc
                 /\ h # g => Cancelled(exec, g)[h] = exec[h]
                 /\ exec[h] = NoExec /\ h # g => Cancelled(exec, g)[h] = NoExec
<1> SUFFICES ASSUME NEW h \in Gen
             PROVE  /\ Cancelled(exec, g)[h] \in Exec
                    /\ Cancelled(exec, g)[h].of = exec[h].of
                    /\ Cancelled(exec, g)[h].by = exec[h].by
                    /\ Cancelled(exec, g)[h].pc = exec[h].pc
                    /\ h # g => Cancelled(exec, g)[h] = exec[h]
  BY DEF Cancelled
<1>1. exec[h] \in Exec
  BY DEF TypeOK
<1>2. CASE h = g /\ exec[h].ctx = "live"
  <2>1. Cancelled(exec, g)[h] = [exec[h] EXCEPT !.ctx = "canceled"]
    BY <1>2 DEF Cancelled
  <2> QED BY <1>1, <1>2, <2>1 DEF Exec
<1>3. CASE ~(h = g /\ exec[h].ctx = "live")
  BY <1>1, <1>3 DEF Cancelled
<1> QED BY <1>2, <1>3

-----------------------------------------------------------------------------
(* What an execution does in a step *)

\* A record of an execution with another place in it, and perhaps a dead context.
LEMMA ExecMoves ==
    ASSUME NEW e \in Exec, NEW l \in ExecPC, NEW f, f = [e EXCEPT !.pc = l]
    PROVE  f \in Exec /\ f.of = e.of /\ f.by = e.by /\ f.pc = l /\ f.ctx = e.ctx
BY DEF Exec

LEMMA GotoExec ==
    ASSUME TypeOK, NEW g \in Gen, NEW l \in ExecPC, Goto(g, l)
    PROVE  /\ exec' \in [Gen -> Exec]
           /\ \A h \in Gen : /\ exec'[h].of = exec[h].of /\ exec'[h].by = exec[h].by
                             /\ exec'[h].ctx = exec[h].ctx
                             /\ h # g => exec'[h] = exec[h]
           /\ exec'[g].pc = l
<1>1. \A h \in Gen : exec[h] \in Exec
  BY DEF TypeOK
<1>2. exec'[g] = [exec[g] EXCEPT !.pc = l] /\ \A h \in Gen \ {g} : exec'[h] = exec[h]
  BY DEF Goto, TypeOK
<1>3. exec'[g] \in Exec /\ exec'[g].of = exec[g].of /\ exec'[g].by = exec[g].by
      /\ exec'[g].pc = l /\ exec'[g].ctx = exec[g].ctx
  BY <1>1, <1>2, ExecMoves
<1>4. exec' = [exec EXCEPT ![g] = exec'[g]]
  BY <1>2 DEF Goto, TypeOK
<1>5. exec' \in [Gen -> Exec]
  BY <1>3, <1>4 DEF TypeOK
<1> QED BY <1>2, <1>3, <1>5

\* What all steps of an execution have in common: it moves on, and gives up the entry in
\* cancels when it passes its cleanup.
WorkStep(g) ==
    /\ UNCHANGED <<tasks, cancelGen, messageIndex>>
    /\ g <= cancelGen /\ exec[g].of \in Task
    /\ exec' \in [Gen -> Exec]
    /\ \A h \in Gen : /\ exec'[h].of = exec[h].of /\ exec'[h].by = exec[h].by
                      /\ h # g => exec'[h] = exec[h]
    /\ exec'[g].pc # "none"
    /\ exec'[g].pc \in {"begin", "run"} => exec[g].pc \in {"begin", "run"}
    /\ \/ /\ cancels' = cancels
          /\ exec'[g].ctx = "canceled" \/ exec'[g].pc \in Past =>
                \/ exec[g].pc \in Past \/ exec[g].ctx = "canceled"
                \/ cancels[exec[g].of] # g
       \/ /\ exec[g].pc \notin {"begin", "run"} /\ cancels[exec[g].of] = g
          /\ cancels' = [cancels EXCEPT ![exec[g].of] = 0]

\* It leaves the histories alone, and every task that has ended, and keeps nobody waiting
\* for a task that is not active.
TaskStep ==
    /\ task' \in [Task -> TaskRec]
    /\ \A t \in Task :
          /\ task'[t].history = task[t].history
          /\ task'[t].state = "none" <=> task[t].state = "none"
          /\ IsTerminal(task[t].state) => task'[t].state = task[t].state
          /\ (task[t].done => Active(t)) => (task'[t].done => Active(t)')

LEMMA WorkExec ==
    ASSUME TypeOK, Births, NEW g \in Gen, Expire(g) \/ execute(g)
    PROVE  WorkStep(g)
<1>1. UNCHANGED <<tasks, cancelGen, messageIndex>> /\ exec[g].pc # "none"
  BY DEF Expire, execute, Begin, Return, SeeCanceled, MarkCanceled, Fail, CloseDone, CleanUp,
         ReadState, StoreArtifact, Complete
<1>2. g <= cancelGen /\ exec[g].of \in Task
  BY <1>1 DEF Births, NoExec
<1>3. ASSUME NEW l \in ExecPC \ {"none"}, Goto(g, l), UNCHANGED cancels,
             l \in {"begin", "run"} => exec[g].pc \in {"begin", "run"},
             l \in Past => \/ exec[g].pc \in Past \/ exec[g].ctx = "canceled"
                           \/ cancels[exec[g].of] # g
      PROVE  WorkStep(g)
  BY <1>1, <1>2, <1>3, GotoExec DEF WorkStep
<1>4. CASE Expire(g)
  <2>1. exec[g] \in Exec
    BY DEF TypeOK
  <2>2. [exec[g] EXCEPT !.ctx = "expired"] \in Exec
    BY <2>1 DEF Exec
  <2>3. exec' = [exec EXCEPT ![g] = [exec[g] EXCEPT !.ctx = "expired"]] /\ UNCHANGED cancels
        /\ exec[g].pc = "run"
    BY <1>4 DEF Expire
  <2>4. /\ exec' \in [Gen -> Exec]
        /\ \A h \in Gen \ {g} : exec'[h] = exec[h]
        /\ exec'[g] = [exec[g] EXCEPT !.ctx = "expired"]
    BY <2>2, <2>3 DEF TypeOK
  <2>5. /\ exec'[g].of = exec[g].of /\ exec'[g].by = exec[g].by /\ exec'[g].pc = exec[g].pc
        /\ exec'[g].ctx = "expired"
    BY <2>1, <2>4 DEF Exec
  <2>6. \A h \in Gen : /\ exec'[h].of = exec[h].of /\ exec'[h].by = exec[h].by
                       /\ h # g => exec'[h] = exec[h]
    BY <2>4, <2>5
  <2>7. exec'[g].pc = "run" /\ exec'[g].ctx # "canceled"
    BY <2>3, <2>5
  <2>8. exec'[g].pc \notin Past /\ exec'[g].pc # "none"
    BY <2>7 DEF Past
  <2>9. cancels' = cancels /\ exec[g].pc \in {"begin", "run"}
    BY <2>3
  <2>10. exec' \in [Gen -> Exec]
    BY <2>4
  <2> QED BY <1>1, <1>2, <2>6, <2>7, <2>8, <2>9, <2>10 DEF WorkStep
<1>5. CASE Begin(g) \/ MarkCanceled(g) \/ Fail(g) \/ CloseDone(g) \/ ReadState(g)
           \/ StoreArtifact(g) \/ Complete(g)
  <2>1. /\ UNCHANGED cancels
        /\ \E l \in ExecPC \ {"none"} :
              /\ Goto(g, l)
              /\ \/ l = "run" /\ exec[g].pc = "begin"
                 \/ l \in {"cleanup", "close"}
                 \/ l \notin {"begin", "run"} /\ exec[g].pc \in Past
    BY <1>5 DEF Begin, MarkCanceled, Fail, CloseDone, ReadState, StoreArtifact, Complete, Past,
                ExecPC
  <2> QED BY <1>3, <2>1 DEF Past
<1>6. CASE Return(g)
  <2>1. /\ UNCHANGED cancels
        /\ \E l \in {"failed", "succeeded", "panicked", "canceled"} :
              Goto(g, l) /\ (l = "canceled" => exec[g].ctx = "canceled")
    BY <1>6 DEF Return
  <2> QED BY <1>3, <2>1 DEF Past, ExecPC
<1>7. CASE SeeCanceled(g)
  <2>1. /\ UNCHANGED cancels /\ exec[g].pc \in Past
        /\ \E l \in {"mark", "ended"} : Goto(g, l)
    BY <1>7 DEF SeeCanceled, Past
  <2> QED BY <1>3, <2>1 DEF Past, ExecPC
<1>8. ASSUME NEW l \in {"ended", "read"}, cleanupCancelIf(g, l),
             exec[g].pc \notin {"begin", "run"}
      PROVE  WorkStep(g)
  <2>1. CASE cancels[exec[g].of] # g
    BY <1>3, <1>8, <2>1 DEF cleanupCancelIf, ExecPC
  <2>2. CASE cancels[exec[g].of] = g
    <3>1. /\ cancels' = [cancels EXCEPT ![exec[g].of] = 0]
          /\ exec' = [Cancelled(exec, g) EXCEPT ![g].pc = l]
      BY <1>8, <2>2 DEF cleanupCancelIf
    <3> DEFINE e == Cancelled(exec, g)
    <3>2. /\ e \in [Gen -> Exec]
          /\ \A h \in Gen : /\ e[h].of = exec[h].of /\ e[h].by = exec[h].by
                            /\ h # g => e[h] = exec[h]
      BY CancelledExec
    <3> HIDE DEF e
    <3>3. exec'[g] = [e[g] EXCEPT !.pc = l] /\ \A h \in Gen \ {g} : exec'[h] = e[h]
      BY <3>1, <3>2 DEF e
    <3>4. /\ exec'[g] \in Exec /\ exec'[g].of = exec[g].of /\ exec'[g].by = exec[g].by
          /\ exec'[g].pc = l
      BY <1>8, <3>2, <3>3, ExecMoves DEF ExecPC
    <3>5. exec' = [e EXCEPT ![g] = exec'[g]]
      BY <3>1, <3>2, <3>3 DEF e
    <3>6. exec' \in [Gen -> Exec]
      BY <3>2, <3>4, <3>5
    <3> QED BY <1>1, <1>2, <1>8, <2>2, <3>1, <3>2, <3>3, <3>4, <3>6 DEF WorkStep
  <2> QED BY <2>1, <2>2
<1>9. CASE CleanUp(g)
  BY <1>8, <1>9 DEF CleanUp
<1> QED BY <1>4, <1>5, <1>6, <1>7, <1>9 DEF execute

LEMMA WorkTask ==
    ASSUME TypeOK, Births, Fresh, NEW g \in Gen, Expire(g) \/ execute(g)
    PROVE  TaskStep
<1>1. exec[g].of \in Task
  BY WorkExec DEF WorkStep
<1>2. ASSUME NEW r \in TaskRec, task' = [task EXCEPT ![exec[g].of] = r],
             r.history = task[exec[g].of].history,
             r.state # "none",
             IsTerminal(task[exec[g].of].state) => r.state = task[exec[g].of].state,
             (task[exec[g].of].done => Active(exec[g].of)) =>
                 (r.done => r.state \in {"submitted", "working"})
      PROVE  TaskStep
  <2>1. task[exec[g].of].state # "none"
    BY <1>1 DEF Fresh, ExecsOf
  <2> QED BY <1>1, <1>2, <2>1 DEF TaskStep, TypeOK, Active
<1>3. ASSUME NEW s \in WorkState, updateStatus(exec[g].of, s) PROVE TaskStep
  <2>1. task[exec[g].of] \in TaskRec /\ task[exec[g].of].state # "none"
    BY <1>1 DEF TypeOK, Fresh, ExecsOf
  <2>2. task' = [task EXCEPT ![exec[g].of] = Updated(task[exec[g].of], s)]
    BY <1>3 DEF updateStatus
  <2>3. Updated(task[exec[g].of], s).state # "none"
    BY <2>1, UpdatedRec DEF WorkState
  <2> QED BY <1>2, <2>1, <2>2, <2>3, UpdatedRec DEF Active
<1>4. CASE UNCHANGED task
  BY <1>4 DEF TaskStep, TypeOK, Active
<1>5. CASE CloseDone(g) \/ StoreArtifact(g)
  <2> DEFINE r == task[exec[g].of]
             c == [r EXCEPT !.done = FALSE]
             d == [r EXCEPT !.artifact = g]
  <2>1. task' = [task EXCEPT ![exec[g].of] = c] \/ task' = [task EXCEPT ![exec[g].of] = d]
    BY <1>5 DEF CloseDone, StoreArtifact
  <2>2. r \in TaskRec /\ r.state # "none"
    BY <1>1 DEF TypeOK, Fresh, ExecsOf
  <2>3. g \in 0 .. MaxGen
    BY A2ATaskAssumption DEF Gen
  <2>4. c \in TaskRec /\ c.history = r.history /\ c.state = r.state /\ ~c.done
    BY <2>2 DEF TaskRec
  <2>5. d \in TaskRec /\ d.history = r.history /\ d.state = r.state /\ d.done = r.done
    BY <2>2, <2>3 DEF TaskRec
  <2> QED BY <1>2, <2>1, <2>2, <2>4, <2>5 DEF Active
<1> QED BY <1>3, <1>4, <1>5
        DEF Expire, execute, Begin, Return, SeeCanceled, MarkCanceled, Fail, CleanUp,
            ReadState, Complete, WorkState

-----------------------------------------------------------------------------
(* What starting an execution does *)

\* An execution starts with the next generation, which has the task's entry from then
\* on; of the executions before it at most one has lost its context.
LaunchStep(cs, es, t, m) ==
    LET n == cancelGen + 1 IN
    /\ n \in Gen /\ cancelGen' = n
    /\ cancels' \in [Task -> 0 .. MaxGen] /\ cancels'[t] = n
    /\ \A u \in Task \ {t} : cancels'[u] = cs[u]
    /\ exec' \in [Gen -> Exec]
    /\ exec'[n].of = t /\ exec'[n].by = m /\ exec'[n].pc = "begin" /\ exec'[n].ctx = "live"
    /\ \A h \in Gen \ {n} : /\ exec'[h].of = exec[h].of /\ exec'[h].by = exec[h].by
                            /\ exec'[h].pc = exec[h].pc /\ exec'[h].ctx = es[h].ctx
                            /\ h > n => exec'[h] = NoExec
    /\ exec[n] = NoExec

LEMMA LaunchEffect ==
    ASSUME TypeOK, Births, NEW t \in Task, NEW m \in Message \cup {NoID},
           NEW cs \in [Task -> 0 .. MaxGen], NEW c \in 0 .. cancelGen,
           NEW es \in {exec, Cancelled(exec, c)}, Launch(cs, es, t, m)
    PROVE  LaunchStep(cs, es, t, m)
<1> DEFINE n == cancelGen + 1
           e == [of |-> t, by |-> m, pc |-> "begin", ctx |-> "live"]
<1>1. n \in Gen /\ cancelGen' = n /\ n \in Nat /\ c < n
  BY A2ATaskAssumption DEF Launch, TypeOK, Gen
<1>2. cancels' = [cs EXCEPT ![t] = n] /\ exec' = [es EXCEPT ![n] = e]
  BY DEF Launch
<1>3. e \in Exec /\ e.of = t /\ e.by = m /\ e.pc = "begin" /\ e.ctx = "live"
  BY DEF Exec, ExecPC
<1>4. /\ es \in [Gen -> Exec]
      /\ \A h \in Gen : /\ es[h].of = exec[h].of /\ es[h].by = exec[h].by /\ es[h].pc = exec[h].pc
                        /\ exec[h] = NoExec /\ h # c => es[h] = NoExec
  <2>1. CASE es = exec
    BY <2>1 DEF TypeOK
  <2>2. CASE es = Cancelled(exec, c)
    BY <2>2, CancelledExec
  <2> QED BY <2>1, <2>2
<1>5. n \in 0 .. MaxGen
  BY <1>1, A2ATaskAssumption DEF Gen
<1>6. exec[n] = NoExec /\ \A h \in Gen : h > n => exec[h] = NoExec
  BY <1>1 DEF Births, TypeOK, Gen
<1> HIDE DEF n, e
<1>7. /\ cancels' \in [Task -> 0 .. MaxGen] /\ cancels'[t] = n
      /\ \A u \in Task \ {t} : cancels'[u] = cs[u]
  BY <1>2, <1>5
<1>8. /\ exec' \in [Gen -> Exec] /\ exec'[n] = e
      /\ \A h \in Gen \ {n} : exec'[h] = es[h]
  BY <1>1, <1>2, <1>3, <1>4
<1>9. \A h \in Gen : h > n => h # n /\ h # c
  BY <1>1, A2ATaskAssumption DEF Gen, TypeOK
<1> QED BY <1>1, <1>3, <1>4, <1>6, <1>7, <1>8, <1>9 DEF LaunchStep, n

\* The cases of Handle.
NoRoom(t, old) ==
    LET live == tasks \ old IN
    /\ task[t].state = "none" /\ old \subseteq Expirable
    /\ tasks' = live
    /\ messageIndex' = [n \in Message |-> IF messageIndex[n] \in live THEN messageIndex[n] ELSE NoTask]
    /\ cancels' = [u \in Task |-> IF u \in old THEN 0 ELSE cancels[u]]
    /\ UNCHANGED <<task, cancelGen, exec>>

NewRec(m) == [state |-> "submitted", done |-> TRUE, artifact |-> 0, history |-> {m} \ {NoID}]

Entered(t, m, old) ==
    LET live == tasks \ old IN
    /\ ~Known(m) /\ task[t].state = "none" /\ old \subseteq Expirable
    /\ tasks' = live \cup {t}
    /\ messageIndex' =
         Indexed([n \in Message |-> IF messageIndex[n] \in live THEN messageIndex[n] ELSE NoTask], m, t)
    /\ task' = [task EXCEPT ![t] = NewRec(m)]
    /\ LaunchStep([u \in Task |-> IF u \in old THEN 0 ELSE cancels[u]], exec, t, m)

LEMMA HandleCases ==
    ASSUME TypeOK, Births, NEW t \in Task, NEW m \in Message \cup {NoID}, NEW old \in SUBSET Expirable,
           Handle(m, t, old)
    PROVE  NoRoom(t, old) \/ Entered(t, m, old)
<1>1. CASE Cardinality(Running(tasks \ old)) >= MaxTasks
  BY <1>1 DEF Handle, NoRoom
<1>2. CASE ~(Cardinality(Running(tasks \ old)) >= MaxTasks)
  <2> DEFINE cs == [u \in Task |-> IF u \in old THEN 0 ELSE cancels[u]]
  <2>1. Launch(cs, exec, t, m)
    BY <1>2 DEF Handle
  <2>2. cs \in [Task -> 0 .. MaxGen] /\ 0 \in 0 .. cancelGen
    BY A2ATaskAssumption DEF TypeOK
  <2> HIDE DEF cs
  <2>3. LaunchStep(cs, exec, t, m)
    BY <2>1, <2>2, LaunchEffect
  <2> QED BY <1>2, <2>3 DEF Handle, Entered, NewRec, cs
<1> QED BY <1>1, <1>2

\* continueTask: the execution that has the entry is cancelled.
Resumed(t, m) ==
    /\ t \in tasks /\ (m # NoID => messageIndex[m] = NoTask)
    /\ task[t].state = "input-required"
    /\ task' = [task EXCEPT ![t] = [task[t] EXCEPT !.state = "working", !.done = TRUE,
                                        !.history = task[t].history \cup ({m} \ {NoID})]]
    /\ messageIndex' = Indexed(messageIndex, m, t)
    /\ LaunchStep(cancels, Cancelled(exec, cancels[t]), t, m)
    /\ UNCHANGED tasks

LEMMA EntryBorn ==
    ASSUME TypeOK, Births, Entries, NEW t \in Task
    PROVE  cancels[t] \in 0 .. cancelGen /\ (cancels[t] # 0 => exec[cancels[t]].of = t)
<1>1. CASE cancels[t] = 0
  BY <1>1, A2ATaskAssumption DEF TypeOK
<1>2. CASE cancels[t] # 0
  <2>1. cancels[t] \in Gen /\ exec[cancels[t]].of = t
    BY <1>2 DEF Entries, Entry, Newest, ExecsOf
  <2>2. exec[cancels[t]] # NoExec
    BY <2>1, A2ATaskAssumption DEF NoExec
  <2> QED BY <2>1, <2>2 DEF Births, Gen, TypeOK
<1> QED BY <1>1, <1>2

LEMMA ContinueCase ==
    ASSUME TypeOK, Births, Entries, NEW t \in Task, NEW m \in Message \cup {NoID}, continueTask(t, m)
    PROVE  Resumed(t, m)
<1>1. cancels \in [Task -> 0 .. MaxGen] /\ cancels[t] \in 0 .. cancelGen
  BY EntryBorn DEF TypeOK
<1>2. Launch(cancels, Cancelled(exec, cancels[t]), t, m)
  BY DEF continueTask
<1>3. LaunchStep(cancels, Cancelled(exec, cancels[t]), t, m)
  BY <1>1, <1>2, LaunchEffect
<1> QED BY <1>3 DEF continueTask, Resumed

-----------------------------------------------------------------------------
(* The steps, in one list *)

Ended(t) ==
    /\ t \in tasks /\ ~IsTerminal(task[t].state)
    /\ task' = [task EXCEPT ![t] = [task[t] EXCEPT !.state = "canceled", !.done = FALSE]]
    /\ exec' = Cancelled(exec, cancels[t])
    /\ cancels' = [cancels EXCEPT ![t] = 0]
    /\ UNCHANGED <<tasks, cancelGen, messageIndex>>

Asked(t) ==
    /\ t \in tasks /\ task[t].state = "working"
    /\ task' = [task EXCEPT ![t] = [task[t] EXCEPT !.state = "input-required", !.done = FALSE]]
    /\ UNCHANGED <<tasks, cancels, cancelGen, messageIndex, exec>>

Step ==
    \/ \E t \in Task, old \in SUBSET tasks : NoRoom(t, old)
    \/ \E t \in Task, m \in Message \cup {NoID}, old \in SUBSET tasks : Entered(t, m, old)
    \/ \E t \in Task, m \in Message \cup {NoID} : Resumed(t, m)
    \/ \E t \in Task : Ended(t) \/ Asked(t)
    \/ \E g \in Gen : WorkStep(g) /\ TaskStep
    \/ UNCHANGED vars

LEMMA NextSteps ==
    ASSUME TypeOK, Births, Fresh, Entries, [Next]_vars
    PROVE  Step
<1>1. ASSUME NEW t \in Task, NEW m \in Message \cup {NoID}, NEW old \in SUBSET Expirable,
             Handle(m, t, old)
      PROVE  Step
  <2>1. old \in SUBSET tasks
    BY DEF Expirable
  <2> QED BY <1>1, <2>1, HandleCases DEF Step
<1>2. ASSUME NEW t \in Task, NEW m \in Message \cup {NoID}, continueTask(t, m) PROVE Step
  BY <1>2, ContinueCase DEF Step
<1>3. ASSUME NEW t \in Task, CancelTask(t) PROVE Step
  BY <1>3 DEF CancelTask, Step, Ended
<1>4. ASSUME NEW t \in Task, RequestInput(t) PROVE Step
  BY <1>4 DEF RequestInput, Step, Asked
<1>5. ASSUME NEW g \in Gen, Expire(g) \/ execute(g) PROVE Step
  BY <1>5, WorkExec, WorkTask DEF Step
<1> QED BY <1>1, <1>2, <1>3, <1>4, <1>5 DEF Next, Step

LEMMA NewRecType ==
    ASSUME NEW m \in Message \cup {NoID}
    PROVE  /\ NewRec(m) \in TaskRec /\ NewRec(m).state = "submitted" /\ NewRec(m).done = TRUE
           /\ NewRec(m).history = {m} \ {NoID}
<1>1. 0 \in 0 .. MaxGen /\ {m} \ {NoID} \in SUBSET Message
  BY A2ATaskAssumption
<1> QED BY <1>1 DEF NewRec, TaskRec, State

LEMMA IndexedType ==
    ASSUME NEW f \in [Message -> Task \cup {NoTask}], NEW m, NEW t \in Task
    PROVE  /\ Indexed(f, m, t) \in [Message -> Task \cup {NoTask}]
           /\ \A n \in Message : Indexed(f, m, t)[n] = IF n = m THEN t ELSE f[n]
BY DEF Indexed

\* The index without the entries of forgotten tasks.
LEMMA KeptIndex ==
    ASSUME TypeOK, NEW live \in SUBSET tasks, NEW f,
           f = [n \in Message |-> IF messageIndex[n] \in live THEN messageIndex[n] ELSE NoTask]
    PROVE  /\ f \in [Message -> Task \cup {NoTask}]
           /\ \A n \in Message : \A t \in Task : f[n] = t <=> t \in live /\ messageIndex[n] = t
BY A2ATaskAssumption DEF TypeOK

\* What a step makes of the tasks.
TasksMove ==
    /\ task' \in [Task -> TaskRec]
    /\ \A t \in Task :
          /\ task[t].state # "none" => task'[t].state # "none"
          /\ IsTerminal(task[t].state) => task'[t].state = task[t].state
          /\ (task[t].done => Active(t)) => (task'[t].done => Active(t)')

LEMMA StepTasks ==
    ASSUME TypeOK, Step
    PROVE  TasksMove
<1>1. ASSUME NEW t \in Task, NEW r \in TaskRec, task' = [task EXCEPT ![t] = r],
             ~IsTerminal(task[t].state),
             r.state # "none", r.done => r.state \in {"submitted", "working"}
      PROVE  TasksMove
  BY <1>1 DEF TasksMove, TypeOK, Active
<1>2. CASE UNCHANGED task
  BY <1>2 DEF TasksMove, TypeOK, Active
<1>3. ASSUME NEW t \in Task, NEW m \in Message \cup {NoID}, NEW old \in SUBSET tasks,
             Entered(t, m, old)
      PROVE  TasksMove
  <2>1. task[t].state = "none" /\ task' = [task EXCEPT ![t] = NewRec(m)]
    BY <1>3 DEF Entered
  <2>2. ~IsTerminal(task[t].state)
    BY <2>1 DEF IsTerminal
  <2> QED BY <1>1, <2>1, <2>2, NewRecType
<1>4. ASSUME NEW t \in Task, NEW m \in Message \cup {NoID}, Resumed(t, m) PROVE TasksMove
  <2> DEFINE hist == task[t].history \cup ({m} \ {NoID})
             r == [task[t] EXCEPT !.state = "working", !.done = TRUE, !.history = hist]
  <2>1. task[t].state = "input-required" /\ task' = [task EXCEPT ![t] = r]
    BY <1>4 DEF Resumed
  <2>2. task[t] \in TaskRec
    BY DEF TypeOK
  <2>3. hist \in SUBSET Message
    BY <2>2 DEF TaskRec
  <2> HIDE DEF hist
  <2>4. r \in TaskRec /\ r.state = "working"
    BY <2>2, <2>3 DEF TaskRec, State
  <2>5. ~IsTerminal(task[t].state)
    BY <2>1 DEF IsTerminal
  <2> HIDE DEF r
  <2> QED BY <1>1, <2>1, <2>4, <2>5
<1>5. ASSUME NEW t \in Task, Ended(t) \/ Asked(t) PROVE TasksMove
  <2>1. PICK s \in {"canceled", "input-required"} :
            task' = [task EXCEPT ![t] = [task[t] EXCEPT !.state = s, !.done = FALSE]]
    BY <1>5 DEF Ended, Asked
  <2> DEFINE r == [task[t] EXCEPT !.state = s, !.done = FALSE]
  <2>2. task[t] \in TaskRec
    BY DEF TypeOK
  <2>3. r \in TaskRec /\ r.state = s /\ r.done = FALSE
    BY <2>2 DEF TaskRec, State
  <2>4. ~IsTerminal(task[t].state)
    BY <1>5 DEF Ended, Asked, IsTerminal
  <2> HIDE DEF r
  <2>5. task' = [task EXCEPT ![t] = r]
    BY <2>1 DEF r
  <2> QED BY <1>1, <2>3, <2>4, <2>5
<1>6. CASE TaskStep
  BY <1>6 DEF TaskStep, TasksMove
<1> QED BY <1>2, <1>3, <1>4, <1>5, <1>6 DEF Step, NoRoom, vars

LEMMA NextType == TypeOK /\ Births /\ Entries /\ Step => TypeOK'
<1> SUFFICES ASSUME TypeOK, Births, Entries, Step PROVE TypeOK'
  OBVIOUS
<1>1. task' \in [Task -> TaskRec]
  BY StepTasks DEF TasksMove
<1>2. ASSUME NEW t \in Task, NEW old \in SUBSET tasks, NoRoom(t, old) PROVE TypeOK'
  <2>1. messageIndex' \in [Message -> Task \cup {NoTask}]
    BY <1>2, KeptIndex DEF NoRoom
  <2>2. cancels' \in [Task -> 0 .. MaxGen]
    BY <1>2, A2ATaskAssumption DEF NoRoom, TypeOK
  <2> QED BY <1>1, <1>2, <2>1, <2>2 DEF NoRoom, TypeOK
<1>3. ASSUME NEW cs, NEW es, NEW t \in Task, NEW m, LaunchStep(cs, es, t, m)
      PROVE  cancels' \in [Task -> 0 .. MaxGen] /\ exec' \in [Gen -> Exec]
             /\ cancelGen' \in 0 .. MaxGen
  BY <1>3, A2ATaskAssumption DEF LaunchStep, Gen
<1>4. ASSUME NEW t \in Task, NEW m \in Message \cup {NoID}, NEW old \in SUBSET tasks,
             Entered(t, m, old)
      PROVE  TypeOK'
  <2> DEFINE f == [n \in Message |-> IF messageIndex[n] \in tasks \ old THEN messageIndex[n] ELSE NoTask]
  <2>1. f \in [Message -> Task \cup {NoTask}]
    BY KeptIndex
  <2>2. messageIndex' = Indexed(f, m, t)
    BY <1>4 DEF Entered
  <2> HIDE DEF f
  <2>3. messageIndex' \in [Message -> Task \cup {NoTask}]
    BY <2>1, <2>2, IndexedType
  <2>4. tasks' \subseteq Task
    BY <1>4 DEF Entered, TypeOK
  <2>5. \E cs : LaunchStep(cs, exec, t, m)
    BY <1>4 DEF Entered
  <2> QED BY <1>1, <1>3, <2>3, <2>4, <2>5 DEF TypeOK
<1>5. ASSUME NEW t \in Task, NEW m \in Message \cup {NoID}, Resumed(t, m) PROVE TypeOK'
  <2>1. messageIndex' \in [Message -> Task \cup {NoTask}]
    BY <1>5, IndexedType DEF Resumed, TypeOK
  <2>2. tasks' \subseteq Task
    BY <1>5 DEF Resumed, TypeOK
  <2>3. LaunchStep(cancels, Cancelled(exec, cancels[t]), t, m)
    BY <1>5 DEF Resumed
  <2> QED BY <1>1, <1>3, <2>1, <2>2, <2>3 DEF TypeOK
<1>6. ASSUME NEW t \in Task, Ended(t) \/ Asked(t) PROVE TypeOK'
  <2>1. exec' \in [Gen -> Exec]
    BY <1>6, CancelledExec DEF Ended, Asked, TypeOK
  <2>2. cancels' \in [Task -> 0 .. MaxGen]
    BY <1>6, A2ATaskAssumption DEF Ended, Asked, TypeOK
  <2> QED BY <1>1, <1>6, <2>1, <2>2 DEF Ended, Asked, TypeOK
<1>7. ASSUME NEW g \in Gen, WorkStep(g) PROVE TypeOK'
  <2>1. cancels' \in [Task -> 0 .. MaxGen]
    BY <1>7, A2ATaskAssumption DEF WorkStep, TypeOK
  <2> QED BY <1>1, <1>7, <2>1 DEF WorkStep, TypeOK
<1>8. CASE UNCHANGED vars
  BY <1>8 DEF vars, TypeOK
<1> QED BY <1>2, <1>4, <1>5, <1>6, <1>7, <1>8 DEF Step

-----------------------------------------------------------------------------
(* The parts of the invariant *)

LEMMA NextBirths == TypeOK /\ Births /\ Entries /\ Step => Births'
<1> SUFFICES ASSUME TypeOK, Births, Entries, Step PROVE Births'
  OBVIOUS
<1>1. ASSUME NEW cs, NEW es, NEW t \in Task, NEW m, LaunchStep(cs, es, t, m) PROVE Births'
  <2>1. PICK n \in Gen : n = cancelGen + 1 /\ cancelGen' = n
    BY <1>1 DEF LaunchStep
  <2>2. exec'[n].of \in Task /\ exec'[n].pc # "none"
    BY <1>1, <2>1 DEF LaunchStep
  <2>3. \A h \in Gen \ {n} : /\ exec'[h].of = exec[h].of /\ exec'[h].pc = exec[h].pc
                             /\ h > n => exec'[h] = NoExec
    BY <1>1, <2>1 DEF LaunchStep
  <2>4. \A h \in Gen : h <= n => h = n \/ h <= cancelGen
    BY <2>1, A2ATaskAssumption DEF Gen, TypeOK
  <2>5. \A h \in Gen : ~(h <= n) => h # n /\ h > n
    BY A2ATaskAssumption DEF Gen
  <2> QED BY <2>1, <2>2, <2>3, <2>4, <2>5 DEF Births
<1>2. ASSUME NEW t \in Task, Ended(t) PROVE Births'
  <2>1. cancelGen' = cancelGen /\ exec' = Cancelled(exec, cancels[t])
    BY <1>2 DEF Ended
  <2>2. cancels[t] <= cancelGen /\ cancelGen \in Nat /\ cancels[t] \in Nat
    BY EntryBorn DEF TypeOK
  <2>3. \A h \in Gen : ~(h <= cancelGen) => h # cancels[t]
    BY <2>2 DEF Gen
  <2> QED BY <2>1, <2>3, CancelledExec DEF Births
<1>3. ASSUME NEW g \in Gen, WorkStep(g) PROVE Births'
  BY <1>3 DEF WorkStep, Births
<1>4. CASE UNCHANGED <<cancelGen, exec>>
  BY <1>4 DEF Births
<1> QED BY <1>1, <1>2, <1>3, <1>4 DEF Step, NoRoom, Entered, Resumed, Asked, vars

LEMMA NextFresh == TypeOK /\ Fresh /\ Step => Fresh'
<1> SUFFICES ASSUME TypeOK, Fresh, Step, NEW u \in Task, task'[u].state = "none"
             PROVE  u \notin tasks' /\ ExecsOf(u)' = {}
  BY DEF Fresh
<1>1. task[u].state = "none" /\ u \notin tasks /\ ExecsOf(u) = {}
  BY StepTasks DEF TasksMove, Fresh
<1>2. ASSUME NEW cs, NEW es, NEW t \in Task \ {u}, NEW m, LaunchStep(cs, es, t, m)
      PROVE  ExecsOf(u)' = {}
  BY <1>1, <1>2 DEF LaunchStep, ExecsOf
<1>3. ASSUME NEW t \in Task, NEW m \in Message \cup {NoID}, NEW old \in SUBSET tasks,
             Entered(t, m, old)
      PROVE  u \notin tasks' /\ ExecsOf(u)' = {}
  <2>1. task'[t].state = "submitted"
    BY <1>3, NewRecType DEF Entered, TypeOK
  <2>2. u # t
    BY <2>1
  <2> QED BY <1>1, <1>2, <1>3, <2>2 DEF Entered
<1>4. ASSUME NEW t \in Task, NEW m \in Message \cup {NoID}, Resumed(t, m)
      PROVE  u \notin tasks' /\ ExecsOf(u)' = {}
  BY <1>1, <1>2, <1>4 DEF Resumed
<1>5. ASSUME NEW t \in Task, Ended(t)
      PROVE  u \notin tasks' /\ ExecsOf(u)' = {}
  BY <1>1, <1>5, CancelledExec DEF Ended, ExecsOf
<1>6. ASSUME NEW g \in Gen, WorkStep(g)
      PROVE  u \notin tasks' /\ ExecsOf(u)' = {}
  BY <1>1, <1>6 DEF WorkStep, ExecsOf
<1>7. CASE tasks' \subseteq tasks /\ UNCHANGED exec
  BY <1>1, <1>7 DEF ExecsOf
<1> QED BY <1>3, <1>4, <1>5, <1>6, <1>7 DEF Step, NoRoom, Asked, vars

LEMMA NextNoEntry == TypeOK /\ Births /\ Entries /\ NoEntry /\ Step => NoEntry'
<1> SUFFICES ASSUME TypeOK, Births, Entries, NoEntry, Step, NEW h \in Gen,
                    exec'[h].ctx = "canceled" \/ exec'[h].pc \in Past, NEW u \in Task
             PROVE  cancels'[u] # h
  BY DEF NoEntry
<1>0. h # 0 /\ h \in Nat
  BY A2ATaskAssumption DEF Gen
<1>1. \A t \in Task : cancels[t] = h => exec[h].of = t
  BY <1>0 DEF Entries, Entry, Newest, ExecsOf
<1>2. ASSUME NEW cs, NEW es, NEW t \in Task, NEW m, LaunchStep(cs, es, t, m),
             \A v \in Task \ {t} : cs[v] \in {0, cancels[v]},
             es[h].ctx = exec[h].ctx \/ cancels[t] = h
      PROVE  cancels'[u] # h
  <2>1. h # cancelGen + 1
    BY <1>2 DEF LaunchStep, Past
  <2>2. CASE u = t
    BY <1>2, <2>1, <2>2 DEF LaunchStep
  <2>3. CASE u # t
    <3>1. cancels'[u] \in {0, cancels[u]} /\ exec'[h].pc = exec[h].pc /\ exec'[h].ctx = es[h].ctx
      BY <1>2, <2>1, <2>3 DEF LaunchStep
    <3> QED BY <1>0, <1>1, <1>2, <2>3, <3>1 DEF NoEntry
  <2> QED BY <2>2, <2>3
<1>3. ASSUME NEW t \in Task, NEW m \in Message \cup {NoID}, NEW old \in SUBSET tasks,
             Entered(t, m, old)
      PROVE  cancels'[u] # h
  BY <1>2, <1>3 DEF Entered
<1>4. ASSUME NEW t \in Task, NEW m \in Message \cup {NoID}, Resumed(t, m) PROVE cancels'[u] # h
  <2>1. LaunchStep(cancels, Cancelled(exec, cancels[t]), t, m)
    BY <1>4 DEF Resumed
  <2>2. Cancelled(exec, cancels[t])[h].ctx = exec[h].ctx \/ cancels[t] = h
    BY CancelledExec
  <2> QED BY <1>2, <2>1, <2>2
<1>5. ASSUME NEW t \in Task, Ended(t) PROVE cancels'[u] # h
  <2>1. exec' = Cancelled(exec, cancels[t]) /\ cancels' = [cancels EXCEPT ![t] = 0]
    BY <1>5 DEF Ended
  <2>2. exec'[h].pc = exec[h].pc /\ (exec'[h].ctx = exec[h].ctx \/ cancels[t] = h)
    BY <2>1, CancelledExec
  <2> QED BY <1>0, <1>1, <2>1, <2>2 DEF NoEntry, TypeOK
<1>6. ASSUME NEW g \in Gen, WorkStep(g) PROVE cancels'[u] # h
  <2>1. CASE h # g
    BY <1>0, <1>6, <2>1 DEF WorkStep, NoEntry, TypeOK
  <2>2. CASE h = g
    BY <1>0, <1>1, <1>6, <2>2 DEF WorkStep, NoEntry, TypeOK
  <2> QED BY <2>1, <2>2
<1>7. ASSUME NEW t \in Task, NEW old \in SUBSET tasks, NoRoom(t, old) PROVE cancels'[u] # h
  BY <1>0, <1>7 DEF NoRoom, NoEntry
<1>8. CASE UNCHANGED <<cancels, exec>>
  BY <1>8 DEF NoEntry
<1> QED BY <1>3, <1>4, <1>5, <1>6, <1>7, <1>8 DEF Step, Asked, vars

LEMMA NextEntries == TypeOK /\ Births /\ Entries /\ Fresh /\ Step => Entries'
<1> SUFFICES ASSUME TypeOK, Births, Entries, Fresh, Step, NEW u \in Task PROVE Entry(u)'
  BY DEF Entries, Entry
<1>0. Entry(u) /\ (IsTerminal(task[u].state) => IsTerminal(task'[u].state))
  BY StepTasks DEF Entries, Entry, TasksMove
<1>1. ASSUME ExecsOf(u)' = ExecsOf(u), cancels'[u] = cancels[u] \/ (cancels'[u] = 0 /\ u \notin tasks'),
             u \in tasks' => u \in tasks,
             \A g \in ExecsOf(u) : exec'[g].pc \in {"begin", "run"} => exec[g].pc \in {"begin", "run"}
      PROVE  Entry(u)'
  BY <1>0, <1>1 DEF Entry, Newest
<1>2. ASSUME NEW cs, NEW es, NEW t \in Task, NEW m, LaunchStep(cs, es, t, m),
             \A v \in Task \ {t} : cs[v] = cancels[v] \/ (cs[v] = 0 /\ v \notin tasks'),
             tasks' \subseteq tasks \cup {t}
      PROVE  Entry(u)'
  <2>0. PICK n \in Gen : n = cancelGen + 1
    BY <1>2 DEF LaunchStep
  <2>1. CASE u = t
    <3>1. cancels'[u] = n /\ exec'[n].of = u
      BY <1>2, <2>0, <2>1 DEF LaunchStep
    <3>2. \A g \in Gen : exec'[g].of = u => g <= n
      BY <1>2, <2>0, A2ATaskAssumption DEF LaunchStep, NoExec, Gen, TypeOK
    <3>3. n \in ExecsOf(u)' /\ \A g \in ExecsOf(u)' : g <= n /\ g \in Gen
      BY <3>1, <3>2 DEF ExecsOf
    <3>4. \A g \in Gen : Newest(u, g)' => g = n
      BY <3>1, <3>3 DEF Newest, Gen
    <3>5. Newest(u, n)'
      BY <3>3 DEF Newest
    <3> QED BY <3>1, <3>4, <3>5 DEF Entry
  <2>2. CASE u # t
    <3>1. n \notin ExecsOf(u) /\ ExecsOf(u)' = ExecsOf(u)
      BY <1>2, <2>0, <2>2, A2ATaskAssumption DEF LaunchStep, ExecsOf, NoExec
    <3>2. \A g \in ExecsOf(u) : exec'[g].pc = exec[g].pc
      BY <1>2, <2>0, <3>1 DEF LaunchStep, ExecsOf
    <3>3. cancels'[u] = cancels[u] \/ (cancels'[u] = 0 /\ u \notin tasks')
      BY <1>2, <2>2 DEF LaunchStep
    <3> QED BY <1>1, <1>2, <2>2, <3>1, <3>2, <3>3
  <2> QED BY <2>1, <2>2
<1>3. ASSUME NEW t \in Task, NEW m \in Message \cup {NoID}, NEW old \in SUBSET tasks,
             Entered(t, m, old)
      PROVE  Entry(u)'
  <2> DEFINE cs == [v \in Task |-> IF v \in old THEN 0 ELSE cancels[v]]
  <2>1. LaunchStep(cs, exec, t, m) /\ tasks' = (tasks \ old) \cup {t}
    BY <1>3 DEF Entered
  <2>2. \A v \in Task \ {t} : cs[v] = cancels[v] \/ (cs[v] = 0 /\ v \notin tasks')
    BY <2>1
  <2> HIDE DEF cs
  <2> QED BY <1>2, <2>1, <2>2
<1>4. ASSUME NEW t \in Task, NEW m \in Message \cup {NoID}, Resumed(t, m) PROVE Entry(u)'
  <2>1. LaunchStep(cancels, Cancelled(exec, cancels[t]), t, m) /\ tasks' = tasks
    BY <1>4 DEF Resumed
  <2> QED BY <1>2, <2>1
<1>5. ASSUME NEW t \in Task, Ended(t) PROVE Entry(u)'
  <2>1. /\ exec' = Cancelled(exec, cancels[t]) /\ cancels' = [cancels EXCEPT ![t] = 0]
        /\ tasks' = tasks
        /\ task' = [task EXCEPT ![t] = [task[t] EXCEPT !.state = "canceled", !.done = FALSE]]
    BY <1>5 DEF Ended
  <2>2. ExecsOf(u)' = ExecsOf(u) /\ \A g \in Gen : exec'[g].pc = exec[g].pc
    BY <2>1, CancelledExec DEF ExecsOf
  <2>3. CASE u = t
    <3>1. task[u] \in TaskRec
      BY DEF TypeOK
    <3>2. task'[u] = [task[u] EXCEPT !.state = "canceled", !.done = FALSE]
      BY <2>1, <2>3 DEF TypeOK
    <3>3. task'[u].state = "canceled"
      BY <3>1, <3>2 DEF TaskRec
    <3>4. cancels'[u] = 0
      BY <2>1, <2>3 DEF TypeOK
    <3> QED BY <3>3, <3>4 DEF Entry, IsTerminal
  <2>4. CASE u # t
    <3>1. cancels'[u] = cancels[u]
      BY <2>1, <2>4 DEF TypeOK
    <3> QED BY <1>1, <2>1, <2>2, <3>1 DEF ExecsOf
  <2> QED BY <2>3, <2>4
<1>6. ASSUME NEW g \in Gen, WorkStep(g) PROVE Entry(u)'
  <2>1. tasks' = tasks /\ ExecsOf(u)' = ExecsOf(u)
    BY <1>6 DEF WorkStep, ExecsOf
  <2>2. \A h \in Gen : exec'[h].pc \in {"begin", "run"} => exec[h].pc \in {"begin", "run"}
    BY <1>6 DEF WorkStep
  <2>3. CASE cancels'[u] = cancels[u]
    BY <1>1, <2>1, <2>2, <2>3 DEF ExecsOf
  <2>4. CASE cancels'[u] # cancels[u]
    <3>1. /\ cancels[u] = g /\ cancels'[u] = 0
          /\ exec[g].pc \notin {"begin", "run"}
      BY <1>6, <2>4 DEF WorkStep, TypeOK
    <3>2. \A h \in Gen : u \in tasks' /\ ~IsTerminal(task'[u].state)
                         /\ Newest(u, h)' /\ exec'[h].pc \in {"begin", "run"} => h = g
      BY <1>0, <2>1, <2>2, <3>1 DEF Entry, Newest
    <3> QED BY <2>2, <3>1, <3>2 DEF Entry
  <2> QED BY <2>3, <2>4
<1>7. ASSUME NEW t \in Task, NEW old \in SUBSET tasks, NoRoom(t, old) PROVE Entry(u)'
  BY <1>1, <1>7 DEF NoRoom, ExecsOf
<1>8. CASE UNCHANGED <<tasks, cancels, exec>>
  BY <1>1, <1>8 DEF ExecsOf
<1> QED BY <1>3, <1>4, <1>5, <1>6, <1>7, <1>8 DEF Step, Asked, vars

LEMMA NextWaiters == TypeOK /\ WaitersWoken /\ Step => WaitersWoken'
BY StepTasks DEF WaitersWoken, TasksMove

\* What a step does to the histories of the tasks that are remembered.
LEMMA StepHistory ==
    ASSUME TypeOK, Step, NEW u \in tasks', u \in tasks
    PROVE  \/ task'[u].history = task[u].history
           \/ \E m \in Message \cup {NoID} : Resumed(u, m)
           \/ \E m \in Message \cup {NoID}, old \in SUBSET tasks : Entered(u, m, old)
<1>0. u \in Task /\ task[u] \in TaskRec
  BY DEF TypeOK
<1>1. ASSUME NEW t \in Task \ {u}, NEW r, task' = [task EXCEPT ![t] = r]
      PROVE  task'[u].history = task[u].history
  BY <1>0, <1>1 DEF TypeOK
<1>2. ASSUME NEW t \in Task, Ended(t) \/ Asked(t)
      PROVE  task'[u].history = task[u].history
  <2>1. PICK s \in {"canceled", "input-required"} :
            task' = [task EXCEPT ![t] = [task[t] EXCEPT !.state = s, !.done = FALSE]]
    BY <1>2 DEF Ended, Asked
  <2>2. CASE u = t
    <3>1. task'[u] = [task[u] EXCEPT !.state = s, !.done = FALSE]
      BY <1>0, <2>1, <2>2 DEF TypeOK
    <3> QED BY <1>0, <3>1 DEF TaskRec
  <2>3. CASE u # t
    BY <1>1, <2>1, <2>3
  <2> QED BY <2>2, <2>3
<1>3. ASSUME NEW t \in Task \ {u}, NEW m, NEW old, Entered(t, m, old) \/ Resumed(t, m)
      PROVE  task'[u].history = task[u].history
  BY <1>1, <1>3 DEF Entered, Resumed
<1>4. CASE TaskStep \/ UNCHANGED task
  BY <1>0, <1>4 DEF TaskStep
<1> QED BY <1>0, <1>2, <1>3, <1>4 DEF Step, NoRoom, vars

LEMMA NextIndex == TypeOK /\ Fresh /\ IndexIsHistory /\ Step => IndexIsHistory'
<1> SUFFICES ASSUME TypeOK, Fresh, IndexIsHistory, Step, NEW n \in Message, NEW u \in tasks'
             PROVE  n \in task'[u].history <=> messageIndex'[n] = u
  BY DEF IndexIsHistory
<1>0. n # NoID /\ (u \in tasks => (n \in task[u].history <=> messageIndex[n] = u))
  BY A2ATaskAssumption DEF IndexIsHistory
<1>1. ASSUME NEW t \in Task, NEW old \in SUBSET tasks, NoRoom(t, old)
      PROVE  n \in task'[u].history <=> messageIndex'[n] = u
  <2>1. u \in tasks \ old /\ u \in Task
    BY <1>1 DEF NoRoom, TypeOK
  <2>2. messageIndex'[n] = u <=> u \in tasks \ old /\ messageIndex[n] = u
    BY <1>1, <2>1, KeptIndex DEF NoRoom
  <2> QED BY <1>0, <1>1, <2>1, <2>2 DEF NoRoom
<1>2. ASSUME NEW t \in Task, NEW m \in Message \cup {NoID}, NEW old \in SUBSET tasks,
             Entered(t, m, old)
      PROVE  n \in task'[u].history <=> messageIndex'[n] = u
  <2> DEFINE live == tasks \ old
             f == [k \in Message |-> IF messageIndex[k] \in live THEN messageIndex[k] ELSE NoTask]
  <2>1. /\ f \in [Message -> Task \cup {NoTask}]
        /\ \A v \in Task : f[n] = v <=> v \in live /\ messageIndex[n] = v
    BY KeptIndex
  <2>2. messageIndex' = Indexed(f, m, t)
    BY <1>2 DEF Entered
  <2> HIDE DEF f
  <2>3. messageIndex'[n] = IF n = m THEN t ELSE f[n]
    BY <2>1, <2>2, IndexedType
  <2>4. t \notin tasks /\ task'[t] = NewRec(m) /\ \A v \in Task \ {t} : task'[v] = task[v]
    BY <1>2 DEF Entered, Fresh, TypeOK
  <2>5. u = t \/ (u \in live /\ u # t /\ u \in Task)
    BY <1>2, <2>4 DEF Entered, TypeOK
  <2>6. CASE u = t
    <3>1. n \in task'[u].history <=> n = m
      BY <1>0, <2>4, <2>6, NewRecType
    <3> QED BY <2>1, <2>3, <2>4, <2>6, <3>1
  <2>7. CASE u # t
    <3>1. n = m => messageIndex[n] # u
      BY <1>0, <1>2, <2>5, <2>7 DEF Entered, Known
    <3> QED BY <1>0, <2>1, <2>3, <2>4, <2>5, <2>7, <3>1
  <2> QED BY <2>6, <2>7
<1>3. ASSUME NEW t \in Task, NEW m \in Message \cup {NoID}, Resumed(t, m)
      PROVE  n \in task'[u].history <=> messageIndex'[n] = u
  <2>1. u \in tasks /\ u \in Task /\ task[t] \in TaskRec
    BY <1>3 DEF Resumed, TypeOK
  <2>2. messageIndex'[n] = IF n = m THEN t ELSE messageIndex[n]
    BY <1>3, IndexedType DEF Resumed, TypeOK
  <2>3. n = m => messageIndex[n] = NoTask
    BY <1>0, <1>3 DEF Resumed
  <2>4. CASE u = t
    <3> DEFINE hist == task[t].history \cup ({m} \ {NoID})
    <3>1. task'[u] = [task[t] EXCEPT !.state = "working", !.done = TRUE, !.history = hist]
      BY <1>3, <2>1, <2>4 DEF Resumed, TypeOK
    <3> HIDE DEF hist
    <3>2. task'[u].history = hist
      BY <2>1, <3>1 DEF TaskRec
    <3>3. n \in hist <=> n \in task[t].history \/ n = m
      BY <1>0 DEF hist
    <3> QED BY <1>0, <2>1, <2>2, <2>4, <3>2, <3>3
  <2>5. CASE u # t
    <3>1. task'[u] = task[u]
      BY <1>3, <2>1, <2>5 DEF Resumed, TypeOK
    <3>2. n = m => messageIndex[n] # u
      BY <2>1, <2>3, A2ATaskAssumption
    <3> QED BY <1>0, <2>1, <2>2, <2>5, <3>1, <3>2
  <2> QED BY <2>4, <2>5
<1>4. CASE UNCHANGED <<tasks, messageIndex>> /\ ~(\E t \in Task, m \in Message \cup {NoID} : Resumed(t, m))
           /\ ~(\E t \in Task, m \in Message \cup {NoID}, old \in SUBSET tasks : Entered(t, m, old))
  <2>1. u \in tasks /\ u \in Task
    BY <1>4 DEF TypeOK
  <2>2. task'[u].history = task[u].history
    BY <1>4, <2>1, StepHistory
  <2> QED BY <1>0, <1>4, <2>1, <2>2
<1>5. ASSUME NEW t \in Task, Ended(t) \/ Asked(t) PROVE UNCHANGED <<tasks, messageIndex>>
  BY <1>5 DEF Ended, Asked
<1>6. ASSUME NEW g \in Gen, WorkStep(g) PROVE UNCHANGED <<tasks, messageIndex>>
  BY <1>6 DEF WorkStep
<1> QED BY <1>1, <1>2, <1>3, <1>4, <1>5, <1>6 DEF Step, vars

\* A message's execution is in the history of its task, so that no other task has it.
LEMMA NextStarted == TypeOK /\ Births /\ Fresh /\ IndexIsHistory /\ StartedOnce /\ Step => StartedOnce'
<1> SUFFICES ASSUME TypeOK, Births, Fresh, IndexIsHistory, StartedOnce, Step, NEW n \in Message
             PROVE  /\ \A g \in Gen : exec'[g].by = n /\ exec'[g].of \in tasks'
                                         => n \in task'[exec'[g].of].history
                    /\ \A g, h \in Gen : exec'[g].by = n /\ exec'[h].by = n
                                         /\ {exec'[g].of, exec'[h].of} \subseteq tasks' => g = h
  BY DEF StartedOnce
<1>0. n # NoID /\ tasks \subseteq Task
  BY A2ATaskAssumption DEF TypeOK
<1>1. ASSUME \A g \in Gen : exec'[g].of = exec[g].of /\ exec'[g].by = exec[g].by,
             tasks' \subseteq tasks,
             \A u \in tasks' : task[u].history \subseteq task'[u].history
      PROVE  /\ \A g \in Gen : exec'[g].by = n /\ exec'[g].of \in tasks'
                                  => n \in task'[exec'[g].of].history
             /\ \A g, h \in Gen : exec'[g].by = n /\ exec'[h].by = n
                                  /\ {exec'[g].of, exec'[h].of} \subseteq tasks' => g = h
  BY <1>1 DEF StartedOnce
<1>2. ASSUME NEW cs, NEW es, NEW t \in Task, NEW m \in Message \cup {NoID}, LaunchStep(cs, es, t, m),
             tasks' \subseteq tasks \cup {t},
             t \in tasks \/ ExecsOf(t) = {},
             m # NoID => \A u \in tasks : m \notin task[u].history,
             m # NoID => m \in task'[t].history,
             \A u \in tasks \cap tasks' : task[u].history \subseteq task'[u].history
      PROVE  /\ \A g \in Gen : exec'[g].by = n /\ exec'[g].of \in tasks'
                                  => n \in task'[exec'[g].of].history
             /\ \A g, h \in Gen : exec'[g].by = n /\ exec'[h].by = n
                                  /\ {exec'[g].of, exec'[h].of} \subseteq tasks' => g = h
  <2>1. PICK k \in Gen : k = cancelGen + 1
    BY <1>2 DEF LaunchStep
  <2>2. exec'[k].of = t /\ exec'[k].by = m
    BY <1>2, <2>1 DEF LaunchStep
  <2>3. \A g \in Gen \ {k} : exec'[g].of = exec[g].of /\ exec'[g].by = exec[g].by
    BY <1>2, <2>1 DEF LaunchStep
  <2>4. \A g \in Gen \ {k} : exec'[g].of \in tasks' => exec[g].of \in tasks
    BY <1>2, <2>3 DEF ExecsOf
  <2>5. \A g \in Gen \ {k} : exec'[g].by = n /\ exec'[g].of \in tasks' => n \in task[exec[g].of].history
    BY <2>3, <2>4 DEF StartedOnce
  <2>6. \A g \in Gen : exec'[g].by = n /\ exec'[g].of \in tasks' => n \in task'[exec'[g].of].history
    BY <1>0, <1>2, <2>2, <2>3, <2>4, <2>5
  <2>7. \A g \in Gen \ {k} : exec'[g].by = n /\ exec'[g].of \in tasks' => n # m
    BY <1>0, <1>2, <2>4, <2>5
  <2>8. \A g, h \in Gen \ {k} : exec'[g].by = n /\ exec'[h].by = n
                                /\ {exec'[g].of, exec'[h].of} \subseteq tasks' => g = h
    BY <2>3, <2>4 DEF StartedOnce
  <2> QED BY <2>2, <2>6, <2>7, <2>8
<1>3. ASSUME NEW t \in Task, NEW m \in Message \cup {NoID}, NEW old \in SUBSET tasks,
             Entered(t, m, old)
      PROVE  /\ \A g \in Gen : exec'[g].by = n /\ exec'[g].of \in tasks'
                                  => n \in task'[exec'[g].of].history
             /\ \A g, h \in Gen : exec'[g].by = n /\ exec'[h].by = n
                                  /\ {exec'[g].of, exec'[h].of} \subseteq tasks' => g = h
  <2>1. /\ \E cs : LaunchStep(cs, exec, t, m)
        /\ tasks' \subseteq tasks \cup {t} /\ t \notin tasks /\ ExecsOf(t) = {}
    BY <1>3 DEF Entered, Fresh
  <2>2. task'[t] = NewRec(m) /\ \A u \in Task \ {t} : task'[u] = task[u]
    BY <1>3 DEF Entered, TypeOK
  <2>3. m # NoID => m \in Message /\ \A u \in tasks : messageIndex[m] # u
    BY <1>3 DEF Entered, Known
  <2>4. m # NoID => \A u \in tasks : m \notin task[u].history
    BY <2>3 DEF IndexIsHistory
  <2>5. m # NoID => m \in task'[t].history
    BY <2>2, NewRecType
  <2>6. \A u \in tasks \cap tasks' : task[u].history \subseteq task'[u].history
    BY <1>0, <2>1, <2>2
  <2> QED BY <1>2, <2>1, <2>4, <2>5, <2>6
<1>4. ASSUME NEW t \in Task, NEW m \in Message \cup {NoID}, Resumed(t, m)
      PROVE  /\ \A g \in Gen : exec'[g].by = n /\ exec'[g].of \in tasks'
                                  => n \in task'[exec'[g].of].history
             /\ \A g, h \in Gen : exec'[g].by = n /\ exec'[h].by = n
                                  /\ {exec'[g].of, exec'[h].of} \subseteq tasks' => g = h
  <2> DEFINE hist == task[t].history \cup ({m} \ {NoID})
  <2>1. /\ \E cs, es : LaunchStep(cs, es, t, m)
        /\ tasks' = tasks /\ t \in tasks /\ task[t] \in TaskRec
    BY <1>4 DEF Resumed, TypeOK
  <2>2. /\ task'[t] = [task[t] EXCEPT !.state = "working", !.done = TRUE, !.history = hist]
        /\ \A u \in Task \ {t} : task'[u] = task[u]
    BY <1>4 DEF Resumed, TypeOK
  <2>3. m # NoID => \A u \in tasks : m \notin task[u].history
    BY <1>0, <1>4, A2ATaskAssumption DEF Resumed, IndexIsHistory
  <2>4. m # NoID => m \in hist
    OBVIOUS
  <2>5. task[t].history \subseteq hist
    OBVIOUS
  <2> HIDE DEF hist
  <2>6. task'[t].history = hist
    BY <2>1, <2>2 DEF TaskRec
  <2>7. \A u \in tasks \cap tasks' : task[u].history \subseteq task'[u].history
    BY <1>0, <2>2, <2>5, <2>6
  <2> QED BY <1>2, <2>1, <2>3, <2>4, <2>6, <2>7
<1>5. CASE /\ tasks' \subseteq tasks
           /\ \A g \in Gen : exec'[g].of = exec[g].of /\ exec'[g].by = exec[g].by
           /\ ~(\E t \in Task, m \in Message \cup {NoID} : Resumed(t, m))
           /\ ~(\E t \in Task, m \in Message \cup {NoID}, old \in SUBSET tasks : Entered(t, m, old))
  <2>1. \A u \in tasks' : task'[u].history = task[u].history
    BY <1>0, <1>5, StepHistory
  <2> QED BY <1>1, <1>5, <2>1
<1>6. ASSUME NEW t \in Task, Ended(t) \/ Asked(t)
      PROVE  /\ tasks' = tasks
             /\ \A g \in Gen : exec'[g].of = exec[g].of /\ exec'[g].by = exec[g].by
  BY <1>6, CancelledExec DEF Ended, Asked
<1>7. ASSUME NEW g \in Gen, WorkStep(g)
      PROVE  /\ tasks' = tasks
             /\ \A h \in Gen : exec'[h].of = exec[h].of /\ exec'[h].by = exec[h].by
  BY <1>7 DEF WorkStep
<1>8. ASSUME NEW t \in Task, NEW old \in SUBSET tasks, NoRoom(t, old)
      PROVE  tasks' \subseteq tasks /\ UNCHANGED exec
  BY <1>8 DEF NoRoom
<1> QED BY <1>3, <1>4, <1>5, <1>6, <1>7, <1>8 DEF Step, vars

-----------------------------------------------------------------------------
(* The theorems *)

LEMMA InitInv == Init => Inv
<1> SUFFICES ASSUME Init PROVE Inv
  OBVIOUS
<1>1. NewTask \in TaskRec /\ NewTask.done = FALSE /\ NewTask.state = "none"
  BY A2ATaskAssumption DEF NewTask, TaskRec, State
<1>2. NoExec \in Exec /\ NoExec.of = NoTask /\ NoExec.by = NoID /\ NoExec.pc = "none" /\ NoExec.ctx = "live"
  BY DEF NoExec, Exec, ExecPC
<1>3. tasks = {} /\ cancelGen = 0
      /\ (\A t \in Task : task[t] = NewTask /\ cancels[t] = 0)
      /\ \A g \in Gen : exec[g] = NoExec
  BY DEF Init
<1>4. TypeOK
  BY <1>1, <1>2, A2ATaskAssumption DEF Init, TypeOK
<1>5. Births
  BY <1>3 DEF Births, Gen
<1>6. Fresh
  BY <1>2, <1>3, A2ATaskAssumption DEF Fresh, ExecsOf
<1>7. WaitersWoken
  BY <1>1, <1>3 DEF WaitersWoken
<1>8. NoEntry
  BY <1>2, <1>3 DEF NoEntry, Past
<1>9. Entries
  BY <1>3 DEF Entries, Entry
<1>10. IndexIsHistory
  BY <1>3 DEF IndexIsHistory
<1>11. StartedOnce
  BY <1>3 DEF StartedOnce
<1> QED BY <1>4, <1>5, <1>6, <1>7, <1>8, <1>9, <1>10, <1>11 DEF Inv

LEMMA NextInv == Inv /\ [Next]_vars => Inv'
BY NextSteps, NextType, NextBirths, NextFresh, NextWaiters, NextNoEntry, NextEntries, NextIndex,
   NextStarted DEF Inv

\* Whoever waits for a task is woken by every way out of its activity: no task is left with
\* an open channel when it has ended, was cancelled or asks for input.
THEOREM NobodyWaitsInVain == Spec => []WaitersWoken
<1>1. Inv => WaitersWoken
  BY DEF Inv
<1> QED BY <1>1, InitInv, NextInv, PTL DEF Spec

\* A task that is at work can be cancelled: the entry in cancels is its newest execution's,
\* whenever the execution before it runs its cleanup.
THEOREM RunningTaskIsCancelable == Spec => []CancelReaches
<1>1. Inv => CancelReaches
  <2> SUFFICES ASSUME Inv, NEW t \in Task, cancels[t] # 0 PROVE exec[cancels[t]].pc # "ended"
    BY DEF Inv, CancelReaches, Entries, Entry
  <2>1. cancels[t] \in Gen
    BY DEF Inv, Entries, Entry, Newest, ExecsOf
  <2> QED BY <2>1 DEF Inv, NoEntry, Past
<1> QED BY <1>1, InitInv, NextInv, PTL DEF Spec

\* A message that is sent again starts no second execution while its task is remembered.
THEOREM RepeatedMessageRunsOnce == Spec => []MessageOnce
<1>1. Inv => MessageOnce
  BY DEF Inv, IndexIsHistory, StartedOnce, MessageOnce
<1> QED BY <1>1, InitInv, NextInv, PTL DEF Spec

\* A task that has ended stays what it is: no late execution, no message that would
\* continue it and no second cancellation changes its state.
THEOREM EndedTaskStays == Spec => TerminalFinal
<1>1. Inv /\ [Next]_vars =>
        [\A t \in Task : IsTerminal(task[t].state) => task'[t].state = task[t].state]_vars
  BY NextSteps, StepTasks DEF Inv, TasksMove
<1> QED BY <1>1, InitInv, NextInv, PTL DEF Spec, TerminalFinal
=============================================================================
