------------------------------ MODULE A2ATask ------------------------------
(***************************************************************************)
(* The A2A task handler (internal/a2a/handler.go): the table of tasks that *)
(* other agents sent here, the goroutine that executes each of them, the   *)
(* pause in which a task waits for more input, the cancel functions with   *)
(* their generations, and the index that recognises a message sent twice.  *)
(*                                                                         *)
(* A step is one critical section of h.mu.  An execution is named by the   *)
(* generation installCancelLocked gives it.  A message that is answered    *)
(* from the index changes nothing and is not a step.                       *)
(***************************************************************************)
EXTENDS Naturals, FiniteSets

CONSTANTS
    Task,       \* bound: the ids generateID gives out
    Message,    \* message ids; senders repeat them when they retry
    NoID,       \* the message id of a sender that gives none
    NoTask,     \* no entry in Handler.messageIndex
    MaxTasks,   \* TaskHandler.maxTasks
    MaxGen      \* bound on TaskHandler.cancelGen, the executions that are started

ASSUME A2ATaskAssumption ==
    /\ NoTask \notin Task
    /\ NoID \notin Message
    /\ MaxTasks \in Nat \ {0}
    /\ MaxGen \in Nat

VARIABLES
    tasks,         \* the keys of TaskHandler.tasks
    task,          \* the Task object of an id, which its executions keep
    cancels,       \* TaskHandler.cancels: the generation of a task's entry, 0 if none
    cancelGen,     \* TaskHandler.cancelGen
    messageIndex,  \* TaskHandler.messageIndex
    exec           \* the executions by generation

vars == <<tasks, task, cancels, cancelGen, messageIndex, exec>>

-----------------------------------------------------------------------------
(* Values *)

State == {"none", "submitted", "working", "input-required", "completed", "failed", "canceled"}
IsTerminal(s) == s \in {"completed", "failed", "canceled"}

Gen == 1 .. MaxGen

\* done: Task.done is an open channel; artifact: the execution it came from
TaskRec == [state : State, done : BOOLEAN, artifact : 0 .. MaxGen, history : SUBSET Message]
NewTask == [state |-> "none", done |-> FALSE, artifact |-> 0, history |-> {}]

ExecPC == {"none", "begin", "run", "canceled", "mark", "failed", "panicked", "close",
           "cleanup", "succeeded", "read", "store", "complete", "ended"}
Exec == [of : Task \cup {NoTask}, by : Message \cup {NoID}, pc : ExecPC,
         ctx : {"live", "canceled", "expired"}]
NoExec == [of |-> NoTask, by |-> NoID, pc |-> "none", ctx |-> "live"]

Active(t) == task[t].state \in {"submitted", "working"}

\* the executions of a task; they share its Task object
ExecsOf(t) == {g \in Gen : exec[g].of = t}
Newest(t, g) == g \in ExecsOf(t) /\ \A h \in ExecsOf(t) : h <= g

-----------------------------------------------------------------------------
(* Helpers *)

\* calling a context's cancel function: a context that has expired stays so
Cancelled(es, g) ==
    [h \in Gen |-> IF h = g /\ es[h].ctx = "live" THEN [es[h] EXCEPT !.ctx = "canceled"] ELSE es[h]]

\* updateStatus, which leaves a terminal task and one that waits for input alone
Updated(r, s) ==
    IF IsTerminal(r.state) \/ r.state = "input-required" THEN r
    ELSE [r EXCEPT !.state = s, !.done = @ /\ ~IsTerminal(s)]

updateStatus(t, s) == task' = [task EXCEPT ![t] = Updated(@, s)]

\* a message without an id is not entered in the index
Indexed(index, m, t) == [n \in Message |-> IF n = m THEN t ELSE index[n]]

Goto(g, l) == exec' = [exec EXCEPT ![g].pc = l]

\* installCancelLocked and the goroutine that is then started
Launch(cs, es, t, m) ==
    /\ cancelGen < MaxGen
    /\ cancelGen' = cancelGen + 1
    /\ cancels' = [cs EXCEPT ![t] = cancelGen + 1]
    /\ exec' = [es EXCEPT ![cancelGen + 1] = [of |-> t, by |-> m, pc |-> "begin", ctx |-> "live"]]

-----------------------------------------------------------------------------
Init ==
    /\ tasks = {}
    /\ task = [t \in Task |-> NewTask]
    /\ cancels = [t \in Task |-> 0]
    /\ cancelGen = 0
    /\ messageIndex = [m \in Message |-> NoTask]
    /\ exec = [g \in Gen |-> NoExec]

\* mutant: the index is not looked at
KnownNever(m) == FALSE

\* the message is known and so is its task: Handle and continueTask answer with it
Known(m) == m # NoID /\ messageIndex[m] \in tasks

\* the tasks that are old enough for cleanupExpiredTasksLocked, if they have been so long
Expirable == {t \in tasks : IsTerminal(task[t].state) \/ task[t].state = "input-required"}

Running(live) == {t \in live : Active(t)}

\* Handle, a new task; the old tasks go even if there is no room for it
Handle(m, t, old) ==
    LET live == tasks \ old
        index == [n \in Message |-> IF messageIndex[n] \in live THEN messageIndex[n] ELSE NoTask]
        entries == [u \in Task |-> IF u \in old THEN 0 ELSE cancels[u]]
    IN  /\ ~Known(m)
        /\ task[t].state = "none"
        /\ IF Cardinality(Running(live)) >= MaxTasks
           THEN /\ tasks' = live
                /\ messageIndex' = index
                /\ cancels' = entries
                /\ UNCHANGED <<task, cancelGen, exec>>
           ELSE /\ tasks' = live \cup {t}
                /\ messageIndex' = Indexed(index, m, t)
                /\ task' = [task EXCEPT ![t] = [state |-> "submitted", done |-> TRUE, artifact |-> 0,
                                                history |-> {m} \ {NoID}]]
                /\ Launch(entries, exec, t, m)

\* continueTask: the task works again, in a new execution, and an old one is cancelled
continueTask(t, m) ==
    /\ t \in tasks
    /\ m # NoID => messageIndex[m] = NoTask
    /\ task[t].state = "input-required"
    /\ task' = [task EXCEPT ![t] = [@ EXCEPT !.state = "working", !.done = TRUE,
                                             !.history = task[t].history \cup ({m} \ {NoID})]]
    /\ messageIndex' = Indexed(messageIndex, m, t)
    /\ Launch(cancels, Cancelled(exec, cancels[t]), t, m)
    /\ UNCHANGED tasks

CancelTask(t) ==
    /\ t \in tasks
    /\ ~IsTerminal(task[t].state)
    /\ task' = [task EXCEPT ![t] = [@ EXCEPT !.state = "canceled", !.done = FALSE]]
    /\ exec' = Cancelled(exec, cancels[t])
    /\ cancels' = [cancels EXCEPT ![t] = 0]
    /\ UNCHANGED <<tasks, cancelGen, messageIndex>>

\* mutant: only the end of a task wakes those who wait for it
RequestInputQuietly(t) ==
    /\ t \in tasks
    /\ task[t].state = "working"
    /\ task' = [task EXCEPT ![t].state = "input-required"]
    /\ UNCHANGED <<tasks, cancels, cancelGen, messageIndex, exec>>

\* the execution that asked goes on
RequestInput(t) ==
    /\ t \in tasks
    /\ task[t].state = "working"
    /\ task' = [task EXCEPT ![t] = [@ EXCEPT !.state = "input-required", !.done = FALSE]]
    /\ UNCHANGED <<tasks, cancels, cancelGen, messageIndex, exec>>

-----------------------------------------------------------------------------
(* execute *)

Begin(g) ==
    /\ exec[g].pc = "begin"
    /\ updateStatus(exec[g].of, "working")
    /\ Goto(g, "run")
    /\ UNCHANGED <<tasks, cancels, cancelGen, messageIndex>>

\* the deadline of the execution's context
Expire(g) ==
    /\ exec[g].pc = "run"
    /\ exec[g].ctx = "live"
    /\ exec' = [exec EXCEPT ![g].ctx = "expired"]
    /\ UNCHANGED <<tasks, task, cancels, cancelGen, messageIndex>>

\* mutant: the agent is not given the task's deadline
ReturnInTime(g) ==
    /\ exec[g].pc = "run" /\ exec[g].ctx # "expired"
    /\ \E l \in {"failed", "succeeded", "panicked"} :
           Goto(g, IF l # "panicked" /\ exec[g].ctx = "canceled" THEN "canceled" ELSE l)
    /\ UNCHANGED <<tasks, task, cancels, cancelGen, messageIndex>>

\* executeAgent returns or panics, and the context is looked at
Return(g) ==
    /\ exec[g].pc = "run"
    /\ \E l \in {"failed", "succeeded", "panicked"} :
           Goto(g, IF l # "panicked" /\ exec[g].ctx = "canceled" THEN "canceled" ELSE l)
    /\ UNCHANGED <<tasks, task, cancels, cancelGen, messageIndex>>

\* cancelled: an entry in cancels means that a newer execution has the task
SeeCanceled(g) ==
    LET t == exec[g].of IN
    /\ exec[g].pc = "canceled"
    /\ Goto(g, IF task[t].state = "working" /\ cancels[t] = 0 THEN "mark" ELSE "ended")
    /\ UNCHANGED <<tasks, task, cancels, cancelGen, messageIndex>>

MarkCanceled(g) ==
    /\ exec[g].pc = "mark"
    /\ updateStatus(exec[g].of, "canceled")
    /\ Goto(g, "cleanup")
    /\ UNCHANGED <<tasks, cancels, cancelGen, messageIndex>>

Fail(g) ==
    /\ exec[g].pc \in {"failed", "panicked"}
    /\ updateStatus(exec[g].of, "failed")
    /\ Goto(g, IF exec[g].pc = "failed" THEN "cleanup" ELSE "close")
    /\ UNCHANGED <<tasks, cancels, cancelGen, messageIndex>>

\* after a panic: whoever waits for the task is woken in any case
CloseDone(g) ==
    /\ exec[g].pc = "close"
    /\ task' = [task EXCEPT ![exec[g].of].done = FALSE]
    /\ Goto(g, "cleanup")
    /\ UNCHANGED <<tasks, cancels, cancelGen, messageIndex>>

\* mutant: the generation is not compared
cleanupCancel(g, l) ==
    LET t == exec[g].of IN
    /\ cancels' = [cancels EXCEPT ![t] = 0]
    /\ exec' = [Cancelled(exec, cancels[t]) EXCEPT ![g].pc = l]

\* cleanupCancelIf: only the entry of this execution
cleanupCancelIf(g, l) ==
    LET t == exec[g].of IN
    IF cancels[t] = g
    THEN /\ cancels' = [cancels EXCEPT ![t] = 0]
         /\ exec' = [Cancelled(exec, g) EXCEPT ![g].pc = l]
    ELSE UNCHANGED cancels /\ Goto(g, l)

CleanUp(g) ==
    /\ \/ exec[g].pc = "cleanup" /\ cleanupCancelIf(g, "ended")
       \/ exec[g].pc = "succeeded" /\ cleanupCancelIf(g, "read")
    /\ UNCHANGED <<tasks, task, cancelGen, messageIndex>>

ReadState(g) ==
    /\ exec[g].pc = "read"
    /\ Goto(g, IF task[exec[g].of].state = "working" THEN "store" ELSE "ended")
    /\ UNCHANGED <<tasks, task, cancels, cancelGen, messageIndex>>

StoreArtifact(g) ==
    /\ exec[g].pc = "store"
    /\ task' = [task EXCEPT ![exec[g].of].artifact = g]
    /\ Goto(g, "complete")
    /\ UNCHANGED <<tasks, cancels, cancelGen, messageIndex>>

\* mutant: the state that was read is taken for granted
CompleteAnyway(g) ==
    /\ exec[g].pc = "complete"
    /\ task' = [task EXCEPT ![exec[g].of] = [@ EXCEPT !.state = "completed", !.done = FALSE]]
    /\ Goto(g, "ended")
    /\ UNCHANGED <<tasks, cancels, cancelGen, messageIndex>>

Complete(g) ==
    /\ exec[g].pc = "complete"
    /\ updateStatus(exec[g].of, "completed")
    /\ Goto(g, "ended")
    /\ UNCHANGED <<tasks, cancels, cancelGen, messageIndex>>

execute(g) ==
    \/ Begin(g) \/ Return(g) \/ SeeCanceled(g) \/ MarkCanceled(g) \/ Fail(g)
    \/ CloseDone(g) \/ CleanUp(g) \/ ReadState(g) \/ StoreArtifact(g) \/ Complete(g)

Next ==
    \/ \E t \in Task :
        \/ \E m \in Message \cup {NoID} :
            \/ \E old \in SUBSET Expirable : Handle(m, t, old)
            \/ continueTask(t, m)
        \/ CancelTask(t)
        \/ RequestInput(t)
    \/ \E g \in Gen : Expire(g) \/ execute(g)

Spec == Init /\ [][Next]_vars

\* Every execution runs on; the agent stops when its context does, if not before.
FairSpec == Spec /\ \A g \in Gen : WF_vars(execute(g))

-----------------------------------------------------------------------------
(* Properties *)

\* The type of the state.
TypeOK ==
    /\ tasks \subseteq Task
    /\ task \in [Task -> TaskRec]
    /\ cancels \in [Task -> 0 .. MaxGen]
    /\ cancelGen \in 0 .. MaxGen
    /\ messageIndex \in [Message -> Task \cup {NoTask}]
    /\ exec \in [Gen -> Exec]

\* Whoever waits for a task (message/send, message/stream, tasks/resubscribe) is woken
\* when it ends, is cancelled or asks for input: no way out of its activity leaves its
\* done channel open, and continueTask never replaces an open one.
WaitersWoken == \A t \in Task : task[t].done => Active(t)

\* The state has its type.  The entry in cancels is that of the newest execution of the task, which has not
\* ended; and as long as that execution is at work on a task that is remembered and
\* may still be cancelled, the entry is there: a resumed task is never uncancelable,
\* whatever the cleanup of the execution before it does.
CancelReaches ==
    TypeOK /\ \A t \in Task :
        /\ cancels[t] # 0 => Newest(t, cancels[t]) /\ exec[cancels[t]].pc # "ended"
        /\ \A g \in Gen :
               /\ t \in tasks /\ ~IsTerminal(task[t].state)
               /\ Newest(t, g) /\ exec[g].pc \in {"begin", "run"}
               => cancels[t] = g

\* A message that a sender repeats is executed once: no two executions of the tasks
\* that are remembered were started by the same message, and the index finds it.
MessageOnce ==
    \A m \in Message :
        /\ \A t \in tasks : m \in task[t].history <=> messageIndex[m] = t
        /\ \A g, h \in Gen :
               exec[g].by = m /\ exec[h].by = m /\ {exec[g].of, exec[h].of} \subseteq tasks => g = h

\* A task that has ended stays what it is, whatever executions it still has.
TerminalFinal ==
    [][\A t \in Task : IsTerminal(task[t].state) => task'[t].state = task[t].state]_vars

\* Every task ends or asks for input: an execution that is cancelled and leaves the
\* task to a newer one is right to do so.
TaskEnds == \A t \in Task : Active(t) ~> ~Active(t)
=============================================================================
