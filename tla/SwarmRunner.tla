---------------------------- MODULE SwarmRunner ----------------------------
(***************************************************************************)
(* The goroutines that share a team's task board (internal/swarm):         *)
(*                                                                         *)
(*  - every teammate runs runTeammateLoop: it polls the board, claims the  *)
(*    oldest task it may start, runs it and writes the outcome back, or    *)
(*    runs a message from its inbox;                                       *)
(*  - callers of the tools of internal/tool (the leader's agent, and the   *)
(*    teammates' own agents) create, claim, complete and review tasks.     *)
(*                                                                         *)
(* Every call on the board is atomic (TaskBoard); what lies between two    *)
(* calls is not, so a step here is one call.  The oldest task has the      *)
(* smallest number: no tool writes a task's priority, so effectivePriority *)
(* is the age.  The loops read no timestamp but UpdatedAt of the latest    *)
(* task of a teammate, which stands here for any task the teammate owns.   *)
(* A teammate whose circuit is open looks at nothing until it may again:   *)
(* that is TeammateBreaker, and a poll that comes later here.              *)
(***************************************************************************)
EXTENDS TaskBoardOps, Sequences

CONSTANTS
    Teammate,           \* the teammates of the team
    Caller,             \* the agents that call the board's tools
    maxTransientTaskRetries,
    InboxSize,          \* capacity of a teammate's inbox
    Drafts,             \* bound: the assignee and the dependencies of a new task
    MaxCalls,           \* bound: claims, completions and reviews by tools
    MaxFaults           \* bound: cancelled or panicking teammates

ASSUME TeammateAssumption == Teammate = Owner
ASSUME BoundAssumption ==
    /\ maxTransientTaskRetries \in Nat \ {0}
    /\ InboxSize \in Nat
    /\ Drafts \subseteq (Owner \cup {NoOwner}) \X SUBSET TaskID
    /\ MaxCalls \in Nat
    /\ MaxFaults \in Nat

VARIABLES
    board,      \* Team.Tasks
    nextID,     \* its counter
    assignee,   \* Metadata["assignee"] of a task
    pc,         \* where each teammate's goroutine is
    todo,       \* the tasks a teammate listed, with the blockers it read
    job,        \* what a teammate runs
    inbox,      \* Teammate.Inbox
    cancelled,  \* the teammates whose context is cancelled
    call,       \* what each caller is in the middle of
    calls,      \* calls made so far
    faults,     \* faults so far
    marks       \* history of a task, for the properties only

vars == <<board, nextID, assignee, pc, todo, job, inbox, cancelled, call, calls,
          faults, marks>>

-----------------------------------------------------------------------------
(* Values *)

Where == {"idle", "check", "claim", "run", "write", "notify", "mail", "unwind", "stopped"}

Outcome == {"none", "ok", "transient", "permanent", "cancelled"}

\* job.task is Teammate.CurrentTaskID (0 for the empty string), attempts the
\* retry_attempts of the snapshot the claim returned, mail the task whose
\* prompt came through the inbox.
Job == [task : TaskID \cup {0}, mail : TaskID \cup {0}, attempts : Nat, outcome : Outcome]

NoJob == [task |-> 0, mail |-> 0, attempts |-> 0, outcome |-> "none"]

\* A mail names the task it is the prompt of; a review note and the
\* "task_available" hint name none.
Mail == [type : {"task", "message", "task_available"}, id : TaskID \cup {0}]

Hint == [type |-> "task_available", id |-> 0]
Note == [type |-> "message", id |-> 0]

CallOp == {"none", "link", "undo", "deliver", "claim", "complete", "approve", "reset"}

Call == [op : CallOp, id : TaskID \cup {0}, deps : SUBSET TaskID,
         by : Owner \cup {NoOwner}, was : Status]

NoCall == [op |-> "none", id |-> 0, deps |-> {}, by |-> NoOwner, was |-> "pending"]

\* "tool": claimed by swarm_task_claim; "raced": linked to its dependencies
\* when a teammate had already listed it; "reopened": reset by a review;
\* "stolen": given back while a teammate was running it; "cancelled": requeued by a
\* cancelled teammate; "delivered": its prompt came through an inbox and was
\* run to the end; "succeeded": the last run that wrote it back succeeded.
Mark == {"tool", "raced", "reopened", "stolen", "cancelled", "delivered", "succeeded"}

-----------------------------------------------------------------------------
(* Reading and writing the board *)

\* Update, which changes nothing when it refuses.
Apply(b, id, o) == IF Refused(b, id, o) THEN b ELSE Updated(b, id, o)

Cas(from, to) == [NoOptions EXCEPT !.expected = from, !.status = to]

\* Mutant: the claim does not expect the task to be pending.
ClaimAnyFor(o) == [NoOptions EXCEPT !.status = "in_progress", !.owner = o]

ClaimFor(o) == [Cas("pending", "in_progress") EXCEPT !.owner = o]

\* Back to the board after a failure, with one more attempt counted.
Requeue(attempts) ==
    [Cas("in_progress", "pending") EXCEPT
        !.owner = NoOwner, !.meta = [KeepMeta EXCEPT !["retry_attempts"] = attempts]]

\* Out of retries: completed, with a permanent_error.
Park(attempts) ==
    [Cas("in_progress", "completed") EXCEPT
        !.meta = [KeepMeta EXCEPT !["retry_attempts"] = attempts, !["permanent_error"] = 1]]

\* Mutant: the rollback has lost its retry bound.
RetryForever(attempts) == Requeue(attempts)

RetryOrPark(attempts) ==
    IF attempts >= maxTransientTaskRetries THEN Park(attempts) ELSE Requeue(attempts)

\* Mutant: the write-back does not expect the task to be in progress.
WriteBackNoCas(j) ==
    CASE j.outcome = "ok" -> [NoOptions EXCEPT !.status = "completed"]
      [] j.outcome = "permanent" -> [Park(Unset) EXCEPT !.expected = Unset]
      [] j.outcome = "transient" -> [RetryOrPark(j.attempts + 1) EXCEPT !.expected = Unset]
      [] j.outcome = "cancelled" -> [Requeue(j.attempts + 1) EXCEPT !.expected = Unset]

\* What a teammate writes when its run is over.  A cancelled one requeues the
\* task however often it has been tried.
WriteBack(j) ==
    CASE j.outcome = "ok" -> Cas("in_progress", "completed")
      [] j.outcome = "permanent" -> Park(Unset)
      [] j.outcome = "transient" -> RetryOrPark(j.attempts + 1)
      [] j.outcome = "cancelled" -> Requeue(j.attempts + 1)

\* Mutant: a blocker that was parked counts as done.
ParkedCountsAsDone(b, deps) == \A d \in deps : HasTask(b, d) /\ b[d].status = "completed"

allBlockersComplete(b, deps) ==
    \A d \in deps : /\ b[d].status = "completed"
                    /\ b[d].meta["permanent_error"] = 0

\* The tools look at the status alone.
unmetDependencies(b, id) == {d \in b[id].blockedBy : b[d].status # "completed"}

\* Mutant: only tasks assigned to the teammate are listed.
ListingAssigned(t) ==
    {<<id, board[id].blockedBy>> :
        id \in {x \in TaskID : board[x].status = "pending" /\ assignee[x] = t}}

\* The pending tasks a teammate may take, each with the blockers it had when
\* the board was listed.
Listing(t) ==
    {<<id, board[id].blockedBy>> :
        id \in {x \in TaskID : board[x].status = "pending" /\ assignee[x] \in {NoOwner, t}}}

Oldest(S) == {p \in S : \A q \in S : p[1] <= q[1]}

\* From the claim to the write-back.
Runs(t, id) == job[t].task = id /\ pc[t] \in {"run", "write"}

\* ... or to the rollback of a panic.
Holds(t, id) == job[t].task = id /\ pc[t] \in {"run", "write", "unwind"}

\* The mark of a task that goes back to the board while a teammate runs it.
Stolen(id, by) == IF \E u \in Teammate \ by : Runs(u, id) THEN {"stolen"} ELSE {}

-----------------------------------------------------------------------------
(* A teammate: runTeammateLoop *)

boardVars == <<board, nextID, assignee, marks>>
callVars == <<call, calls>>
faultVars == <<cancelled, faults>>

\* The poll ticker, when there is something to look at.
Poll(t) ==
    /\ pc[t] = "idle" /\ t \notin cancelled
    /\ Listing(t) # {}
    /\ todo' = [todo EXCEPT ![t] = Listing(t)]
    /\ pc' = [pc EXCEPT ![t] = "check"]
    /\ UNCHANGED <<boardVars, job, inbox, callVars, faultVars>>

\* A "task_available" hint does what the ticker does.
TakeHint(t) ==
    /\ pc[t] = "idle" /\ t \notin cancelled
    /\ inbox[t] # <<>> /\ Head(inbox[t]) = Hint
    /\ inbox' = [inbox EXCEPT ![t] = Tail(@)]
    /\ todo' = [todo EXCEPT ![t] = Listing(t)]
    /\ pc' = [pc EXCEPT ![t] = IF Listing(t) = {} THEN "idle" ELSE "check"]
    /\ UNCHANGED <<boardVars, job, callVars, faultVars>>

\* tryClaimPendingTask looks up the blockers of what it listed.
CheckBlockers(t) ==
    LET eligible == {p \in todo[t] : allBlockersComplete(board, p[2])}
    IN  /\ pc[t] = "check"
        /\ todo' = [todo EXCEPT ![t] = eligible]
        /\ pc' = [pc EXCEPT ![t] = IF eligible = {} THEN "idle" ELSE "claim"]
        /\ UNCHANGED <<boardVars, job, inbox, callVars, faultVars>>

\* Mutant: CurrentTaskID is not recorded with the claim.
ForgottenTask(id, attempts) == [NoJob EXCEPT !.attempts = attempts]

\* What a teammate remembers of the task it claimed.
Claimed(id, attempts) == [NoJob EXCEPT !.task = id, !.attempts = attempts]

\* The claim of the oldest eligible task: on success CurrentTaskID is set and
\* the run starts, otherwise the next one is tried.
Claim(t) ==
    \E p \in Oldest(todo[t]) :
        LET id == p[1]
            rest == todo[t] \ {p}
        IN  /\ pc[t] = "claim"
            /\ \/ /\ ~Refused(board, id, ClaimFor(t))
                  /\ board' = Updated(board, id, ClaimFor(t))
                  /\ job' = [job EXCEPT ![t] = Claimed(id, board[id].meta["retry_attempts"])]
                  /\ marks' = [marks EXCEPT ![id] = @ \ {"tool", "succeeded"}]
                  /\ todo' = [todo EXCEPT ![t] = {}]
                  /\ pc' = [pc EXCEPT ![t] = "run"]
               \/ /\ Refused(board, id, ClaimFor(t))
                  /\ todo' = [todo EXCEPT ![t] = rest]
                  /\ pc' = [pc EXCEPT ![t] = IF rest = {} THEN "idle" ELSE "claim"]
                  /\ UNCHANGED <<board, job, marks>>
            /\ UNCHANGED <<nextID, assignee, inbox, callVars, faultVars>>

\* executeTask returns and the context is looked at.
Finish(t, outcome) ==
    /\ pc[t] = "run"
    /\ job' = [job EXCEPT ![t] =
                  [job[t] EXCEPT !.outcome = IF t \in cancelled THEN "cancelled" ELSE outcome]]
    /\ pc' = [pc EXCEPT ![t] = "write"]
    /\ UNCHANGED <<boardVars, todo, inbox, callVars, faultVars>>

\* The outcome goes to the board.
Write(t) ==
    LET id == job[t].task
        o == WriteBack(job[t])
    IN  /\ pc[t] = "write"
        /\ board' = Apply(board, id, o)
        /\ marks' = IF Refused(board, id, o) THEN marks
                    ELSE [marks EXCEPT ![id] = @ \cup
                            (IF job[t].outcome = "ok" THEN {"succeeded"} ELSE {}) \cup
                            (IF job[t].outcome = "cancelled" THEN {"cancelled"} ELSE {})]
        /\ pc' = [pc EXCEPT ![t] = "notify"]
        /\ UNCHANGED <<nextID, assignee, todo, job, inbox, callVars, faultVars>>

\* The events have been emitted: back to the loop, or out of it.
Settle(t) ==
    /\ pc[t] = "notify"
    /\ IF job[t].outcome = "cancelled"
         THEN /\ pc' = [pc EXCEPT ![t] = "stopped"]
              /\ UNCHANGED job
         ELSE /\ pc' = [pc EXCEPT ![t] = "idle"]
              /\ job' = [job EXCEPT ![t] = NoJob]
    /\ UNCHANGED <<boardVars, todo, inbox, callVars, faultVars>>

\* handleMessage: the content of a mail is run; the board is not touched.
TakeMail(t) ==
    /\ pc[t] = "idle" /\ t \notin cancelled
    /\ inbox[t] # <<>> /\ Head(inbox[t]) # Hint
    /\ inbox' = [inbox EXCEPT ![t] = Tail(@)]
    /\ job' = [job EXCEPT ![t] = [NoJob EXCEPT !.mail = Head(inbox[t]).id]]
    /\ pc' = [pc EXCEPT ![t] = "mail"]
    /\ UNCHANGED <<boardVars, todo, callVars, faultVars>>

FinishMail(t, ok) ==
    /\ pc[t] = "mail"
    /\ marks' = IF ok /\ job[t].mail # 0
                THEN [marks EXCEPT ![job[t].mail] = @ \cup {"delivered"}] ELSE marks
    /\ job' = [job EXCEPT ![t] = NoJob]
    /\ pc' = [pc EXCEPT ![t] = IF t \in cancelled THEN "stopped" ELSE "idle"]
    /\ UNCHANGED <<board, nextID, assignee, todo, inbox, callVars, faultVars>>

\* ctx.Done, or any other case of the select once the context is cancelled.
LeaveLoop(t) ==
    /\ pc[t] = "idle" /\ t \in cancelled
    /\ pc' = [pc EXCEPT ![t] = "stopped"]
    /\ UNCHANGED <<boardVars, todo, job, inbox, callVars, faultVars>>

\* A panic in the agent or in an event callback: the deferred handler reads
\* the task of CurrentTaskID, which is empty while a mail is run and again
\* when the last event of a run is emitted ...
Panic(t) ==
    LET id == job[t].task
    IN  /\ faults < MaxFaults
        /\ faults' = faults + 1
        /\ pc[t] \in {"run", "notify", "mail"}
        /\ \/ /\ id # 0 /\ HasTask(board, id)
              /\ job' = [job EXCEPT ![t] =
                            [job[t] EXCEPT !.attempts = board[id].meta["retry_attempts"]]]
              /\ pc' = [pc EXCEPT ![t] = "unwind"]
           \/ /\ id # 0 /\ HasTask(board, id) => pc[t] = "notify" /\ job[t].outcome # "cancelled"
              /\ pc' = [pc EXCEPT ![t] = "stopped"]
              /\ job' = [job EXCEPT ![t] = NoJob]
        /\ UNCHANGED <<boardVars, todo, inbox, callVars, cancelled>>

\* ... and rollbackClaimedTask puts it back on the board.
Rollback(t) ==
    LET id == job[t].task
        o == RetryOrPark(job[t].attempts + 1)
    IN  /\ pc[t] = "unwind"
        /\ board' = Apply(board, id, o)
        /\ marks' = IF Refused(board, id, o) THEN marks
                    ELSE [marks EXCEPT ![id] = @ \cup Stolen(id, {t})]
        /\ pc' = [pc EXCEPT ![t] = "stopped"]
        /\ UNCHANGED <<nextID, assignee, todo, job, inbox, callVars, faultVars>>

\* ShutdownTeammate, CancelAll and DeleteTeam cancel the context.
Cancel(t) ==
    /\ faults < MaxFaults /\ t \notin cancelled /\ pc[t] # "stopped"
    /\ faults' = faults + 1
    /\ cancelled' = cancelled \cup {t}
    /\ UNCHANGED <<boardVars, pc, todo, job, inbox, callVars>>

-----------------------------------------------------------------------------
(* The tools *)

teamVars == <<pc, todo, job>>

\* Mutant: the channel has no capacity.
CanSendAlways(t) == t \notin cancelled /\ pc[t] # "stopped"

\* SendToTeammate accepts the mail.
CanSend(t) == t \notin cancelled /\ pc[t] # "stopped" /\ Len(inbox[t]) < InboxSize

Idle(t) == t \notin cancelled /\ pc[t] \in {"idle", "check", "claim"}

Start(c, op) ==
    /\ call[c].op = "none"
    /\ calls < MaxCalls
    /\ calls' = calls + 1
    /\ call' = [call EXCEPT ![c] = op]

Return(c) == call' = [call EXCEPT ![c] = NoCall]

\* swarm_task_create: the task is on the board before its dependencies are.
CreateTask(c, who, deps) ==
    /\ call[c].op = "none"
    /\ nextID + 1 \in TaskID
    /\ nextID' = nextID + 1
    /\ board' = [board EXCEPT ![nextID + 1] = NewTask]
    /\ assignee' = [assignee EXCEPT ![nextID + 1] = who]
    /\ call' = [call EXCEPT ![c] = [NoCall EXCEPT
                   !.op = IF deps = {} THEN "deliver" ELSE "link",
                   !.id = nextID + 1, !.deps = deps]]
    /\ UNCHANGED <<marks, teamVars, inbox, calls, faultVars>>

Listed(id) == \E t \in Teammate : \E p \in todo[t] : p[1] = id

\* The dependencies are added, or refused.
LinkTask(c) ==
    LET id == call[c].id
        o == [NoOptions EXCEPT !.addBlockedBy = call[c].deps]
    IN  /\ call[c].op = "link"
        /\ board' = Apply(board, id, o)
        /\ call' = [call EXCEPT ![c].op = IF Refused(board, id, o) THEN "undo" ELSE "deliver"]
        /\ marks' = IF Listed(id) \/ board[id].status # "pending"
                    THEN [marks EXCEPT ![id] = @ \cup {"raced"}] ELSE marks
        /\ UNCHANGED <<nextID, assignee, teamVars, inbox, calls, faultVars>>

\* The task of a refused call is deleted again.
UndoCreate(c) ==
    /\ call[c].op = "undo"
    /\ board' = Deleted(board, call[c].id)
    /\ Return(c)
    /\ UNCHANGED <<nextID, assignee, marks, teamVars, inbox, calls, faultVars>>

\* A task nothing blocks goes to its assignee's inbox, or is announced to the
\* teammates that are idle; a full inbox drops it, and it stays on the board.
Deliver(c) ==
    LET id == call[c].id
        mail == IF assignee[id] = NoOwner THEN Hint ELSE [type |-> "task", id |-> id]
        to == IF unmetDependencies(board, id) # {} THEN {}
              ELSE IF assignee[id] # NoOwner THEN {t \in Teammate : t = assignee[id] /\ CanSend(t)}
              ELSE {t \in Teammate : Idle(t) /\ CanSend(t)}
    IN  /\ call[c].op = "deliver"
        /\ inbox' = [t \in Teammate |-> IF t \in to THEN Append(inbox[t], mail) ELSE inbox[t]]
        /\ Return(c)
        /\ UNCHANGED <<boardVars, teamVars, calls, faultVars>>

\* swarm_task_claim looks at the assignee and the dependencies ...
ClaimCheck(c, id, t) ==
    /\ HasTask(board, id)
    /\ assignee[id] \in {NoOwner, t}
    /\ unmetDependencies(board, id) = {}
    /\ Start(c, [NoCall EXCEPT !.op = "claim", !.id = id, !.by = t])
    /\ UNCHANGED <<boardVars, teamVars, inbox, faultVars>>

\* ... and then claims, unless the team's board file still shows a claim
\* (BoardPersist): then nothing is written, and the call may even succeed.
ClaimWrite(c) ==
    LET id == call[c].id
        o == ClaimFor(call[c].by)
    IN  /\ call[c].op = "claim"
        /\ \/ /\ board' = Apply(board, id, o)
              /\ marks' = IF Refused(board, id, o) THEN marks
                          ELSE [marks EXCEPT ![id] = (@ \cup {"tool"}) \ {"succeeded"}]
           \/ UNCHANGED <<board, marks>>
        /\ Return(c)
        /\ UNCHANGED <<nextID, assignee, teamVars, inbox, calls, faultVars>>

\* swarm_task_complete.
CompleteCheck(c, id) ==
    /\ HasTask(board, id)
    /\ board[id].status # "completed"
    /\ Start(c, [NoCall EXCEPT !.op = "complete", !.id = id, !.was = board[id].status])
    /\ UNCHANGED <<boardVars, teamVars, inbox, faultVars>>

CompleteWrite(c) ==
    /\ call[c].op = "complete"
    /\ board' = Apply(board, call[c].id, Cas(call[c].was, "completed"))
    /\ Return(c)
    /\ UNCHANGED <<nextID, assignee, marks, teamVars, inbox, calls, faultVars>>

\* team_review_decide with "approve": the latest task of the teammate ...
Approve(c, t, id) ==
    /\ HasTask(board, id) /\ board[id].owner = t
    /\ Start(c, [NoCall EXCEPT !.op = "approve", !.id = id])
    /\ UNCHANGED <<boardVars, teamVars, inbox, faultVars>>

\* ... is completed, whatever its status is by now.
ApproveWrite(c) ==
    /\ call[c].op = "approve"
    /\ board' = Apply(board, call[c].id, [NoOptions EXCEPT !.status = "completed"])
    /\ Return(c)
    /\ UNCHANGED <<nextID, assignee, marks, teamVars, inbox, calls, faultVars>>

\* "changes" and "reject": the note is sent, and if the latest task was
\* completed when it was read, it is reset.
Bounce(c, t, id) ==
    /\ HasTask(board, id) /\ board[id].owner = t
    /\ CanSend(t)
    /\ inbox' = [inbox EXCEPT ![t] = Append(@, Note)]
    /\ Start(c, IF board[id].status = "completed"
                THEN [NoCall EXCEPT !.op = "reset", !.id = id] ELSE NoCall)
    /\ UNCHANGED <<boardVars, teamVars, faultVars>>

\* send_message, and a review of a teammate that owns no task.
SendNote(c, t) ==
    /\ CanSend(t)
    /\ inbox' = [inbox EXCEPT ![t] = Append(@, Note)]
    /\ Start(c, NoCall)
    /\ UNCHANGED <<boardVars, teamVars, faultVars>>

BounceReset(c) ==
    LET id == call[c].id
    IN  /\ call[c].op = "reset"
        /\ board' = Apply(board, id, [NoOptions EXCEPT !.status = "pending"])
        /\ marks' = [marks EXCEPT ![id] = @ \cup {"reopened"} \cup Stolen(id, {})]
        /\ Return(c)
        /\ UNCHANGED <<nextID, assignee, teamVars, inbox, calls, faultVars>>

-----------------------------------------------------------------------------
Init ==
    /\ board = EmptyBoard
    /\ nextID = 0
    /\ assignee = [id \in TaskID |-> NoOwner]
    /\ pc = [t \in Teammate |-> "idle"]
    /\ todo = [t \in Teammate |-> {}]
    /\ job = [t \in Teammate |-> NoJob]
    /\ inbox = [t \in Teammate |-> <<>>]
    /\ cancelled = {}
    /\ call = [c \in Caller |-> NoCall]
    /\ calls = 0
    /\ faults = 0
    /\ marks = [id \in TaskID |-> {}]

\* What the goroutine of a teammate does by itself.
Run(t) ==
    \/ Poll(t) \/ TakeHint(t) \/ CheckBlockers(t) \/ Claim(t)
    \/ \E o \in {"ok", "transient", "permanent"} : Finish(t, o)
    \/ Write(t) \/ Settle(t)
    \/ TakeMail(t) \/ (\E ok \in BOOLEAN : FinishMail(t, ok))
    \/ LeaveLoop(t) \/ Rollback(t)

\* The second and later steps of a tool call.
Proceed(c) ==
    \/ LinkTask(c) \/ UndoCreate(c) \/ Deliver(c)
    \/ ClaimWrite(c) \/ CompleteWrite(c) \/ ApproveWrite(c) \/ BounceReset(c)

Begin(c) ==
    \/ \E d \in Drafts : CreateTask(c, d[1], d[2])
    \/ \E t \in Teammate : SendNote(c, t)
    \/ \E id \in TaskID :
          \/ CompleteCheck(c, id)
          \/ \E t \in Teammate :
                ClaimCheck(c, id, t) \/ Approve(c, t, id) \/ Bounce(c, t, id)

Next ==
    \/ \E t \in Teammate : Run(t) \/ Panic(t) \/ Cancel(t)
    \/ \E c \in Caller : Begin(c) \/ Proceed(c)

Spec == Init /\ [][Next]_vars

\* A goroutine of the Go runtime that can take a step takes one: the ticker
\* keeps firing, the agent's run ends (executeTask has a timeout) and a tool
\* call that was started is finished.
Fairness ==
    /\ \A t \in Teammate : WF_vars(Run(t))
    /\ \A c \in Caller : WF_vars(Proceed(c))

FairSpec == Spec /\ Fairness

-----------------------------------------------------------------------------
(* Properties *)

\* Every variable has its type: a stopped, cancelled or panicking teammate
\* never leaves a half-written record behind, and no inbox overflows.
TypeOK ==
    /\ board \in [TaskID -> Task]
    /\ nextID \in Nat
    /\ assignee \in [TaskID -> Owner \cup {NoOwner}]
    /\ pc \in [Teammate -> Where]
    /\ todo \in [Teammate -> SUBSET (TaskID \X SUBSET TaskID)]
    /\ job \in [Teammate -> Job]
    /\ inbox \in [Teammate -> Seq(Mail)]
    /\ \A t \in Teammate : Len(inbox[t]) <= InboxSize
    /\ cancelled \subseteq Teammate
    /\ call \in [Caller -> Call]
    /\ calls \in 0 .. MaxCalls
    /\ faults \in 0 .. MaxFaults
    /\ marks \in [TaskID -> SUBSET Mark]

\* A task that is in progress and was not claimed through swarm_task_claim
\* has a teammate that will still write to it: no cancellation and no panic,
\* wherever it strikes, leaves a claim nobody will ever give back.
NoLeakedClaim ==
    \A id \in TaskID :
        board[id].status = "in_progress" /\ "tool" \notin marks[id]
            => \E t \in Teammate : Holds(t, id)

\* Two teammates run one task only after a review, or the rollback of a
\* teammate that had panicked, took it from the first while it ran: whatever
\* they listed, and however late, the claims exclude each other.
OneRunnerPerTask ==
    \A t, u \in Teammate : \A id \in TaskID :
        t # u /\ Runs(t, id) /\ Runs(u, id) => "stolen" \in marks[id]

\* A task a teammate claimed from the board has its blockers completed and
\* not parked, unless its dependencies were added after it had been listed
\* or a review reopened one of them.
DependentsWait ==
    \A id \in TaskID :
        board[id].status = "in_progress" /\ marks[id] \cap {"tool", "raced"} = {} =>
            \A d \in board[id].blockedBy :
                \/ board[d].status = "completed" /\ board[d].meta["permanent_error"] = 0
                \/ "reopened" \in marks[d]

\* A task that has used up its retries is not offered again, unless a review
\* reopened it or a cancelled teammate gave it back.
RetriesBounded ==
    \A id \in TaskID :
        /\ board[id].status \in {"pending", "in_progress"}
        /\ board[id].meta["retry_attempts"] >= maxTransientTaskRetries
        => marks[id] \cap {"reopened", "cancelled"} # {}

\* Only a review, or the deletion of a task whose dependencies were refused,
\* takes a task out of completed: a late write-back of a teammate that lost
\* its task does not.
CompletedStays ==
    [][\A id \in TaskID :
          board[id].status = "completed" /\ board'[id].status # "completed" =>
              \E c \in Caller : call[c].id = id /\ call[c].op \in {"reset", "undo"}]_vars

\* The dependencies of a team's tasks stay mirrored and acyclic while tasks
\* are created, linked, claimed and deleted concurrently.
SharedBoardSound == Sound(board, nextID)

\* A teammate that is running or unwinding knows its task, one that writes
\* back knows the outcome, and a tool call knows its task.
Bookkeeping ==
    /\ \A t \in Teammate :
          /\ job[t].task <= nextID
          /\ pc[t] \in {"run", "write", "unwind"} => job[t].task # 0
          /\ pc[t] = "write" => job[t].outcome # "none"
    /\ \A c \in Caller : call[c].op # "none" => call[c].id # 0

\* The state has its type, no teammate and no tool has lost the task it is
\* about, and the shared board stays mirrored, acyclic and numbered under any
\* interleaving of them.
Typed == TypeOK /\ Bookkeeping /\ SharedBoardSound

Alive(t) == t \notin cancelled /\ pc[t] # "stopped"

\* Every task that may be started is taken, or stops being startable, or has
\* no teammate left to take it: neither the races for older tasks nor the
\* mail in between starve it.
ReadyTaskIsTaken ==
    \A id \in TaskID :
        (board[id].status = "pending" /\ allBlockersComplete(board, board[id].blockedBy))
        ~> \/ board[id].status # "pending"
           \/ ~allBlockersComplete(board, board[id].blockedBy)
           \/ ~\E t \in Teammate : Alive(t) /\ assignee[id] \in {NoOwner, t}

-----------------------------------------------------------------------------
(* What the repository says, and the code does not do *)

\* "claiming is rejected while any dependency is not completed" (the
\* depends_on parameter of swarm_task_create): a task in progress has every
\* dependency completed, as long as no review reopens one.
DependenciesGateClaims ==
    \A id \in TaskID : board[id].status = "in_progress" =>
        \A d \in board[id].blockedBy : board[d].status = "completed" \/ "reopened" \in marks[d]

\* "the rollback must only ever act on a task THIS teammate is still running"
\* (rollbackClaimedTask): the task it changes is still owned by the teammate.
RollbackActsOnOwnTask ==
    [][\A t \in Teammate : Rollback(t) /\ board' # board => board[job[t].task].owner = t]_vars

\* "The teammate runner will update the task board when you finish" and "do
\* not re-claim it from the board first" (formatTaskPrompt): a task that was
\* delivered through the inbox and run to the end is not run again.
DeliveredTaskRunsOnce ==
    \A t \in Teammate : \A id \in TaskID :
        Holds(t, id) => "delivered" \notin marks[id] \/ "reopened" \in marks[id]

\* "stays blocked on the board and unblocks automatically once every
\* dependency completes" (docs/ARCHITECTURE.md): a task whose last run
\* succeeded does not keep its dependents blocked.
SuccessUnblocksDependents ==
    \A id \in TaskID :
        board[id].status = "completed" /\ "succeeded" \in marks[id]
            => allBlockersComplete(board, {id})
=============================================================================
