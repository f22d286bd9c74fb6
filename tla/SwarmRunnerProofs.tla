------------------------- MODULE SwarmRunnerProofs -------------------------
(***************************************************************************)
(* Proofs about SwarmRunner, for any number of tasks, teammates and        *)
(* callers and any bounds: the shared board stays sound, a claim is never  *)
(* leaked, two teammates run one task only after it was taken from the     *)
(* first, a completed task stays completed, retries end, and a task that   *)
(* is run has its blockers completed.                                      *)
(***************************************************************************)
EXTENDS SwarmRunner, TaskBoardOpsProofs

-----------------------------------------------------------------------------
(* The requests the goroutines make *)

\* A compare-and-swap of the status is a request that touches nothing else.
LEMMA CasRequest ==
    ASSUME NEW from \in Status \cup {Unset}, NEW to \in Status
    PROVE  LET o == Cas(from, to)
           IN  /\ o \in Options
               /\ o.expected = from /\ o.status = to /\ o.owner = Unset
               /\ o.addBlocks = {} /\ o.addBlockedBy = {}
               /\ o.meta = KeepMeta
BY DEF Cas, NoOptions, Options, KeepMeta

\* A claim changes the status of a pending task and its owner.
LEMMA ClaimRequest ==
    ASSUME NEW w \in Owner \cup {NoOwner}
    PROVE  LET o == ClaimFor(w)
           IN  /\ o \in Options
               /\ o.expected = "pending" /\ o.status = "in_progress"
               /\ o.addBlocks = {} /\ o.addBlockedBy = {}
               /\ o.meta = KeepMeta
<1> DEFINE c == Cas("pending", "in_progress")
<1>1. /\ c \in Options /\ c.expected = "pending" /\ c.status = "in_progress"
      /\ c.addBlocks = {} /\ c.addBlockedBy = {} /\ c.meta = KeepMeta
  BY CasRequest DEF Status
<1>2. ClaimFor(w) = [c EXCEPT !.owner = w]
  BY DEF ClaimFor
<1> HIDE DEF c
<1> QED BY <1>1, <1>2 DEF Options

\* A requeue makes a task in progress pending again.
LEMMA RequeueRequest ==
    ASSUME NEW n \in Nat
    PROVE  LET o == Requeue(n)
           IN  /\ o \in Options
               /\ o.expected = "in_progress" /\ o.status = "pending"
               /\ o.addBlocks = {} /\ o.addBlockedBy = {}
               /\ o.meta["retry_attempts"] = n /\ o.meta["permanent_error"] = Unset
<1> DEFINE c == Cas("in_progress", "pending")
           m == [KeepMeta EXCEPT !["retry_attempts"] = n]
<1>1. /\ c \in Options /\ c.expected = "in_progress" /\ c.status = "pending"
      /\ c.addBlocks = {} /\ c.addBlockedBy = {} /\ c.meta = KeepMeta
  BY CasRequest DEF Status
<1>2. /\ m \in [MetaKey -> Nat \cup {Unset}]
      /\ m["retry_attempts"] = n /\ m["permanent_error"] = Unset
  BY DEF KeepMeta, MetaKey
<1>3. Requeue(n) = [c EXCEPT !.owner = NoOwner, !.meta = m]
  BY DEF Requeue
<1> HIDE DEF c, m
<1> QED BY <1>1, <1>2, <1>3 DEF Options

\* Parking completes a task in progress.
LEMMA ParkRequest ==
    ASSUME NEW n \in Nat \cup {Unset}
    PROVE  LET o == Park(n)
           IN  /\ o \in Options
               /\ o.expected = "in_progress" /\ o.status = "completed"
               /\ o.addBlocks = {} /\ o.addBlockedBy = {}
<1> DEFINE c == Cas("in_progress", "completed")
           m == [KeepMeta EXCEPT !["retry_attempts"] = n, !["permanent_error"] = 1]
<1>1. /\ c \in Options /\ c.expected = "in_progress" /\ c.status = "completed"
      /\ c.addBlocks = {} /\ c.addBlockedBy = {} /\ c.meta = KeepMeta
  BY CasRequest DEF Status
<1>2. m \in [MetaKey -> Nat \cup {Unset}]
  BY DEF KeepMeta, MetaKey
<1>3. Park(n) = [c EXCEPT !.meta = m]
  BY DEF Park
<1> HIDE DEF c, m
<1> QED BY <1>1, <1>2, <1>3 DEF Options

\* What a teammate writes back is a compare-and-swap from in_progress to
\* completed or to pending.
LEMMA WriteBackRequest ==
    ASSUME NEW j \in Job, j.outcome # "none"
    PROVE  LET o == WriteBack(j)
           IN  /\ o \in Options
               /\ o.expected = "in_progress" /\ o.status \in {"completed", "pending"}
               /\ o.addBlocks = {} /\ o.addBlockedBy = {}
<1>1. j.attempts + 1 \in Nat /\ j.outcome \in {"ok", "transient", "permanent", "cancelled"}
  BY DEF Job, Outcome
<1>2. CASE j.outcome = "ok"
  BY <1>2, CasRequest DEF WriteBack, Status
<1>3. CASE j.outcome = "permanent"
  BY <1>3, ParkRequest DEF WriteBack
<1>4. CASE j.outcome = "transient"
  BY <1>1, <1>4, ParkRequest, RequeueRequest DEF WriteBack, RetryOrPark
<1>5. CASE j.outcome = "cancelled"
  BY <1>1, <1>5, RequeueRequest DEF WriteBack
<1> QED BY <1>1, <1>2, <1>3, <1>4, <1>5

\* So is what the rollback of a panic writes.
LEMMA RollbackRequest ==
    ASSUME NEW n \in Nat
    PROVE  LET o == RetryOrPark(n)
           IN  /\ o \in Options
               /\ o.expected = "in_progress" /\ o.status \in {"completed", "pending"}
               /\ o.addBlocks = {} /\ o.addBlockedBy = {}
BY ParkRequest, RequeueRequest DEF RetryOrPark

\* The reviews set the status whatever it is; linking sets the dependencies.
LEMMA OtherRequests ==
    ASSUME NEW s \in Status, NEW D \in SUBSET TaskID
    PROVE  LET o == [NoOptions EXCEPT !.status = s]
               p == [NoOptions EXCEPT !.addBlockedBy = D]
           IN  /\ o \in Options /\ o.expected = Unset /\ o.status = s
               /\ o.addBlocks = {} /\ o.addBlockedBy = {}
               /\ p \in Options /\ p.expected = Unset /\ p.status = Unset
BY DEF NoOptions, Options, KeepMeta

\* A request, refused or not, keeps the board sound.
LEMMA ApplySound ==
    ASSUME NEW b \in [TaskID -> Task], NEW n, NEW id \in TaskID, NEW o \in Options,
           Sound(b, n)
    PROVE  Apply(b, id, o) \in [TaskID -> Task] /\ Sound(Apply(b, id, o), n)
BY UpdateKeepsSound DEF Apply

\* A request without edges is refused exactly when the task is missing or not
\* in the expected status.
LEMMA PlainRefusal ==
    ASSUME NEW b, NEW id, NEW o, o.addBlocks = {}, o.addBlockedBy = {}
    PROVE  Refused(b, id, o) <=> ~HasTask(b, id) \/ (o.expected # Unset /\ b[id].status # o.expected)
BY DEF Refused

\* What a request does to the statuses.
LEMMA ApplyStatus ==
    ASSUME NEW b \in [TaskID -> Task], NEW id \in TaskID, NEW o \in Options
    PROVE  LET a == Apply(b, id, o)
           IN  /\ \A x \in TaskID \ {id} : a[x].status = b[x].status /\ a[x].meta = b[x].meta
               /\ Refused(b, id, o) => a = b
               /\ ~Refused(b, id, o) => a[id].status = Choose(o.status, b[id].status)
<1>1. ~Refused(b, id, o) => HasTask(b, id)
  BY DEF Refused
<1> QED BY <1>1, UpdatedFields DEF Apply

-----------------------------------------------------------------------------
(* Types, and the board *)

\* Initially everything is empty.
LEMMA InitTyped == Init => Typed
<1> SUFFICES ASSUME Init PROVE Typed
  OBVIOUS
<1>1. EmptyBoard \in [TaskID -> Task] /\ Sound(EmptyBoard, 0)
  BY DEF EmptyBoard, NoTask, NoMeta, Task, Sound, Mirrored, AcyclicBoard, Numbered,
         Live, HasTask
<1>2. NoJob \in Job /\ NoJob.task = 0 /\ NoCall \in Call /\ NoCall.op = "none"
  BY DEF NoJob, Job, Outcome, NoCall, Call, CallOp, Status
<1>3. TypeOK
  BY <1>1, <1>2, BoundAssumption DEF Init, TypeOK, Where
<1> QED BY <1>1, <1>2, <1>3 DEF Typed, Bookkeeping, SharedBoardSound, Init

\* Taking a mail, and putting one into an inbox that has room.
LEMMA InboxTail ==
    ASSUME NEW q \in Seq(Mail), Len(q) <= InboxSize, q # <<>>
    PROVE  /\ Head(q) \in Mail /\ Tail(q) \in Seq(Mail) /\ Len(Tail(q)) <= InboxSize
           /\ Head(q).id \in TaskID \cup {0}
<1>1. Head(q) \in Mail /\ Tail(q) \in Seq(Mail) /\ Len(Tail(q)) = Len(q) - 1
  OBVIOUS
<1> QED BY <1>1, BoundAssumption DEF Mail

LEMMA InboxAppend ==
    ASSUME NEW q \in Seq(Mail), Len(q) < InboxSize, NEW m \in Mail
    PROVE  Append(q, m) \in Seq(Mail) /\ Len(Append(q, m)) <= InboxSize
BY BoundAssumption

\* What polling, running and stopping change is a teammate's own state.
LEMMA TeammateTyped ==
    ASSUME Typed, NEW t \in Teammate,
           \/ Poll(t) \/ CheckBlockers(t) \/ (\E o \in {"ok", "transient", "permanent"} : Finish(t, o))
           \/ Settle(t) \/ LeaveLoop(t) \/ Panic(t) \/ Cancel(t)
    PROVE  Typed'
<1> USE DEF Typed
<1>0. /\ board \in [TaskID -> Task] /\ job \in [Teammate -> Job] /\ pc \in [Teammate -> Where]
      /\ job[t] \in Job /\ nextID \in Nat /\ faults \in Nat
      /\ todo \in [Teammate -> SUBSET (TaskID \X SUBSET TaskID)]
  BY DEF TypeOK
<1>1. CASE Poll(t)
  <2>1. Listing(t) \in SUBSET (TaskID \X SUBSET TaskID)
    BY <1>0 DEF Listing, Task
  <2>2. TypeOK'
    BY <1>1, <2>1 DEF Poll, TypeOK, Where, boardVars, callVars, faultVars
  <2> QED BY <1>0, <1>1, <2>2 DEF Poll, Bookkeeping, SharedBoardSound, boardVars, callVars, faultVars
<1>2. CASE CheckBlockers(t)
  <2>1. TypeOK'
    BY <1>0, <1>2 DEF CheckBlockers, TypeOK, Where, boardVars, callVars, faultVars
  <2> QED BY <1>0, <1>2, <2>1 DEF CheckBlockers, Bookkeeping, SharedBoardSound, boardVars, callVars, faultVars
<1>3. ASSUME NEW o \in {"ok", "transient", "permanent"}, Finish(t, o) PROVE Typed'
  <2> DEFINE r == IF t \in cancelled THEN "cancelled" ELSE o
             j == [job[t] EXCEPT !.outcome = r]
  <2>1. r \in Outcome /\ r # "none"
    BY DEF Outcome
  <2>2. j \in Job /\ j.task = job[t].task /\ j.outcome = r
    BY <1>0, <2>1 DEF Job
  <2>3. job' = [job EXCEPT ![t] = j] /\ pc' = [pc EXCEPT ![t] = "write"] /\ pc[t] = "run"
    BY <1>3 DEF Finish
  <2> HIDE DEF r, j
  <2>4. TypeOK'
    BY <1>0, <1>3, <2>2, <2>3 DEF Finish, TypeOK, Where, boardVars, callVars, faultVars
  <2>5. Bookkeeping'
    BY <1>0, <1>3, <2>1, <2>2, <2>3 DEF Finish, Bookkeeping, boardVars, callVars, faultVars
  <2> QED BY <1>3, <2>4, <2>5 DEF Finish, SharedBoardSound, boardVars
<1>4. CASE Settle(t)
  <2>1. NoJob \in Job /\ NoJob.task = 0
    BY DEF NoJob, Job, Outcome
  <2>2. TypeOK'
    BY <1>0, <1>4, <2>1 DEF Settle, TypeOK, Where, boardVars, callVars, faultVars
  <2>3. Bookkeeping'
    BY <1>0, <1>4, <2>1 DEF Settle, Bookkeeping, boardVars, callVars, faultVars
  <2> QED BY <1>4, <2>2, <2>3 DEF Settle, SharedBoardSound, boardVars
<1>5. CASE LeaveLoop(t)
  BY <1>0, <1>5 DEF LeaveLoop, TypeOK, Bookkeeping, SharedBoardSound, Where, boardVars, callVars, faultVars
<1>6. CASE Panic(t)
  <2> DEFINE id == job[t].task
             j == [job[t] EXCEPT !.attempts = board[id].meta["retry_attempts"]]
  <2>1. id \in TaskID \cup {0}
    BY <1>0 DEF Job
  <2>2. ASSUME id # 0 PROVE j \in Job /\ j.task = id
    <3>1. board[id].meta["retry_attempts"] \in Nat
      BY <1>0, <2>1, <2>2 DEF Task, MetaKey
    <3> QED BY <1>0, <3>1 DEF Job
  <2>3. \/ id # 0 /\ job' = [job EXCEPT ![t] = j] /\ pc' = [pc EXCEPT ![t] = "unwind"]
        \/ pc' = [pc EXCEPT ![t] = "stopped"] /\ job' = [job EXCEPT ![t] = NoJob]
    BY <1>6 DEF Panic
  <2>6. NoJob \in Job /\ NoJob.task = 0
    BY DEF NoJob, Job, Outcome
  <2> HIDE DEF j
  <2>4. TypeOK'
    <3>1. job' \in [Teammate -> Job] /\ pc' \in [Teammate -> Where]
      BY <1>0, <2>2, <2>3, <2>6 DEF Where
    <3>2. faults' \in 0 .. MaxFaults
      BY <1>6, BoundAssumption DEF Panic, TypeOK
    <3> QED BY <1>6, <3>1, <3>2 DEF Panic, TypeOK, boardVars, callVars
  <2>5. Bookkeeping'
    BY <1>0, <1>6, <2>2, <2>3, <2>6 DEF Panic, Bookkeeping, boardVars, callVars
  <2> QED BY <1>6, <2>4, <2>5 DEF Panic, SharedBoardSound, boardVars
<1>7. CASE Cancel(t)
  BY <1>0, <1>7, BoundAssumption DEF Cancel, TypeOK, Bookkeeping, SharedBoardSound, boardVars, callVars
<1> QED BY <1>1, <1>2, <1>3, <1>4, <1>5, <1>6, <1>7

\* Mail: the inbox of a teammate only shrinks.
LEMMA MailTyped ==
    ASSUME Typed, NEW t \in Teammate,
           TakeHint(t) \/ TakeMail(t) \/ (\E ok \in BOOLEAN : FinishMail(t, ok))
    PROVE  Typed'
<1> USE DEF Typed
<1>0. /\ board \in [TaskID -> Task] /\ job \in [Teammate -> Job] /\ pc \in [Teammate -> Where]
      /\ job[t] \in Job /\ nextID \in Nat
      /\ inbox \in [Teammate -> Seq(Mail)] /\ inbox[t] \in Seq(Mail) /\ Len(inbox[t]) <= InboxSize
  BY DEF TypeOK
<1>1. CASE TakeHint(t)
  <2>1. Listing(t) \in SUBSET (TaskID \X SUBSET TaskID)
    BY <1>0 DEF Listing, Task
  <2>2. Tail(inbox[t]) \in Seq(Mail) /\ Len(Tail(inbox[t])) <= InboxSize
    BY <1>0, <1>1, InboxTail DEF TakeHint
  <2>3. TypeOK'
    BY <1>1, <2>1, <2>2 DEF TakeHint, TypeOK, Where, boardVars, callVars, faultVars
  <2> QED BY <1>0, <1>1, <2>3 DEF TakeHint, Bookkeeping, SharedBoardSound, boardVars, callVars, faultVars
<1>2. CASE TakeMail(t)
  <2> DEFINE j == [NoJob EXCEPT !.mail = Head(inbox[t]).id]
  <2>1. /\ Tail(inbox[t]) \in Seq(Mail) /\ Len(Tail(inbox[t])) <= InboxSize
        /\ Head(inbox[t]).id \in TaskID \cup {0}
    BY <1>0, <1>2, InboxTail DEF TakeMail
  <2>2. j \in Job /\ j.task = 0
    BY <2>1 DEF NoJob, Job, Outcome
  <2>3. job' = [job EXCEPT ![t] = j]
    BY <1>2 DEF TakeMail
  <2> HIDE DEF j
  <2>4. TypeOK'
    BY <1>2, <2>1, <2>2, <2>3 DEF TakeMail, TypeOK, Where, boardVars, callVars, faultVars
  <2>5. Bookkeeping'
    <3>1. pc' = [pc EXCEPT ![t] = "mail"] /\ nextID' = nextID /\ call' = call
      BY <1>2 DEF TakeMail, boardVars, callVars
    <3> QED BY <1>0, <2>2, <2>3, <3>1 DEF Bookkeeping
  <2> QED BY <1>2, <2>4, <2>5 DEF TakeMail, SharedBoardSound, boardVars
<1>3. ASSUME NEW ok \in BOOLEAN, FinishMail(t, ok) PROVE Typed'
  <2>1. NoJob \in Job /\ NoJob.task = 0
    BY DEF NoJob, Job, Outcome
  <2>2. marks' \in [TaskID -> SUBSET Mark]
    BY <1>3, <1>0 DEF FinishMail, TypeOK, Mark, Job
  <2>3. TypeOK'
    BY <1>3, <2>1, <2>2 DEF FinishMail, TypeOK, Where, callVars, faultVars
  <2>4. Bookkeeping'
    BY <1>0, <1>3, <2>1 DEF FinishMail, Bookkeeping, callVars, faultVars
  <2> QED BY <1>3, <2>3, <2>4 DEF FinishMail, SharedBoardSound
<1> QED BY <1>1, <1>2, <1>3

\* The steps of a teammate that write to the board.
LEMMA BoardWriteTyped ==
    ASSUME Typed, NEW t \in Teammate, Claim(t) \/ Write(t) \/ Rollback(t)
    PROVE  Typed'
<1> USE DEF Typed
<1>0. /\ board \in [TaskID -> Task] /\ job \in [Teammate -> Job] /\ pc \in [Teammate -> Where]
      /\ job[t] \in Job /\ nextID \in Nat /\ Sound(board, nextID)
      /\ todo \in [Teammate -> SUBSET (TaskID \X SUBSET TaskID)]
      /\ marks \in [TaskID -> SUBSET Mark]
  BY DEF TypeOK, SharedBoardSound
<1>1. CASE Claim(t)
  <2> DEFINE Rest(p) == todo[t] \ {p}
             Mine(id) == Claimed(id, board[id].meta["retry_attempts"])
  <2>1. PICK p \in Oldest(todo[t]) :
           /\ \/ /\ ~Refused(board, p[1], ClaimFor(t))
                 /\ board' = Updated(board, p[1], ClaimFor(t))
                 /\ job' = [job EXCEPT ![t] = Mine(p[1])]
                 /\ marks' = [marks EXCEPT ![p[1]] = @ \ {"tool", "succeeded"}]
                 /\ todo' = [todo EXCEPT ![t] = {}]
                 /\ pc' = [pc EXCEPT ![t] = "run"]
              \/ /\ todo' = [todo EXCEPT ![t] = Rest(p)]
                 /\ pc' = [pc EXCEPT ![t] = IF Rest(p) = {} THEN "idle" ELSE "claim"]
                 /\ UNCHANGED <<board, job, marks>>
           /\ pc[t] = "claim"
           /\ UNCHANGED <<nextID, assignee, inbox, callVars, faultVars>>
    BY <1>1 DEF Claim
  <2>2. p[1] \in TaskID
    BY <1>0, <2>1 DEF Oldest
  <2>3. CASE ~Refused(board, p[1], ClaimFor(t)) /\ board' = Updated(board, p[1], ClaimFor(t))
             /\ job' = [job EXCEPT ![t] = Mine(p[1])]
             /\ marks' = [marks EXCEPT ![p[1]] = @ \ {"tool", "succeeded"}]
             /\ todo' = [todo EXCEPT ![t] = {}] /\ pc' = [pc EXCEPT ![t] = "run"]
    <3>1. ClaimFor(t) \in Options
      BY ClaimRequest, TeammateAssumption
    <3>2. board' \in [TaskID -> Task] /\ Sound(board', nextID)
      BY <1>0, <2>2, <2>3, <3>1, UpdateKeepsSound
    <3>3. p[1] <= nextID /\ p[1] # 0
      BY <1>0, <2>2, <2>3, TaskIDAssumption DEF Refused, Sound, Numbered, Live
    <3>4. board[p[1]].meta["retry_attempts"] \in Nat
      BY <1>0, <2>2 DEF Task, MetaKey
    <3>5. Mine(p[1]) \in Job /\ Mine(p[1]).task = p[1]
      BY <2>2, <3>4 DEF Claimed, NoJob, Job, Outcome
    <3> HIDE DEF Mine
    <3>6. TypeOK'
      BY <1>0, <2>1, <2>3, <3>2, <3>5 DEF TypeOK, Where, callVars, faultVars
    <3>7. Bookkeeping'
      BY <1>0, <2>1, <2>3, <3>3, <3>5 DEF Bookkeeping, callVars
    <3> QED BY <2>1, <3>2, <3>6, <3>7 DEF SharedBoardSound
  <2>4. CASE /\ todo' = [todo EXCEPT ![t] = Rest(p)]
             /\ pc' = [pc EXCEPT ![t] = IF Rest(p) = {} THEN "idle" ELSE "claim"]
             /\ UNCHANGED <<board, job, marks>>
    <3>1. TypeOK'
      BY <1>0, <2>1, <2>4 DEF TypeOK, Where, callVars, faultVars
    <3>2. Bookkeeping'
      BY <1>0, <2>1, <2>4 DEF Bookkeeping, callVars
    <3> QED BY <2>1, <2>4, <3>1, <3>2 DEF SharedBoardSound
  <2> QED BY <2>1, <2>3, <2>4
<1>2. CASE Write(t)
  <2> DEFINE id == job[t].task
             o == WriteBack(job[t])
  <2>1. id \in TaskID /\ job[t].outcome # "none"
    BY <1>0, <1>2 DEF Write, Bookkeeping, Job
  <2>2. o \in Options
    BY <1>0, <2>1, WriteBackRequest
  <2>3. board' = Apply(board, id, o)
    BY <1>2 DEF Write
  <2>4. board' \in [TaskID -> Task] /\ Sound(board', nextID)
    BY <1>0, <2>1, <2>2, <2>3, ApplySound
  <2>5. marks' \in [TaskID -> SUBSET Mark]
    BY <1>0, <1>2, <2>1 DEF Write, Mark
  <2>6. TypeOK'
    BY <1>2, <2>4, <2>5 DEF Write, TypeOK, Where, callVars, faultVars
  <2>7. Bookkeeping'
    BY <1>0, <1>2 DEF Write, Bookkeeping, callVars
  <2> QED BY <1>2, <2>4, <2>6, <2>7 DEF Write, SharedBoardSound
<1>3. CASE Rollback(t)
  <2> DEFINE id == job[t].task
             o == RetryOrPark(job[t].attempts + 1)
  <2>1. id \in TaskID /\ job[t].attempts + 1 \in Nat
    BY <1>0, <1>3 DEF Rollback, Bookkeeping, Job
  <2>2. o \in Options
    BY <2>1, RollbackRequest
  <2>3. board' = Apply(board, id, o)
    BY <1>3 DEF Rollback
  <2>4. board' \in [TaskID -> Task] /\ Sound(board', nextID)
    BY <1>0, <2>1, <2>2, <2>3, ApplySound
  <2>5. marks' \in [TaskID -> SUBSET Mark]
    BY <1>0, <1>3, <2>1 DEF Rollback, Mark, Stolen
  <2>6. TypeOK'
    BY <1>3, <2>4, <2>5 DEF Rollback, TypeOK, Where, callVars, faultVars
  <2>7. Bookkeeping'
    BY <1>0, <1>3 DEF Rollback, Bookkeeping, callVars
  <2> QED BY <1>3, <2>4, <2>6, <2>7 DEF Rollback, SharedBoardSound
<1> QED BY <1>1, <1>2, <1>3

\* A caller's own record after a step of a call: it names a task as long as
\* the call goes on.
LEMMA CallStep ==
    ASSUME Typed, NEW c \in Caller, NEW k \in Call, k.op # "none" => k.id # 0,
           call' = [call EXCEPT ![c] = k],
           nextID' = nextID, UNCHANGED teamVars
    PROVE  call' \in [Caller -> Call] /\ Bookkeeping'
BY DEF Typed, TypeOK, Bookkeeping, teamVars

\* A step of a tool call that makes a request of the board, or none.
LEMMA RequestStep ==
    ASSUME Typed, NEW c \in Caller, NEW k \in Call, k.op # "none" => k.id # 0,
           call' = [call EXCEPT ![c] = k], call[c].op # "none",
           NEW o \in Options, board' = Apply(board, call[c].id, o),
           marks' \in [TaskID -> SUBSET Mark],
           UNCHANGED <<nextID, assignee, teamVars, inbox, calls, faultVars>>
    PROVE  Typed'
<1>1. call[c].id \in TaskID /\ board \in [TaskID -> Task] /\ Sound(board, nextID)
  BY DEF Typed, TypeOK, Bookkeeping, Call, SharedBoardSound
<1>2. board' \in [TaskID -> Task] /\ Sound(board', nextID)
  BY <1>1, ApplySound
<1>3. call' \in [Caller -> Call] /\ Bookkeeping'
  BY CallStep
<1> QED BY <1>2, <1>3 DEF Typed, TypeOK, SharedBoardSound, teamVars, faultVars

\* Creating a task, linking it and undoing it.
LEMMA CreateTyped ==
    ASSUME Typed, NEW c \in Caller,
           (\E d \in Drafts : CreateTask(c, d[1], d[2])) \/ LinkTask(c) \/ UndoCreate(c)
    PROVE  Typed'
<1>0. /\ board \in [TaskID -> Task] /\ nextID \in Nat /\ Sound(board, nextID)
      /\ call \in [Caller -> Call] /\ call[c] \in Call
      /\ marks \in [TaskID -> SUBSET Mark]
  BY DEF Typed, TypeOK, SharedBoardSound
<1>1. NoCall \in Call /\ NoCall.op = "none"
  BY DEF NoCall, Call, CallOp, Status
<1>2. ASSUME NEW d \in Drafts, CreateTask(c, d[1], d[2]) PROVE Typed'
  <2> DEFINE k == [NoCall EXCEPT !.op = IF d[2] = {} THEN "deliver" ELSE "link",
                                 !.id = nextID + 1, !.deps = d[2]]
  <2>1. d[1] \in Owner \cup {NoOwner} /\ d[2] \in SUBSET TaskID /\ nextID + 1 \in TaskID
    BY <1>2, BoundAssumption DEF CreateTask
  <2>2. k \in Call /\ k.id = nextID + 1
    BY <2>1 DEF NoCall, Call, CallOp, Status
  <2>3. board' \in [TaskID -> Task] /\ Sound(board', nextID')
    BY <1>0, <1>2, CreateKeepsSound DEF CreateTask
  <2>4. call' = [call EXCEPT ![c] = k]
    BY <1>2 DEF CreateTask
  <2> HIDE DEF k
  <2>5. TypeOK'
    <3>1. assignee' \in [TaskID -> Owner \cup {NoOwner}] /\ nextID' \in Nat
      <4>1. assignee \in [TaskID -> Owner \cup {NoOwner}]
        BY DEF Typed, TypeOK
      <4>2. assignee' = [assignee EXCEPT ![nextID + 1] = d[1]] /\ nextID' = nextID + 1
        BY <1>2 DEF CreateTask
      <4> DEFINE n == nextID + 1
                 w == d[1]
      <4>3. n \in TaskID /\ n \in Nat /\ w \in Owner \cup {NoOwner}
        BY <1>0, <2>1
      <4> HIDE DEF n, w
      <4> QED BY <4>1, <4>2, <4>3 DEF n, w
    <3>2. call' \in [Caller -> Call]
      BY <1>0, <2>2, <2>4
    <3> QED BY <1>2, <2>3, <3>1, <3>2 DEF CreateTask, Typed, TypeOK, teamVars, faultVars
  <2>6. \A t \in Teammate : job[t].task <= nextID => job[t].task <= nextID + 1
    <3>1. \A t \in Teammate : job[t].task \in Nat
      <4>1. \A t \in Teammate : job[t] \in Job
        BY DEF Typed, TypeOK
      <4>2. \A j \in Job : j.task \in TaskID \cup {0}
        BY DEF Job
      <4>3. TaskID \cup {0} \subseteq Nat
        BY TaskIDAssumption
      <4> QED BY <4>1, <4>2, <4>3
    <3> QED BY <1>0, <3>1
  <2>7. Bookkeeping'
    BY <1>0, <1>2, <2>1, <2>2, <2>4, <2>6, TaskIDAssumption
       DEF CreateTask, Typed, Bookkeeping, teamVars
  <2> QED BY <2>3, <2>5, <2>7 DEF Typed, SharedBoardSound
<1>3. CASE LinkTask(c)
  <2> DEFINE o == [NoOptions EXCEPT !.addBlockedBy = call[c].deps]
             op == IF Refused(board, call[c].id, o) THEN "undo" ELSE "deliver"
             k == [call[c] EXCEPT !.op = op]
  <2>1. o \in Options
    <3>1. call[c].deps \in SUBSET TaskID
      BY <1>0 DEF Call
    <3> QED BY <3>1, OtherRequests DEF Status
  <2>2. call[c].id \in TaskID /\ call[c].op # "none"
    BY <1>0, <1>3 DEF LinkTask, Typed, Bookkeeping, Call
  <2>3. k \in Call /\ k.id = call[c].id
    <3>1. op \in CallOp
      BY DEF CallOp
    <3> HIDE DEF op
    <3> QED BY <1>0, <3>1 DEF Call
  <2>4. call' = [call EXCEPT ![c] = k] /\ board' = Apply(board, call[c].id, o)
    BY <1>3 DEF LinkTask
  <2>5. marks' \in [TaskID -> SUBSET Mark]
    BY <1>0, <1>3, <2>2 DEF LinkTask, Mark
  <2>6. UNCHANGED <<nextID, assignee, teamVars, inbox, calls, faultVars>>
    BY <1>3 DEF LinkTask
  <2>7. k.op # "none" => k.id # 0
    BY <2>2, <2>3, TaskIDAssumption
  <2> HIDE DEF k, o
  <2> QED BY <2>1, <2>2, <2>3, <2>4, <2>5, <2>6, <2>7, RequestStep
<1>4. CASE UndoCreate(c)
  <2>1. call[c].id \in TaskID
    BY <1>0, <1>4 DEF UndoCreate, Typed, Bookkeeping, Call
  <2>2. board' \in [TaskID -> Task] /\ Sound(board', nextID)
    BY <1>0, <1>4, <2>1, DeleteKeepsSound DEF UndoCreate
  <2>3. call' \in [Caller -> Call] /\ Bookkeeping'
    BY <1>1, <1>4, CallStep DEF UndoCreate, Return
  <2> QED BY <1>4, <2>2, <2>3 DEF UndoCreate, Typed, TypeOK, SharedBoardSound, teamVars, faultVars
<1> QED BY <1>2, <1>3, <1>4

\* A step of a tool call that leaves the board alone.
LEMMA BoardKept ==
    ASSUME Typed, NEW c \in Caller, NEW k \in Call, k.op # "none" => k.id # 0,
           call' = [call EXCEPT ![c] = k],
           inbox' \in [Teammate -> Seq(Mail)], \A t \in Teammate : Len(inbox'[t]) <= InboxSize,
           calls' \in 0 .. MaxCalls, UNCHANGED <<boardVars, teamVars, faultVars>>
    PROVE  Typed'
<1>1. call' \in [Caller -> Call] /\ Bookkeeping'
  BY CallStep DEF boardVars
<1> QED BY <1>1 DEF Typed, TypeOK, SharedBoardSound, boardVars, teamVars, faultVars

\* The steps of a tool call that change a task's status.
LEMMA StatusCallTyped ==
    ASSUME Typed, NEW c \in Caller,
           ClaimWrite(c) \/ CompleteWrite(c) \/ ApproveWrite(c) \/ BounceReset(c)
    PROVE  Typed'
<1>0. /\ call[c] \in Call /\ marks \in [TaskID -> SUBSET Mark] /\ call[c].op # "none"
      /\ call[c].id \in TaskID
  BY DEF Typed, TypeOK, Bookkeeping, Call, ClaimWrite, CompleteWrite, ApproveWrite, BounceReset
<1>1. NoCall \in Call /\ NoCall.op = "none"
  BY DEF NoCall, Call, CallOp, Status
<1>2. CASE ClaimWrite(c)
  <2>1. ClaimFor(call[c].by) \in Options
    BY <1>0, ClaimRequest DEF Call
  <2>2. marks' \in [TaskID -> SUBSET Mark]
    BY <1>0, <1>2 DEF ClaimWrite, Mark
  <2>3. CASE board' = Apply(board, call[c].id, ClaimFor(call[c].by))
    BY <1>0, <1>1, <1>2, <2>1, <2>2, <2>3, RequestStep DEF ClaimWrite, Return
  <2>4. CASE UNCHANGED <<board, marks>>
    <3>1. call' = [call EXCEPT ![c] = NoCall] /\ UNCHANGED <<inbox, calls>>
          /\ UNCHANGED <<boardVars, teamVars, faultVars>>
      BY <1>2, <2>4 DEF ClaimWrite, Return, boardVars
    <3>2. inbox \in [Teammate -> Seq(Mail)] /\ (\A t \in Teammate : Len(inbox[t]) <= InboxSize)
          /\ calls \in 0 .. MaxCalls
      BY DEF Typed, TypeOK
    <3>3. inbox' \in [Teammate -> Seq(Mail)] /\ (\A t \in Teammate : Len(inbox'[t]) <= InboxSize)
          /\ calls' \in 0 .. MaxCalls
      BY <3>1, <3>2
    <3> QED BY <1>1, <3>1, <3>3, BoardKept
  <2> QED BY <1>2, <2>3, <2>4 DEF ClaimWrite
<1>3. CASE CompleteWrite(c)
  <2>1. Cas(call[c].was, "completed") \in Options
    BY <1>0, CasRequest DEF Call, Status
  <2> QED BY <1>0, <1>1, <1>3, <2>1, RequestStep DEF CompleteWrite, Return
<1>4. CASE ApproveWrite(c)
  <2>1. [NoOptions EXCEPT !.status = "completed"] \in Options
    BY OtherRequests DEF Status
  <2> QED BY <1>0, <1>1, <1>4, <2>1, RequestStep DEF ApproveWrite, Return
<1>5. CASE BounceReset(c)
  <2>1. [NoOptions EXCEPT !.status = "pending"] \in Options
    BY OtherRequests DEF Status
  <2>2. marks' \in [TaskID -> SUBSET Mark]
    BY <1>0, <1>5 DEF BounceReset, Mark, Stolen
  <2> QED BY <1>0, <1>1, <1>5, <2>1, <2>2, RequestStep DEF BounceReset, Return
<1> QED BY <1>2, <1>3, <1>4, <1>5

\* Starting a call, and sending mail.
LEMMA BeginTyped ==
    ASSUME Typed, NEW c \in Caller,
           \/ Deliver(c)
           \/ \E t \in Teammate : SendNote(c, t)
           \/ \E id \in TaskID : CompleteCheck(c, id)
           \/ \E id \in TaskID, t \in Teammate :
                 ClaimCheck(c, id, t) \/ Approve(c, t, id) \/ Bounce(c, t, id)
    PROVE  Typed'
<1>0. /\ board \in [TaskID -> Task] /\ call[c] \in Call
      /\ inbox \in [Teammate -> Seq(Mail)] /\ \A t \in Teammate : Len(inbox[t]) <= InboxSize
      /\ calls \in 0 .. MaxCalls /\ \A id \in TaskID : id # 0
  BY TaskIDAssumption DEF Typed, TypeOK
<1>1. NoCall \in Call /\ NoCall.op = "none" /\ Note \in Mail /\ Hint \in Mail
  BY DEF NoCall, Call, CallOp, Status, Note, Hint, Mail
<1>2. ASSUME NEW k \in Call, Start(c, k)
      PROVE  call' = [call EXCEPT ![c] = k] /\ calls' \in 0 .. MaxCalls
  BY <1>0, <1>2, BoundAssumption DEF Start
<1>3. ASSUME NEW t \in Teammate, NEW m \in Mail, CanSend(t), inbox' = [inbox EXCEPT ![t] = Append(@, m)]
      PROVE  inbox' \in [Teammate -> Seq(Mail)] /\ \A u \in Teammate : Len(inbox'[u]) <= InboxSize
  <2>1. Append(inbox[t], m) \in Seq(Mail) /\ Len(Append(inbox[t], m)) <= InboxSize
    BY <1>0, <1>3, InboxAppend DEF CanSend
  <2> QED BY <1>0, <1>3, <2>1
<1>4. CASE Deliver(c)
  <2> DEFINE id == call[c].id
             m == IF assignee[id] = NoOwner THEN Hint ELSE [type |-> "task", id |-> id]
             to == IF unmetDependencies(board, id) # {} THEN {}
                   ELSE IF assignee[id] # NoOwner
                        THEN {t \in Teammate : t = assignee[id] /\ CanSend(t)}
                        ELSE {t \in Teammate : Idle(t) /\ CanSend(t)}
  <2>1. m \in Mail
    BY <1>0, <1>1 DEF Call, Mail
  <2>2. \A t \in to : t \in Teammate /\ CanSend(t)
    OBVIOUS
  <2>3. inbox' = [t \in Teammate |-> IF t \in to THEN Append(inbox[t], m) ELSE inbox[t]]
    BY <1>4 DEF Deliver
  <2> HIDE DEF m, to
  <2>4. ASSUME NEW t \in Teammate
        PROVE  inbox'[t] \in Seq(Mail) /\ Len(inbox'[t]) <= InboxSize
    BY <1>0, <2>1, <2>2, <2>3, InboxAppend DEF CanSend
  <2>5. inbox' \in [Teammate -> Seq(Mail)]
    BY <2>3, <2>4
  <2> QED BY <1>0, <1>1, <1>4, <2>4, <2>5, BoardKept DEF Deliver, Return
<1>5. ASSUME NEW t \in Teammate, SendNote(c, t) PROVE Typed'
  BY <1>1, <1>2, <1>3, <1>5, BoardKept DEF SendNote
<1>6. ASSUME NEW id \in TaskID, CompleteCheck(c, id) PROVE Typed'
  <2> DEFINE k == [NoCall EXCEPT !.op = "complete", !.id = id, !.was = board[id].status]
  <2>1. board[id].status \in Status
    BY <1>0, <1>6 DEF CompleteCheck, HasTask, Task
  <2>2. k \in Call /\ k.id = id
    BY <2>1 DEF NoCall, Call, CallOp
  <2>3. Start(c, k)
    BY <1>6 DEF CompleteCheck
  <2> HIDE DEF k
  <2> QED BY <1>0, <1>2, <1>6, <2>2, <2>3, BoardKept DEF CompleteCheck
<1>7. ASSUME NEW id \in TaskID, NEW t \in Teammate, ClaimCheck(c, id, t) PROVE Typed'
  <2> DEFINE k == [NoCall EXCEPT !.op = "claim", !.id = id, !.by = t]
  <2>1. k \in Call /\ k.id = id
    BY TeammateAssumption DEF NoCall, Call, CallOp, Status
  <2>2. Start(c, k)
    BY <1>7 DEF ClaimCheck
  <2> HIDE DEF k
  <2> QED BY <1>0, <1>2, <1>7, <2>1, <2>2, BoardKept DEF ClaimCheck
<1>8. ASSUME NEW id \in TaskID, NEW t \in Teammate, Approve(c, t, id) PROVE Typed'
  <2> DEFINE k == [NoCall EXCEPT !.op = "approve", !.id = id]
  <2>1. k \in Call /\ k.id = id
    BY DEF NoCall, Call, CallOp, Status
  <2>2. Start(c, k)
    BY <1>8 DEF Approve
  <2> HIDE DEF k
  <2> QED BY <1>0, <1>2, <1>8, <2>1, <2>2, BoardKept DEF Approve
<1>9. ASSUME NEW id \in TaskID, NEW t \in Teammate, Bounce(c, t, id) PROVE Typed'
  <2> DEFINE r == [NoCall EXCEPT !.op = "reset", !.id = id]
             k == IF board[id].status = "completed" THEN r ELSE NoCall
  <2>1. r \in Call /\ r.id = id
    BY DEF NoCall, Call, CallOp, Status
  <2>2. Start(c, k)
    BY <1>9 DEF Bounce
  <2> HIDE DEF r
  <2>3. k \in Call /\ (k.op # "none" => k.id # 0)
    BY <1>0, <1>1, <2>1
  <2> HIDE DEF k
  <2> QED BY <1>0, <1>1, <1>2, <1>3, <1>9, <2>2, <2>3, BoardKept DEF Bounce
<1> QED BY <1>4, <1>5, <1>6, <1>7, <1>8, <1>9

\* Types, bookkeeping and the soundness of the board are kept by every step.
LEMMA NextTyped == Typed /\ [Next]_vars => Typed'
<1> SUFFICES ASSUME Typed, [Next]_vars PROVE Typed'
  OBVIOUS
<1>1. ASSUME NEW t \in Teammate, Run(t) \/ Panic(t) \/ Cancel(t) PROVE Typed'
  BY <1>1, TeammateTyped, MailTyped, BoardWriteTyped DEF Run
<1>2. ASSUME NEW c \in Caller, Begin(c) \/ Proceed(c) PROVE Typed'
  BY <1>2, CreateTyped, StatusCallTyped, BeginTyped DEF Begin, Proceed
<1>3. CASE UNCHANGED vars
  BY <1>3 DEF vars, Typed, TypeOK, Bookkeeping, SharedBoardSound
<1> QED BY <1>1, <1>2, <1>3 DEF Next

\* In every reachable state the variables have their types, every teammate and
\* every tool call knows its task, and the shared board is sound.
THEOREM TeamStateSound == Spec => []Typed
BY InitTyped, NextTyped, PTL DEF Spec

\* The type part of it.
THEOREM TypeCorrectness == Spec => []TypeOK
<1>1. Typed => TypeOK
  BY DEF Typed
<1> QED BY <1>1, InitTyped, NextTyped, PTL DEF Spec

\* Whatever the interleaving of runners and tools, the dependencies on the
\* shared board stay mirrored and acyclic, and its ids fresh.
THEOREM BoardStaysSound == Spec => []SharedBoardSound
<1>1. Typed => SharedBoardSound
  BY DEF Typed
<1> QED BY <1>1, InitTyped, NextTyped, PTL DEF Spec

-----------------------------------------------------------------------------
(* Claims *)

\* A task a teammate is running is not on offer, unless it was taken from it.
RunningNotPending ==
    \A t \in Teammate : \A id \in TaskID :
        Runs(t, id) /\ "stolen" \notin marks[id] => board[id].status # "pending"

\* NoLeakedClaim and OneRunnerPerTask are inductive only together with it: a
\* claim needs a pending task, and that no other teammate runs a pending task
\* is what makes the new runner the only one.
Claims == NoLeakedClaim /\ OneRunnerPerTask /\ RunningNotPending

LEMMA InitClaims == Init => Claims
BY DEF Init, Claims, NoLeakedClaim, OneRunnerPerTask, RunningNotPending, Runs, EmptyBoard, NoTask

\* A step keeps the claims if no task becomes claimed, no holder of a task
\* that stays claimed lets go of it, nobody starts to run, and a task is put
\* back only while nobody runs it or with the mark "stolen".
LEMMA ClaimsStep ==
    ASSUME Claims,
           \A id \in TaskID :
               board'[id].status = "in_progress" /\ "tool" \notin marks'[id]
                   => board[id].status = "in_progress" /\ "tool" \notin marks[id],
           \A t \in Teammate, id \in TaskID :
               Holds(t, id) /\ board'[id].status = "in_progress" => Holds(t, id)',
           \A id \in TaskID : "stolen" \in marks[id] => "stolen" \in marks'[id],
           \A t \in Teammate, id \in TaskID : Runs(t, id)' => Runs(t, id),
           \A t \in Teammate, id \in TaskID :
               Runs(t, id)' /\ board'[id].status = "pending" /\ "stolen" \notin marks'[id]
                   => board[id].status = "pending"
    PROVE  Claims'
<1>1. NoLeakedClaim'
  BY DEF Claims, NoLeakedClaim
<1>2. OneRunnerPerTask'
  BY DEF Claims, OneRunnerPerTask
<1>3. RunningNotPending'
  BY DEF Claims, RunningNotPending
<1> QED BY <1>1, <1>2, <1>3 DEF Claims

\* A teammate's step that leaves the board alone.
LEMMA TeammateClaims ==
    ASSUME Typed, Claims, NEW t \in Teammate,
           \/ Poll(t) \/ TakeHint(t) \/ CheckBlockers(t)
           \/ (\E o \in {"ok", "transient", "permanent"} : Finish(t, o))
           \/ Settle(t) \/ TakeMail(t) \/ (\E ok \in BOOLEAN : FinishMail(t, ok))
           \/ LeaveLoop(t) \/ Panic(t) \/ Cancel(t)
    PROVE  Claims'
<1>0. /\ pc \in [Teammate -> Where] /\ job \in [Teammate -> Job]
      /\ \A u \in Teammate : pc[u] \in {"run", "write", "unwind"} => job[u].task \in TaskID
      /\ marks \in [TaskID -> SUBSET Mark]
  BY DEF Typed, TypeOK, Bookkeeping, Job
<1>1. /\ board' = board
      /\ \A id \in TaskID : /\ "tool" \in marks'[id] <=> "tool" \in marks[id]
                            /\ "stolen" \in marks'[id] <=> "stolen" \in marks[id]
  BY <1>0 DEF Poll, TakeHint, CheckBlockers, Finish, Settle, TakeMail, FinishMail, LeaveLoop,
         Panic, Cancel, boardVars
<1>2. \A u \in Teammate \ {t} : pc'[u] = pc[u] /\ job'[u] = job[u]
  BY <1>0 DEF Poll, TakeHint, CheckBlockers, Finish, Settle, TakeMail, FinishMail, LeaveLoop,
              Panic, Cancel
<1>3. ASSUME NEW id \in TaskID, Runs(t, id)' PROVE Runs(t, id)
  <2>1. CASE \E o \in {"ok", "transient", "permanent"} : Finish(t, o)
    <3>1. job'[t].task = job[t].task /\ pc[t] = "run"
      BY <1>0, <2>1 DEF Finish, Job
    <3> QED BY <1>3, <3>1 DEF Runs
  <2>2. CASE Panic(t)
    BY <1>0, <1>3, <2>2 DEF Panic, Runs, Where
  <2>3. CASE Cancel(t)
    BY <1>3, <2>3 DEF Cancel, Runs
  <2> QED BY <1>0, <1>3, <2>1, <2>2, <2>3
          DEF Poll, TakeHint, CheckBlockers, Settle, TakeMail, FinishMail, LeaveLoop, Runs
<1>4. ASSUME NEW id \in TaskID, Holds(t, id), board[id].status = "in_progress"
      PROVE  Holds(t, id)'
  <2>1. CASE \E o \in {"ok", "transient", "permanent"} : Finish(t, o)
    <3>1. job'[t].task = job[t].task /\ pc'[t] = "write"
      BY <1>0, <2>1 DEF Finish, Job
    <3> QED BY <1>4, <3>1 DEF Holds
  <2>2. CASE Panic(t)
    <3>1. job[t].task = id /\ id # 0 /\ HasTask(board, id)
      BY <1>4, TaskIDAssumption DEF Holds, HasTask
    <3>2. pc[t] = "run"
      BY <1>4, <2>2 DEF Panic, Holds
    <3>3. job' = [job EXCEPT ![t] =
                      [job[t] EXCEPT !.attempts = board[id].meta["retry_attempts"]]]
          /\ pc' = [pc EXCEPT ![t] = "unwind"]
      BY <2>2, <3>1, <3>2 DEF Panic
    <3>4. job'[t].task = job[t].task /\ pc'[t] = "unwind"
      BY <1>0, <3>3 DEF Job
    <3> QED BY <3>1, <3>4 DEF Holds
  <2>3. CASE Cancel(t)
    BY <1>4, <2>3 DEF Cancel, Holds
  <2> QED BY <1>4, <2>1, <2>2, <2>3
          DEF Poll, TakeHint, CheckBlockers, Settle, TakeMail, FinishMail, LeaveLoop, Holds
<1>5. ASSUME NEW u \in Teammate \ {t}, NEW id \in TaskID
      PROVE  (Runs(u, id)' <=> Runs(u, id)) /\ (Holds(u, id)' <=> Holds(u, id))
  BY <1>2 DEF Runs, Holds
<1>6. \A u \in Teammate, id \in TaskID : Runs(u, id)' => Runs(u, id)
  BY <1>3, <1>5
<1>7. \A u \in Teammate, id \in TaskID :
          Holds(u, id) /\ board'[id].status = "in_progress" => Holds(u, id)'
  BY <1>1, <1>4, <1>5
<1> QED BY <1>1, <1>6, <1>7, ClaimsStep

\* A claim makes the teammate the runner: nobody else runs a pending task.
LEMMA ClaimClaims ==
    ASSUME Typed, Claims, NEW t \in Teammate, Claim(t)
    PROVE  Claims'
<1>0. /\ board \in [TaskID -> Task] /\ pc \in [Teammate -> Where] /\ job \in [Teammate -> Job]
      /\ marks \in [TaskID -> SUBSET Mark]
      /\ todo \in [Teammate -> SUBSET (TaskID \X SUBSET TaskID)]
  BY DEF Typed, TypeOK
<1> DEFINE Mine(id) == Claimed(id, board[id].meta["retry_attempts"])
<1>1. PICK p \in todo[t] :
         /\ pc[t] = "claim"
         /\ \/ /\ ~Refused(board, p[1], ClaimFor(t))
               /\ board' = Updated(board, p[1], ClaimFor(t))
               /\ job' = [job EXCEPT ![t] = Mine(p[1])]
               /\ marks' = [marks EXCEPT ![p[1]] = @ \ {"tool", "succeeded"}]
               /\ pc' = [pc EXCEPT ![t] = "run"]
            \/ /\ \E w \in {"idle", "claim"} : pc' = [pc EXCEPT ![t] = w]
               /\ UNCHANGED <<board, job, marks>>
  BY DEF Claim, Oldest
<1>2. p[1] \in TaskID
  BY <1>0, <1>1
<1>3. CASE /\ ~Refused(board, p[1], ClaimFor(t))
           /\ board' = Updated(board, p[1], ClaimFor(t))
           /\ job' = [job EXCEPT ![t] = Mine(p[1])]
           /\ marks' = [marks EXCEPT ![p[1]] = @ \ {"tool", "succeeded"}]
           /\ pc' = [pc EXCEPT ![t] = "run"]
  <2> DEFINE id == p[1]
  <2>1. /\ board[id].status = "pending" /\ HasTask(board, id)
        /\ ClaimFor(t) \in Options /\ ClaimFor(t).status = "in_progress"
    BY <1>3, ClaimRequest, TeammateAssumption, UnsetAssumption DEF Refused
  <2>2. /\ board'[id].status = "in_progress"
        /\ \A x \in TaskID \ {id} : board'[x].status = board[x].status
    BY <1>0, <1>2, <1>3, <2>1, UpdatedFields, UnsetAssumption DEF Choose
  <2>3. Mine(id).task = id
    BY DEF Claimed, NoJob
  <2> HIDE DEF Mine
  <2>4. /\ pc'[t] = "run" /\ job'[t].task = id
        /\ \A u \in Teammate \ {t} : pc'[u] = pc[u] /\ job'[u] = job[u]
    BY <1>0, <1>3, <2>3
  <2>5. \A x \in TaskID : /\ "stolen" \in marks'[x] <=> "stolen" \in marks[x]
                          /\ x # id => marks'[x] = marks[x]
    BY <1>0, <1>2, <1>3
  <2>6. \A x \in TaskID : Holds(t, x)' <=> x = id
    BY <2>4 DEF Holds
  <2>7. \A x \in TaskID : (Runs(t, x)' <=> x = id) /\ ~Holds(t, x)
    BY <1>1, <2>4 DEF Runs, Holds
  <2>8. \A u \in Teammate \ {t}, x \in TaskID :
            (Holds(u, x)' <=> Holds(u, x)) /\ (Runs(u, x)' <=> Runs(u, x))
    BY <2>4 DEF Holds, Runs
  <2>9. NoLeakedClaim'
    BY <1>2, <2>2, <2>5, <2>6, <2>7, <2>8 DEF Claims, NoLeakedClaim
  <2>10. \A u \in Teammate : Runs(u, id) => "stolen" \in marks[id]
    BY <1>2, <2>1 DEF Claims, RunningNotPending
  <2>11. OneRunnerPerTask'
    BY <1>2, <2>5, <2>7, <2>8, <2>10 DEF Claims, OneRunnerPerTask
  <2>12. RunningNotPending'
    BY <1>2, <2>2, <2>5, <2>7, <2>8 DEF Claims, RunningNotPending
  <2> QED BY <2>9, <2>11, <2>12 DEF Claims
<1>4. CASE (\E w \in {"idle", "claim"} : pc' = [pc EXCEPT ![t] = w]) /\ UNCHANGED <<board, job, marks>>
  <2>1. \A u \in Teammate, x \in TaskID :
            (Holds(u, x)' <=> Holds(u, x)) /\ (Runs(u, x)' <=> Runs(u, x))
    BY <1>0, <1>1, <1>4 DEF Holds, Runs
  <2> QED BY <1>4, <2>1, ClaimsStep
<1> QED BY <1>1, <1>3, <1>4

\* A request that expects the task in progress and sets it to completed or to
\* pending leaves it not in progress, refused or not.
LEMMA GiveBack ==
    ASSUME NEW b \in [TaskID -> Task], NEW id \in TaskID, NEW o \in Options,
           o.expected = "in_progress", o.status \in {"completed", "pending"},
           o.addBlocks = {}, o.addBlockedBy = {}
    PROVE  LET a == Apply(b, id, o)
           IN  /\ a[id].status # "in_progress"
               /\ \A x \in TaskID \ {id} : a[x].status = b[x].status
               /\ b[id].status # "in_progress" => a = b
               /\ b[id].status = "completed" => a[id].status = "completed"
<1>1. Refused(b, id, o) <=> b[id].status # "in_progress"
  BY PlainRefusal, UnsetAssumption DEF HasTask
<1>2. ~Refused(b, id, o) => Apply(b, id, o)[id].status = o.status
  BY ApplyStatus, UnsetAssumption DEF Choose
<1> QED BY <1>1, <1>2, ApplyStatus

\* A teammate that writes back, or that is rolled back, gives up its task.
LEMMA WriteClaims ==
    ASSUME Typed, Claims, NEW t \in Teammate, Write(t) \/ Rollback(t)
    PROVE  Claims'
<1>0. /\ board \in [TaskID -> Task] /\ pc \in [Teammate -> Where] /\ job \in [Teammate -> Job]
      /\ marks \in [TaskID -> SUBSET Mark] /\ job[t] \in Job /\ job[t].attempts + 1 \in Nat
      /\ job[t].task \in TaskID
  BY DEF Typed, TypeOK, Bookkeeping, Write, Rollback, Job
<1> DEFINE id == job[t].task
<1>1. PICK o \in Options :
         /\ board' = Apply(board, id, o)
         /\ o.expected = "in_progress" /\ o.status \in {"completed", "pending"}
         /\ o.addBlocks = {} /\ o.addBlockedBy = {}
         /\ Refused(board, id, o) => marks' = marks
         /\ ~Refused(board, id, o) /\ Rollback(t) =>
               marks' = [marks EXCEPT ![id] = @ \cup Stolen(id, {t})]
  <2>1. CASE Write(t)
    <3>1. job[t].outcome # "none" /\ pc[t] = "write"
      BY <2>1 DEF Write, Typed, Bookkeeping
    <3>2. ~Rollback(t)
      BY <3>1 DEF Rollback
    <3> DEFINE o == WriteBack(job[t])
    <3>3. /\ o \in Options /\ o.expected = "in_progress" /\ o.status \in {"completed", "pending"}
          /\ o.addBlocks = {} /\ o.addBlockedBy = {}
      BY <1>0, <3>1, WriteBackRequest
    <3>4. board' = Apply(board, id, o) /\ (Refused(board, id, o) => marks' = marks)
      BY <2>1 DEF Write
    <3> HIDE DEF o
    <3> QED BY <3>2, <3>3, <3>4
  <2>2. CASE Rollback(t)
    <3> DEFINE o == RetryOrPark(job[t].attempts + 1)
    <3>1. /\ o \in Options /\ o.expected = "in_progress" /\ o.status \in {"completed", "pending"}
          /\ o.addBlocks = {} /\ o.addBlockedBy = {}
      BY <1>0, RollbackRequest
    <3>2. /\ board' = Apply(board, id, o) /\ (Refused(board, id, o) => marks' = marks)
          /\ ~Refused(board, id, o) => marks' = [marks EXCEPT ![id] = @ \cup Stolen(id, {t})]
      BY <2>2 DEF Rollback
    <3> HIDE DEF o
    <3> QED BY <3>1, <3>2
  <2> QED BY <2>1, <2>2
<1>2. /\ board'[id].status # "in_progress"
      /\ \A x \in TaskID \ {id} : board'[x].status = board[x].status
      /\ board[id].status # "in_progress" => board' = board
  BY <1>0, <1>1, GiveBack
<1>3. \A x \in TaskID : /\ "stolen" \in marks[x] => "stolen" \in marks'[x]
                        /\ "tool" \in marks'[x] <=> "tool" \in marks[x]
  BY <1>0 DEF Write, Rollback, Stolen
<1>4. /\ \A u \in Teammate : job'[u] = job[u]
      /\ \A u \in Teammate \ {t} : pc'[u] = pc[u]
      /\ pc'[t] \in {"notify", "stopped"}
  BY <1>0 DEF Write, Rollback
<1>5. \A u \in Teammate \ {t}, x \in TaskID :
          (Holds(u, x)' <=> Holds(u, x)) /\ (Runs(u, x)' <=> Runs(u, x))
  BY <1>4 DEF Holds, Runs
<1>6. \A x \in TaskID : ~Runs(t, x)' /\ (Holds(t, x) => x = id)
  BY <1>4 DEF Holds, Runs
<1>7. ASSUME NEW u \in Teammate, NEW x \in TaskID, Runs(u, x)',
             board'[x].status = "pending", "stolen" \notin marks'[x]
      PROVE  board[x].status = "pending"
  <2>1. u # t /\ Runs(u, x)
    BY <1>5, <1>6, <1>7
  <2>2. CASE x # id
    BY <1>2, <1>7, <2>2
  <2>3. CASE x = id /\ board[id].status # "in_progress"
    BY <1>2, <1>7, <2>3
  <2>4. CASE x = id /\ board[id].status = "in_progress" /\ Write(t)
    <3>1. Runs(t, id)
      BY <2>4 DEF Write, Runs
    <3> QED BY <1>0, <1>3, <1>7, <2>1, <2>4, <3>1 DEF Claims, OneRunnerPerTask
  <2>5. CASE x = id /\ board[id].status = "in_progress" /\ Rollback(t)
    <3>1. ~Refused(board, id, o)
      BY <1>0, <1>1, <2>5, PlainRefusal, UnsetAssumption DEF HasTask
    <3>2. "stolen" \in Stolen(id, {t})
      BY <2>1, <2>5 DEF Stolen
    <3> QED BY <1>0, <1>1, <1>7, <2>5, <3>1, <3>2
  <2> QED BY <2>2, <2>3, <2>4, <2>5
<1>8. \A u \in Teammate, x \in TaskID :
          Holds(u, x) /\ board'[x].status = "in_progress" => Holds(u, x)'
  BY <1>2, <1>5, <1>6
<1>9. \A u \in Teammate, x \in TaskID : Runs(u, x)' => Runs(u, x)
  BY <1>5, <1>6
<1>10. \A x \in TaskID : board'[x].status = "in_progress" => board[x].status = "in_progress"
  BY <1>2
<1> HIDE DEF id
<1> QED BY <1>3, <1>7, <1>8, <1>9, <1>10, ClaimsStep

\* The goroutines of the teammates do not move during a step of a tool.
LEMMA TeamStands ==
    ASSUME UNCHANGED teamVars
    PROVE  \A t \in Teammate, id \in TaskID :
               (Holds(t, id)' <=> Holds(t, id)) /\ (Runs(t, id)' <=> Runs(t, id))
BY DEF teamVars, Holds, Runs

\* What the tools that change a status make of the statuses and the marks.
LEMMA StatusCalls ==
    ASSUME Typed, NEW c \in Caller,
           ClaimWrite(c) \/ CompleteWrite(c) \/ ApproveWrite(c) \/ BounceReset(c)
    PROVE  LET id == call[c].id
           IN  /\ id \in TaskID /\ UNCHANGED teamVars
               /\ \A x \in TaskID \ {id} : /\ board'[x].status = board[x].status
                                           /\ board'[x].meta = board[x].meta
                                           /\ marks'[x] = marks[x]
               /\ marks[id] \ {"succeeded"} \subseteq marks'[id]
               /\ \/ board' = board /\ marks'[id] \subseteq marks[id] \cup {"reopened", "stolen"}
                  \/ board[id].status = "pending" /\ board'[id].status = "in_progress"
                     /\ "tool" \in marks'[id] /\ board'[id].meta = board[id].meta
                  \/ board'[id].status = "completed"
                  \/ call[c].op = "reset" /\ "reopened" \in marks'[id] /\ Stolen(id, {}) \subseteq marks'[id]
                     /\ board'[id].status = "pending"
<1> DEFINE id == call[c].id
<1>0. /\ call[c] \in Call /\ marks \in [TaskID -> SUBSET Mark] /\ id \in TaskID
      /\ board \in [TaskID -> Task]
  BY DEF Typed, TypeOK, Bookkeeping, Call, ClaimWrite, CompleteWrite, ApproveWrite, BounceReset
<1>1. UNCHANGED teamVars
  BY DEF ClaimWrite, CompleteWrite, ApproveWrite, BounceReset
<1>2. CASE ClaimWrite(c) /\ UNCHANGED <<board, marks>>
  BY <1>0, <1>1, <1>2
<1>2a. CASE ClaimWrite(c) /\ ~UNCHANGED <<board, marks>>
  <2> DEFINE o == ClaimFor(call[c].by)
  <2>1. /\ o \in Options /\ o.expected = "pending" /\ o.status = "in_progress"
        /\ o.addBlocks = {} /\ o.addBlockedBy = {} /\ o.meta = KeepMeta
    BY <1>0, ClaimRequest DEF Call
  <2>2. board' = Apply(board, id, o)
    BY <1>2a DEF ClaimWrite
  <2>3. marks' = IF Refused(board, id, o) THEN marks
                 ELSE [marks EXCEPT ![id] = (@ \cup {"tool"}) \ {"succeeded"}]
    BY <1>2a DEF ClaimWrite
  <2>4. ~Refused(board, id, o) => board[id].status = "pending" /\ HasTask(board, id)
    BY <2>1, UnsetAssumption DEF Refused
  <2> HIDE DEF o
  <2>5. ~Refused(board, id, o) => board'[id].status = "in_progress"
    BY <1>0, <2>1, <2>2, ApplyStatus, UnsetAssumption DEF Choose
  <2>6. ~Refused(board, id, o) => board'[id].meta = board[id].meta
    <3> SUFFICES ASSUME ~Refused(board, id, o) PROVE board'[id].meta = board[id].meta
      OBVIOUS
    <3>1. board' = Updated(board, id, o)
      BY <2>2 DEF Apply
    <3>2. \A k \in MetaKey : board'[id].meta[k] = board[id].meta[k]
      BY <1>0, <2>1, <2>4, <3>1, UpdatedFields DEF KeepMeta, Choose
    <3>3. board' \in [TaskID -> Task]
      BY <1>0, <2>1, <2>4, <3>1, UpdatedBoard
    <3>4. board[id].meta \in [MetaKey -> Nat] /\ board'[id].meta \in [MetaKey -> Nat]
      BY <1>0, <3>3 DEF Task
    <3> QED BY <3>2, <3>4
  <2>7. \A x \in TaskID \ {id} : /\ board'[x].status = board[x].status
                                 /\ board'[x].meta = board[x].meta
                                 /\ marks'[x] = marks[x]
    BY <1>0, <2>1, <2>2, <2>3, ApplyStatus
  <2>8. marks[id] \ {"succeeded"} \subseteq marks'[id]
        /\ (~Refused(board, id, o) => "tool" \in marks'[id])
    BY <1>0, <2>3
  <2>9. Refused(board, id, o) => board' = board
    BY <1>0, <2>1, <2>2, ApplyStatus
  <2> QED BY <1>0, <1>1, <2>3, <2>4, <2>5, <2>6, <2>7, <2>8, <2>9
<1>3. ASSUME NEW o \in Options, o.status = "completed", board' = Apply(board, id, o), marks' = marks
      PROVE  /\ \A x \in TaskID \ {id} : board'[x].status = board[x].status /\ board'[x].meta = board[x].meta
             /\ board' = board \/ board'[id].status = "completed"
  BY <1>0, <1>3, ApplyStatus, UnsetAssumption DEF Choose
<1>4. CASE CompleteWrite(c)
  <2>1. Cas(call[c].was, "completed") \in Options /\ Cas(call[c].was, "completed").status = "completed"
    BY <1>0, CasRequest DEF Call, Status
  <2>2. board' = Apply(board, id, Cas(call[c].was, "completed")) /\ marks' = marks
    BY <1>4 DEF CompleteWrite
  <2> QED BY <1>0, <1>1, <1>3, <2>1, <2>2
<1>5. CASE ApproveWrite(c)
  <2> DEFINE o == [NoOptions EXCEPT !.status = "completed"]
  <2>1. o \in Options /\ o.status = "completed"
    BY OtherRequests DEF Status
  <2>2. board' = Apply(board, id, o) /\ marks' = marks
    BY <1>5 DEF ApproveWrite
  <2> HIDE DEF o
  <2> QED BY <1>0, <1>1, <1>3, <2>1, <2>2
<1>6. CASE BounceReset(c)
  <2> DEFINE o == [NoOptions EXCEPT !.status = "pending"]
  <2>1. o \in Options /\ o.status = "pending"
    BY OtherRequests DEF Status
  <2>2. /\ board' = Apply(board, id, o) /\ call[c].op = "reset"
        /\ marks' = [marks EXCEPT ![id] = @ \cup {"reopened"} \cup Stolen(id, {})]
    BY <1>6 DEF BounceReset
  <2> HIDE DEF o
  <2>3. board' = board \/ board'[id].status = "pending"
    BY <1>0, <2>1, <2>2, ApplyStatus, UnsetAssumption DEF Choose
  <2>4. \A x \in TaskID \ {id} : /\ board'[x].status = board[x].status
                                 /\ board'[x].meta = board[x].meta
                                 /\ marks'[x] = marks[x]
    BY <1>0, <2>1, <2>2, ApplyStatus
  <2>5. marks'[id] = marks[id] \cup {"reopened"} \cup Stolen(id, {}) /\ Stolen(id, {}) \subseteq {"stolen"}
    BY <1>0, <2>2 DEF Stolen
  <2> QED BY <1>0, <1>1, <2>2, <2>3, <2>4, <2>5
<1> QED BY <1>2, <1>2a, <1>4, <1>5, <1>6

\* Creating puts a new pending task on the board, linking changes no status,
\* and undoing takes the task off the board.
LEMMA CreateCalls ==
    ASSUME Typed, NEW c \in Caller,
           (\E d \in Drafts : CreateTask(c, d[1], d[2])) \/ LinkTask(c) \/ UndoCreate(c)
    PROVE  /\ UNCHANGED teamVars
           /\ \A id \in TaskID : /\ marks[id] \subseteq marks'[id]
                                 /\ marks'[id] \subseteq marks[id] \cup {"raced"}
           /\ \A id \in TaskID :
                 \/ board'[id].status = board[id].status /\ board'[id].meta = board[id].meta
                 \/ /\ board[id].status = "absent" /\ board'[id].status = "pending"
                    /\ board'[id].meta["retry_attempts"] = 0
                    /\ \A t \in Teammate : job[t].task # id
                 \/ board'[id].status = "absent" /\ call[c].op = "undo" /\ call[c].id = id
<1>0. /\ board \in [TaskID -> Task] /\ nextID \in Nat /\ Sound(board, nextID)
      /\ call[c] \in Call /\ marks \in [TaskID -> SUBSET Mark]
  BY DEF Typed, TypeOK, SharedBoardSound
<1>1. ASSUME NEW d \in Drafts, CreateTask(c, d[1], d[2])
      PROVE  \A id \in TaskID :
                 \/ board'[id].status = board[id].status /\ board'[id].meta = board[id].meta
                 \/ /\ board[id].status = "absent" /\ board'[id].status = "pending"
                    /\ board'[id].meta["retry_attempts"] = 0
                    /\ \A t \in Teammate : job[t].task # id
  <2>1. board' = [board EXCEPT ![nextID + 1] = NewTask] /\ nextID + 1 \in TaskID
    BY <1>1 DEF CreateTask
  <2>2. /\ ~HasTask(board, nextID + 1)
        /\ board'[nextID + 1].status = "pending" /\ board'[nextID + 1].meta = NoMeta
    BY <1>0, <2>1, CreateKeepsSound
  <2>3. NoMeta["retry_attempts"] = 0
    BY DEF NoMeta, MetaKey
  <2>4. \A t \in Teammate : job[t].task # nextID + 1
    <3>1. \A t \in Teammate : job[t].task <= nextID
      BY DEF Typed, Bookkeeping
    <3> QED BY <1>0, <3>1
  <2> QED BY <1>0, <2>1, <2>2, <2>3, <2>4 DEF HasTask
<1>2. ASSUME LinkTask(c)
      PROVE  \A id \in TaskID : board'[id].status = board[id].status /\ board'[id].meta = board[id].meta
  <2> DEFINE o == [NoOptions EXCEPT !.addBlockedBy = call[c].deps]
             i == call[c].id
  <2>1. /\ i \in TaskID /\ call[c].deps \in SUBSET TaskID
    BY <1>0, <1>2 DEF LinkTask, Typed, Bookkeeping, Call
  <2>2. o \in Options /\ o.status = Unset /\ o.meta = KeepMeta
    BY <2>1, OtherRequests DEF Status, NoOptions
  <2>3. board' = Apply(board, i, o)
    BY <1>2 DEF LinkTask
  <2> HIDE DEF o
  <2>4. /\ \A x \in TaskID \ {i} : board'[x].status = board[x].status /\ board'[x].meta = board[x].meta
        /\ board'[i].status = board[i].status
    BY <1>0, <2>1, <2>2, <2>3, ApplyStatus DEF Choose
  <2>5. board'[i].meta = board[i].meta
    <3>1. CASE Refused(board, i, o)
      BY <2>3, <3>1 DEF Apply
    <3>2. CASE ~Refused(board, i, o)
      <4>1. HasTask(board, i) /\ board' = Updated(board, i, o)
        BY <2>3, <3>2 DEF Apply, Refused
      <4>2. \A k \in MetaKey : board'[i].meta[k] = board[i].meta[k]
        BY <1>0, <2>1, <2>2, <4>1, UpdatedFields DEF KeepMeta, Choose
      <4>3. board' \in [TaskID -> Task]
        BY <1>0, <2>1, <2>2, <4>1, UpdatedBoard
      <4>4. board[i].meta \in [MetaKey -> Nat] /\ board'[i].meta \in [MetaKey -> Nat]
        BY <1>0, <2>1, <4>3 DEF Task
      <4> QED BY <4>2, <4>4
    <3> QED BY <3>1, <3>2
  <2> QED BY <2>1, <2>4, <2>5
<1>3. ASSUME UndoCreate(c)
      PROVE  \A id \in TaskID :
                 \/ board'[id].status = board[id].status /\ board'[id].meta = board[id].meta
                 \/ board'[id].status = "absent" /\ call[c].op = "undo" /\ call[c].id = id
  <2>1. call[c].id \in TaskID /\ call[c].op = "undo" /\ board' = Deleted(board, call[c].id)
    BY <1>0, <1>3 DEF UndoCreate, Typed, Bookkeeping, Call
  <2>2. NoTask.status = "absent"
    BY DEF NoTask
  <2> QED BY <1>0, <2>1, <2>2, DeletedBoard
<1>4. UNCHANGED teamVars
  BY DEF CreateTask, LinkTask, UndoCreate
<1>5. \A id \in TaskID : /\ marks[id] \subseteq marks'[id]
                         /\ marks'[id] \subseteq marks[id] \cup {"raced"}
  BY <1>0 DEF CreateTask, LinkTask, UndoCreate
<1> QED BY <1>1, <1>2, <1>3, <1>4, <1>5

\* The other steps of the tools leave the board, the marks and the team alone.
LEMMA OtherCalls ==
    ASSUME NEW c \in Caller,
           \/ Deliver(c)
           \/ \E t \in Teammate : SendNote(c, t)
           \/ \E id \in TaskID : CompleteCheck(c, id)
           \/ \E id \in TaskID, t \in Teammate :
                 ClaimCheck(c, id, t) \/ Approve(c, t, id) \/ Bounce(c, t, id)
    PROVE  board' = board /\ marks' = marks /\ UNCHANGED teamVars
BY DEF Deliver, SendNote, CompleteCheck, ClaimCheck, Approve, Bounce, boardVars

\* No tool leaks a claim or makes a second runner unnoticed.
LEMMA CallClaims ==
    ASSUME Typed, Claims, NEW c \in Caller, Begin(c) \/ Proceed(c)
    PROVE  Claims'
<1>1. CASE \/ Deliver(c)
           \/ \E t \in Teammate : SendNote(c, t)
           \/ \E id \in TaskID : CompleteCheck(c, id)
           \/ \E id \in TaskID, t \in Teammate :
                 ClaimCheck(c, id, t) \/ Approve(c, t, id) \/ Bounce(c, t, id)
  <2>1. board' = board /\ marks' = marks /\ UNCHANGED teamVars
    BY <1>1, OtherCalls
  <2> QED BY <2>1, TeamStands, ClaimsStep
<1>2. CASE (\E d \in Drafts : CreateTask(c, d[1], d[2])) \/ LinkTask(c) \/ UndoCreate(c)
  <2>1. /\ UNCHANGED teamVars
        /\ \A id \in TaskID : /\ marks[id] \subseteq marks'[id]
                              /\ marks'[id] \subseteq marks[id] \cup {"raced"}
        /\ \A id \in TaskID :
              \/ board'[id].status = board[id].status
              \/ /\ board'[id].status = "pending"
                 /\ \A t \in Teammate : job[t].task # id
              \/ board'[id].status = "absent"
    BY <1>2, CreateCalls
  <2>2. \A t \in Teammate, id \in TaskID :
            (Holds(t, id)' <=> Holds(t, id)) /\ (Runs(t, id)' <=> Runs(t, id))
    BY <2>1, TeamStands
  <2>3. \A t \in Teammate, id \in TaskID : Runs(t, id) /\ board'[id].status = "pending"
            => board[id].status = "pending"
    BY <2>1 DEF Runs
  <2>4. \A id \in TaskID : /\ "tool" \in marks'[id] <=> "tool" \in marks[id]
                           /\ "stolen" \in marks[id] => "stolen" \in marks'[id]
                           /\ board'[id].status = "in_progress" => board[id].status = "in_progress"
    BY <2>1
  <2> QED BY <2>2, <2>3, <2>4, ClaimsStep
<1>3. CASE ClaimWrite(c) \/ CompleteWrite(c) \/ ApproveWrite(c) \/ BounceReset(c)
  <2> DEFINE id == call[c].id
  <2>1. /\ id \in TaskID /\ UNCHANGED teamVars
        /\ \A x \in TaskID \ {id} : board'[x].status = board[x].status /\ marks'[x] = marks[x]
        /\ marks[id] \ {"succeeded"} \subseteq marks'[id]
        /\ \/ board' = board /\ marks'[id] \subseteq marks[id] \cup {"reopened", "stolen"}
           \/ board'[id].status = "in_progress" /\ "tool" \in marks'[id]
           \/ board'[id].status = "completed"
           \/ board'[id].status = "pending" /\ Stolen(id, {}) \subseteq marks'[id]
    BY <1>3, StatusCalls
  <2>2. \A t \in Teammate, x \in TaskID :
            (Holds(t, x)' <=> Holds(t, x)) /\ (Runs(t, x)' <=> Runs(t, x))
    BY <2>1, TeamStands
  <2>3. \A x \in TaskID : board'[x].status = "in_progress" /\ "tool" \notin marks'[x]
            => board[x].status = "in_progress" /\ "tool" \notin marks[x]
    BY <2>1
  <2>4. \A x \in TaskID : "stolen" \in marks[x] => "stolen" \in marks'[x]
    BY <2>1
  <2>5. ASSUME NEW t \in Teammate, NEW x \in TaskID,
               Runs(t, x)', board'[x].status = "pending", "stolen" \notin marks'[x]
        PROVE  board[x].status = "pending"
    <3>1. x = id => "stolen" \in Stolen(id, {})
      BY <2>2, <2>5 DEF Stolen
    <3> QED BY <2>1, <2>5, <3>1
  <2> QED BY <2>2, <2>3, <2>4, <2>5, ClaimsStep
<1> QED BY <1>1, <1>2, <1>3 DEF Begin, Proceed

\* The claims are kept by every step.
LEMMA NextClaims == Typed /\ Claims /\ [Next]_vars => Claims'
<1> SUFFICES ASSUME Typed, Claims, [Next]_vars PROVE Claims'
  OBVIOUS
<1>1. ASSUME NEW t \in Teammate, Run(t) \/ Panic(t) \/ Cancel(t) PROVE Claims'
  BY <1>1, TeammateClaims, ClaimClaims, WriteClaims DEF Run
<1>2. ASSUME NEW c \in Caller, Begin(c) \/ Proceed(c) PROVE Claims'
  BY <1>2, CallClaims
<1>3. CASE UNCHANGED vars
  BY <1>3 DEF vars, Claims, NoLeakedClaim, OneRunnerPerTask, RunningNotPending, Holds, Runs
<1> QED BY <1>1, <1>2, <1>3 DEF Next

\* No claim is leaked: for any team, and wherever cancellations and panics
\* strike, a task in progress that no tool claimed is held by a teammate.
THEOREM ClaimsAreHeld == Spec => []NoLeakedClaim
<1>1. Typed /\ Claims => NoLeakedClaim
  BY DEF Claims
<1> QED BY <1>1, InitTyped, NextTyped, InitClaims, NextClaims, PTL DEF Spec

\* The claims of tryClaimPendingTask exclude each other.
THEOREM ClaimsExclude == Spec => []OneRunnerPerTask
<1>1. Typed /\ Claims => OneRunnerPerTask
  BY DEF Claims
<1> QED BY <1>1, InitTyped, NextTyped, InitClaims, NextClaims, PTL DEF Spec

-----------------------------------------------------------------------------
(* Completed tasks, and retries *)

\* What a teammate's step does to a task: a claim of a pending one, or a
\* write to one in progress.
LEMMA TeammateWrites ==
    ASSUME Typed, NEW t \in Teammate, Run(t) \/ Panic(t) \/ Cancel(t)
    PROVE  /\ \A id \in TaskID : marks[id] \ {"tool", "succeeded"} \subseteq marks'[id]
           /\ \/ board' = board
              \/ \E id \in TaskID :
                    /\ board[id].status \in {"pending", "in_progress"}
                    /\ \A x \in TaskID \ {id} : /\ board'[x].status = board[x].status
                                                /\ board'[x].meta = board[x].meta
                    /\ \/ /\ board'[id].status \in {"pending", "in_progress"}
                          /\ \/ /\ board[id].status = "pending"
                                /\ board'[id].meta = board[id].meta
                             \/ board'[id].meta["retry_attempts"] < maxTransientTaskRetries
                             \/ "cancelled" \in marks'[id]
                       \/ board'[id].status = "completed"
<1>0. /\ board \in [TaskID -> Task] /\ pc \in [Teammate -> Where] /\ job \in [Teammate -> Job]
      /\ marks \in [TaskID -> SUBSET Mark] /\ job[t] \in Job /\ job[t].attempts + 1 \in Nat
      /\ job[t].task \in TaskID \cup {0} /\ job[t].mail \in TaskID \cup {0}
      /\ todo \in [Teammate -> SUBSET (TaskID \X SUBSET TaskID)]
  BY DEF Typed, TypeOK, Job
<1>1. CASE \/ Poll(t) \/ TakeHint(t) \/ CheckBlockers(t)
           \/ (\E o \in {"ok", "transient", "permanent"} : Finish(t, o))
           \/ Settle(t) \/ TakeMail(t) \/ (\E ok \in BOOLEAN : FinishMail(t, ok))
           \/ LeaveLoop(t) \/ Panic(t) \/ Cancel(t)
  <2>1. board' = board
    BY <1>1 DEF Poll, TakeHint, CheckBlockers, Finish, Settle, TakeMail, FinishMail, LeaveLoop,
                Panic, Cancel, boardVars
  <2>2. \A id \in TaskID : marks[id] \subseteq marks'[id]
    BY <1>0, <1>1 DEF Poll, TakeHint, CheckBlockers, Finish, Settle, TakeMail, FinishMail, LeaveLoop,
                Panic, Cancel, boardVars
  <2> QED BY <2>1, <2>2
<1>2. CASE Claim(t)
  <2>1. PICK p \in todo[t] :
           \/ /\ ~Refused(board, p[1], ClaimFor(t))
              /\ board' = Updated(board, p[1], ClaimFor(t))
              /\ marks' = [marks EXCEPT ![p[1]] = @ \ {"tool", "succeeded"}]
           \/ UNCHANGED <<board, marks>>
    BY <1>2 DEF Claim, Oldest
  <2> DEFINE id == p[1]
             o == ClaimFor(t)
  <2>2. id \in TaskID
    BY <1>0, <2>1
  <2>3. CASE UNCHANGED <<board, marks>>
    BY <2>3
  <2>4. CASE /\ ~Refused(board, id, o) /\ board' = Updated(board, id, o)
             /\ marks' = [marks EXCEPT ![id] = @ \ {"tool", "succeeded"}]
    <3>1. /\ o \in Options /\ o.expected = "pending" /\ o.status = "in_progress"
          /\ o.meta = KeepMeta
      BY ClaimRequest, TeammateAssumption
    <3>2. board[id].status = "pending" /\ HasTask(board, id)
      BY <2>4, <3>1, UnsetAssumption DEF Refused
    <3> HIDE DEF o
    <3>3. /\ board'[id].status = "in_progress"
          /\ \A x \in TaskID \ {id} : board'[x].status = board[x].status /\ board'[x].meta = board[x].meta
          /\ \A k \in MetaKey : board'[id].meta[k] = board[id].meta[k]
      BY <1>0, <2>2, <2>4, <3>1, <3>2, UpdatedFields, UnsetAssumption DEF Choose, KeepMeta
    <3>4. board' \in [TaskID -> Task]
      BY <1>0, <2>2, <2>4, <3>1, <3>2, UpdatedBoard
    <3>5. board[id].meta \in [MetaKey -> Nat] /\ board'[id].meta \in [MetaKey -> Nat]
      BY <1>0, <2>2, <3>4 DEF Task
    <3>6. board'[id].meta = board[id].meta
      BY <3>3, <3>5
    <3>7. \A x \in TaskID : marks[x] \ {"tool", "succeeded"} \subseteq marks'[x]
      BY <1>0, <2>2, <2>4
    <3> QED BY <2>2, <3>2, <3>3, <3>6, <3>7
  <2> QED BY <2>1, <2>3, <2>4
<1>3. ASSUME NEW id \in TaskID, NEW o \in Options,
             board' = Apply(board, id, o), o.expected = "in_progress",
             o.status \in {"completed", "pending"}, o.addBlocks = {}, o.addBlockedBy = {},
             \A x \in TaskID : marks[x] \subseteq marks'[x],
             o.status = "pending" => /\ o.meta["retry_attempts"] \in Nat
                                     /\ \/ o.meta["retry_attempts"] < maxTransientTaskRetries
                                        \/ Refused(board, id, o)
                                        \/ "cancelled" \in marks'[id]
      PROVE  /\ \A x \in TaskID : marks[x] \subseteq marks'[x]
             /\ \/ board' = board
                \/ /\ board[id].status = "in_progress"
                   /\ \A x \in TaskID \ {id} : board'[x].status = board[x].status /\ board'[x].meta = board[x].meta
                   /\ \/ /\ board'[id].status = "pending"
                         /\ \/ board'[id].meta["retry_attempts"] < maxTransientTaskRetries
                            \/ "cancelled" \in marks'[id]
                      \/ board'[id].status = "completed"
  <2>1. CASE Refused(board, id, o)
    BY <1>3, <2>1 DEF Apply
  <2>2. CASE ~Refused(board, id, o)
    <3>1. board' = Updated(board, id, o) /\ HasTask(board, id) /\ board[id].status = "in_progress"
      BY <1>3, <2>2, UnsetAssumption DEF Apply, Refused
    <3>2. /\ board'[id].status = o.status
          /\ \A x \in TaskID \ {id} : board'[x].status = board[x].status /\ board'[x].meta = board[x].meta
          /\ \A k \in MetaKey : board'[id].meta[k] = Choose(o.meta[k], board[id].meta[k])
      BY <1>0, <1>3, <3>1, UpdatedFields, UnsetAssumption DEF Choose
    <3>3. o.meta["retry_attempts"] # Unset =>
              board'[id].meta["retry_attempts"] = o.meta["retry_attempts"]
      BY <3>2 DEF MetaKey, Choose
    <3>4. CASE o.status = "completed"
      BY <1>3, <3>1, <3>2, <3>4
    <3>5. CASE o.status = "pending" /\ "cancelled" \in marks'[id]
      BY <1>3, <3>1, <3>2, <3>5
    <3>6. CASE /\ o.status = "pending" /\ o.meta["retry_attempts"] # Unset
               /\ o.meta["retry_attempts"] < maxTransientTaskRetries
      BY <1>3, <3>1, <3>2, <3>3, <3>6
    <3> QED BY <1>3, <2>2, <3>4, <3>5, <3>6, UnsetAssumption
  <2> QED BY <2>1, <2>2
<1>4. CASE Write(t)
  <2> DEFINE id == job[t].task
             o == WriteBack(job[t])
             n == job[t].attempts + 1
  <2>1. id \in TaskID /\ job[t].outcome # "none"
    BY <1>0, <1>4 DEF Write, Typed, Bookkeeping
  <2>2. /\ o \in Options /\ o.expected = "in_progress" /\ o.status \in {"completed", "pending"}
        /\ o.addBlocks = {} /\ o.addBlockedBy = {}
    BY <1>0, <2>1, WriteBackRequest
  <2>3. board' = Apply(board, id, o)
    BY <1>4 DEF Write
  <2>4. \A x \in TaskID : marks[x] \subseteq marks'[x]
    BY <1>0, <1>4 DEF Write
  <2>5. o.status = "pending" =>
            /\ o = Requeue(n)
            /\ job[t].outcome = "cancelled" \/ n < maxTransientTaskRetries
    <3>1. job[t].outcome \in {"ok", "transient", "permanent", "cancelled"}
      BY <1>0, <2>1 DEF Job, Outcome
    <3>2. CASE job[t].outcome = "ok"
      BY <3>2, CasRequest DEF WriteBack, Status
    <3>3. CASE job[t].outcome = "permanent"
      BY <3>3, ParkRequest DEF WriteBack
    <3>4. CASE job[t].outcome = "cancelled"
      BY <3>4 DEF WriteBack
    <3>5. CASE job[t].outcome = "transient"
      <4>1. o = RetryOrPark(n)
        BY <3>5 DEF WriteBack
      <4> HIDE DEF o
      <4> QED BY <1>0, <4>1, ParkRequest, BoundAssumption DEF RetryOrPark
    <3> QED BY <3>1, <3>2, <3>3, <3>4, <3>5
  <2>6. Requeue(n).meta["retry_attempts"] = n
    BY <1>0, RequeueRequest
  <2>7. job[t].outcome = "cancelled" => Refused(board, id, o) \/ "cancelled" \in marks'[id]
    BY <1>0, <1>4, <2>1 DEF Write
  <2> HIDE DEF o, id, n
  <2>8. o.status = "pending" => /\ o.meta["retry_attempts"] \in Nat
                                /\ \/ o.meta["retry_attempts"] < maxTransientTaskRetries
                                   \/ Refused(board, id, o)
                                   \/ "cancelled" \in marks'[id]
    BY <1>0, <2>5, <2>6, <2>7 DEF n
  <2> QED BY <1>3, <2>1, <2>2, <2>3, <2>4, <2>8
<1>5. CASE Rollback(t)
  <2> DEFINE id == job[t].task
             n == job[t].attempts + 1
             o == RetryOrPark(n)
  <2>1. id \in TaskID
    BY <1>0, <1>5 DEF Rollback, Typed, Bookkeeping
  <2>2. /\ o \in Options /\ o.expected = "in_progress" /\ o.status \in {"completed", "pending"}
        /\ o.addBlocks = {} /\ o.addBlockedBy = {}
    BY <1>0, RollbackRequest
  <2>3. board' = Apply(board, id, o)
    BY <1>5 DEF Rollback
  <2>4. \A x \in TaskID : marks[x] \subseteq marks'[x]
    BY <1>0, <1>5 DEF Rollback
  <2>5. o.status = "pending" => o.meta["retry_attempts"] = n /\ n < maxTransientTaskRetries
    BY <1>0, ParkRequest, RequeueRequest, BoundAssumption DEF RetryOrPark
  <2> HIDE DEF o, id
  <2> QED BY <1>0, <1>3, <2>1, <2>2, <2>3, <2>4, <2>5
<1> QED BY <1>1, <1>2, <1>4, <1>5 DEF Run

\* A completed task stays completed until a review reopens it: the late
\* write-back of a teammate that lost its task is refused.
THEOREM CompletedTasksStay == Spec => CompletedStays
<1> DEFINE Stays == \A id \in TaskID :
               board[id].status = "completed" /\ board'[id].status # "completed" =>
                   \E c \in Caller : call[c].id = id /\ call[c].op \in {"reset", "undo"}
<1>1. Typed /\ [Next]_vars => [Stays]_vars
  <2> SUFFICES ASSUME Typed, Next PROVE Stays
    OBVIOUS
  <2>1. ASSUME NEW t \in Teammate, Run(t) \/ Panic(t) \/ Cancel(t) PROVE Stays
    BY <2>1, TeammateWrites
  <2>2. ASSUME NEW c \in Caller, Begin(c) \/ Proceed(c) PROVE Stays
    <3>1. CASE \/ Deliver(c)
               \/ \E t \in Teammate : SendNote(c, t)
               \/ \E id \in TaskID : CompleteCheck(c, id)
               \/ \E id \in TaskID, t \in Teammate :
                     ClaimCheck(c, id, t) \/ Approve(c, t, id) \/ Bounce(c, t, id)
      BY <3>1, OtherCalls
    <3>2. CASE (\E d \in Drafts : CreateTask(c, d[1], d[2])) \/ LinkTask(c) \/ UndoCreate(c)
      BY <3>2, CreateCalls
    <3>3. CASE ClaimWrite(c) \/ CompleteWrite(c) \/ ApproveWrite(c) \/ BounceReset(c)
      BY <3>3, StatusCalls
    <3> QED BY <2>2, <3>1, <3>2, <3>3 DEF Begin, Proceed
  <2> QED BY <2>1, <2>2 DEF Next
<1> QED BY <1>1, InitTyped, NextTyped, PTL DEF Spec, CompletedStays

\* A step keeps RetriesBounded if the tasks it leaves open had no more
\* attempts before, are within the bound, or carry a mark that excuses them.
LEMMA RetriesStep ==
    ASSUME RetriesBounded,
           \A id \in TaskID : marks[id] \cap {"reopened", "cancelled"} \subseteq marks'[id],
           \A id \in TaskID :
               board'[id].status \in {"pending", "in_progress"} =>
                   \/ /\ board[id].status \in {"pending", "in_progress"}
                      /\ board'[id].meta = board[id].meta
                   \/ ~(board'[id].meta["retry_attempts"] >= maxTransientTaskRetries)
                   \/ marks'[id] \cap {"reopened", "cancelled"} # {}
    PROVE  RetriesBounded'
BY DEF RetriesBounded

\* A task that has failed maxTransientTaskRetries times is never offered
\* again, unless a review reopened it or a cancelled teammate gave it back.
THEOREM RetriesAreBounded == Spec => []RetriesBounded
<1>1. Init => RetriesBounded
  BY DEF Init, RetriesBounded, EmptyBoard, NoTask
<1>2. Typed /\ RetriesBounded /\ [Next]_vars => RetriesBounded'
  <2> SUFFICES ASSUME Typed, RetriesBounded, [Next]_vars PROVE RetriesBounded'
    OBVIOUS
  <2>0. \A b \in [TaskID -> Task] : \A id \in TaskID : b[id].meta["retry_attempts"] \in Nat
    BY DEF Task, MetaKey
  <2>1. ASSUME NEW t \in Teammate, Run(t) \/ Panic(t) \/ Cancel(t) PROVE RetriesBounded'
    <3>1. board' \in [TaskID -> Task]
      <4>1. Next
        BY <2>1 DEF Next
      <4> QED BY <4>1, NextTyped DEF Typed, TypeOK
    <3>2. \A n \in Nat : n < maxTransientTaskRetries => ~(n >= maxTransientTaskRetries)
      BY BoundAssumption
    <3> QED BY <2>0, <2>1, <3>1, <3>2, TeammateWrites, RetriesStep
  <2>2. ASSUME NEW c \in Caller, Begin(c) \/ Proceed(c) PROVE RetriesBounded'
    <3>1. CASE \/ Deliver(c)
               \/ \E t \in Teammate : SendNote(c, t)
               \/ \E id \in TaskID : CompleteCheck(c, id)
               \/ \E id \in TaskID, t \in Teammate :
                     ClaimCheck(c, id, t) \/ Approve(c, t, id) \/ Bounce(c, t, id)
      BY <3>1, OtherCalls DEF RetriesBounded
    <3>2. CASE (\E d \in Drafts : CreateTask(c, d[1], d[2])) \/ LinkTask(c) \/ UndoCreate(c)
      <4>1. ~(0 >= maxTransientTaskRetries)
        BY BoundAssumption
      <4> QED BY <3>2, <4>1, CreateCalls, RetriesStep
    <3>3. CASE ClaimWrite(c) \/ CompleteWrite(c) \/ ApproveWrite(c) \/ BounceReset(c)
      BY <3>3, StatusCalls, RetriesStep
    <3> QED BY <2>2, <3>1, <3>2, <3>3 DEF Begin, Proceed
  <2>3. CASE UNCHANGED vars
    BY <2>3 DEF vars, RetriesBounded
  <2> QED BY <2>1, <2>2, <2>3 DEF Next
<1> QED BY <1>1, <1>2, InitTyped, NextTyped, PTL DEF Spec

-----------------------------------------------------------------------------
(* Dependencies *)

\* A blocker that nobody has to wait for any more.
Met(d) ==
    \/ board[d].status = "completed" /\ board[d].meta["permanent_error"] = 0
    \/ "reopened" \in marks[d]

\* The blockers a teammate read when it listed a task are all the task has, unless more were
\* linked since; between the check and the claim those the task still has are met.
ListedBlockers ==
    \A t \in Teammate : \A p \in todo[t] :
        pc[t] \in {"check", "claim"} /\ "raced" \notin marks[p[1]] =>
            /\ board[p[1]].blockedBy \subseteq p[2]
            /\ pc[t] = "claim" => \A d \in board[p[1]].blockedBy : Met(d)

StartedMet ==
    \A id \in TaskID :
        board[id].status = "in_progress" /\ marks[id] \cap {"tool", "raced"} = {} =>
            \A d \in board[id].blockedBy : Met(d)

\* DependentsWait is inductive only with what a teammate has listed: the claim looks at the
\* status of the task alone, and relies on the check of the blockers in an earlier step.
Waits == ListedBlockers /\ StartedMet

\* What a step does to the dependencies: marks that excuse stay; a met blocker stays met
\* or is deleted, and then nobody waits for it; a task gets new blockers only with the mark
\* "raced", or while no teammate has it.
DepsKept ==
    /\ \A x \in TaskID : marks[x] \cap {"raced", "reopened"} \subseteq marks'[x]
    /\ \A d \in TaskID : Met(d) => Met(d)' \/ \A x \in TaskID : d \notin board'[x].blockedBy
    /\ \A x \in TaskID :
           \/ board'[x].blockedBy \subseteq board[x].blockedBy
           \/ "raced" \in marks'[x]
           \/ ~Listed(x) /\ board'[x].status # "in_progress"

\* ... and no task is started but by a tool.
NoneStarted ==
    \A x \in TaskID :
        board'[x].status = "in_progress" /\ "tool" \notin marks'[x] =>
            board[x].status = "in_progress" /\ "tool" \notin marks[x]

\* A list that is kept keeps its blockers.
LEMMA KeptList ==
    ASSUME Typed, Typed', Waits, DepsKept, NEW t \in Teammate, NEW p \in todo[t],
           pc[t] \in {"check", "claim"}, "raced" \notin marks'[p[1]]
    PROVE  /\ board'[p[1]].blockedBy \subseteq p[2]
           /\ pc[t] = "claim" => \A d \in board'[p[1]].blockedBy : Met(d)'
<1>1. p[1] \in TaskID /\ Listed(p[1])
  BY DEF Typed, TypeOK, Listed
<1>2. board'[p[1]].blockedBy \subseteq board[p[1]].blockedBy
  BY <1>1 DEF DepsKept
<1>3. "raced" \notin marks[p[1]]
  BY <1>1 DEF DepsKept
<1>4. /\ board[p[1]].blockedBy \subseteq p[2]
      /\ pc[t] = "claim" => \A d \in board[p[1]].blockedBy : Met(d)
  BY <1>3 DEF Waits, ListedBlockers
<1>5. board'[p[1]].blockedBy \subseteq TaskID
  BY <1>1 DEF Typed, TypeOK, Task
<1>6. ASSUME pc[t] = "claim", NEW d \in board'[p[1]].blockedBy
      PROVE  Met(d)'
  <2>1. d \in TaskID /\ Met(d)
    BY <1>2, <1>4, <1>5, <1>6
  <2> QED BY <1>1, <1>6, <2>1 DEF DepsKept
<1> QED BY <1>2, <1>4, <1>6

LEMMA StartedKept ==
    ASSUME Typed, Typed', Waits, DepsKept, NEW x \in TaskID,
           board[x].status = "in_progress", board'[x].status = "in_progress",
           marks[x] \cap {"tool"} = {}, "raced" \notin marks'[x], NEW d \in board'[x].blockedBy
    PROVE  Met(d)'
<1>1. board'[x].blockedBy \subseteq board[x].blockedBy
  BY DEF DepsKept
<1>2. d \in TaskID
  BY DEF Typed, TypeOK, Task
<1>3. "raced" \notin marks[x]
  BY DEF DepsKept
<1>4. Met(d)
  BY <1>1, <1>3 DEF Waits, StartedMet
<1> QED BY <1>2, <1>4 DEF DepsKept

\* A step that lists and starts nothing.
LEMMA WaitsStep ==
    ASSUME Typed, Typed', Waits, DepsKept, NoneStarted,
           \A t \in Teammate : pc'[t] \in {"check", "claim"} => pc'[t] = pc[t] /\ todo'[t] = todo[t]
    PROVE  Waits'
<1>1. ListedBlockers'
  <2> SUFFICES ASSUME NEW t \in Teammate, NEW p \in todo'[t], pc'[t] \in {"check", "claim"},
                      "raced" \notin marks'[p[1]]
               PROVE  /\ board'[p[1]].blockedBy \subseteq p[2]
                      /\ pc'[t] = "claim" => \A d \in board'[p[1]].blockedBy : Met(d)'
    BY DEF ListedBlockers
  <2>1. p \in todo[t] /\ pc'[t] = pc[t]
    OBVIOUS
  <2> QED BY <2>1, KeptList
<1>2. StartedMet'
  <2> SUFFICES ASSUME NEW x \in TaskID, board'[x].status = "in_progress",
                      marks'[x] \cap {"tool", "raced"} = {}, NEW d \in board'[x].blockedBy
               PROVE  Met(d)'
    BY DEF StartedMet
  <2>1. board[x].status = "in_progress" /\ marks[x] \cap {"tool"} = {} /\ "raced" \notin marks'[x]
    BY DEF NoneStarted
  <2> QED BY <2>1, StartedKept
<1> QED BY <1>1, <1>2 DEF Waits

\* Nothing happens to the dependencies when the board stays as it is.
LEMMA BoardStays ==
    ASSUME board' = board, \A x \in TaskID : marks[x] \subseteq marks'[x]
    PROVE  DepsKept
BY DEF DepsKept, Met

\* A request without edges leaves the dependencies alone, and a met blocker met, if it expects
\* an open task, completes it without a word on its metadata, or is a review's.
LEMMA ApplyDeps ==
    ASSUME Typed, NEW id \in TaskID, NEW o \in Options, o.addBlocks = {}, o.addBlockedBy = {},
           board' = Apply(board, id, o),
           \A x \in TaskID : marks[x] \cap {"raced", "reopened"} \subseteq marks'[x],
           \/ o.expected \in {"pending", "in_progress"}
           \/ o.status = "completed" /\ o.meta = KeepMeta
           \/ "reopened" \in marks'[id]
    PROVE  DepsKept /\ \A x \in TaskID : board'[x].blockedBy = board[x].blockedBy
<1>0. board \in [TaskID -> Task]
  BY DEF Typed, TypeOK
<1>1. CASE Refused(board, id, o)
  <2>1. board' = board
    BY <1>1 DEF Apply
  <2> QED BY <2>1 DEF DepsKept, Met
<1>2. CASE ~Refused(board, id, o)
  <2>1. board' = Updated(board, id, o) /\ HasTask(board, id)
    BY <1>2 DEF Apply, Refused
  <2>2. o.expected # Unset => board[id].status = o.expected
    BY <1>2 DEF Refused
  <2>3. /\ board'[id].status = Choose(o.status, board[id].status)
        /\ \A k \in MetaKey : board'[id].meta[k] = Choose(o.meta[k], board[id].meta[k])
        /\ \A x \in TaskID \ {id} : board'[x].status = board[x].status /\ board'[x].meta = board[x].meta
    BY <1>0, <2>1, UpdatedFields
  <2>4. \A x \in TaskID : board'[x].blockedBy = board[x].blockedBy
    <3>1. \A x \in TaskID : Virtual(id, o)[x] = {}
      BY DEF Virtual
    <3>2. \A x \in TaskID : board'[x].blockedBy = board[x].blockedBy \cup Virtual(id, o)[x]
      BY <1>0, <2>1, UpdatedBoard
    <3> QED BY <3>1, <3>2
  <2>5. \A d \in TaskID \ {id} : Met(d) => Met(d)'
    BY <2>3 DEF Met
  <2>6. Met(id) => Met(id)'
    <3> SUFFICES ASSUME Met(id), "reopened" \notin marks'[id]
                 PROVE  Met(id)'
      BY DEF Met
    <3>1. board[id].status = "completed" /\ board[id].meta["permanent_error"] = 0
      BY DEF Met
    <3>2. o.status = "completed" /\ o.meta = KeepMeta
      BY <2>2, <3>1, UnsetAssumption
    <3>3. board'[id].status = "completed"
      BY <2>3, <3>2, UnsetAssumption DEF Choose
    <3>4. board'[id].meta["permanent_error"] = board[id].meta["permanent_error"]
      BY <2>3, <3>2 DEF Choose, KeepMeta, MetaKey
    <3> QED BY <3>1, <3>3, <3>4 DEF Met
  <2> QED BY <2>4, <2>5, <2>6 DEF DepsKept
<1> QED BY <1>1, <1>2

\* The writes of a teammate.
LEMMA WriteWaits ==
    ASSUME Typed, Typed', Waits, NEW t \in Teammate, Write(t) \/ Rollback(t)
    PROVE  Waits'
<1>0. /\ board \in [TaskID -> Task] /\ pc \in [Teammate -> Where] /\ job[t] \in Job
      /\ marks \in [TaskID -> SUBSET Mark] /\ job[t].attempts + 1 \in Nat
      /\ job[t].task \in TaskID
  BY DEF Typed, TypeOK, Job, Bookkeeping, Write, Rollback
<1>1. PICK o \in Options : /\ o.expected = "in_progress" /\ o.status \in {"completed", "pending"}
                          /\ o.addBlocks = {} /\ o.addBlockedBy = {}
                          /\ board' = Apply(board, job[t].task, o)
  <2>1. CASE Write(t)
    <3>1. job[t].outcome # "none"
      BY <2>1 DEF Write, Typed, Bookkeeping
    <3>2. board' = Apply(board, job[t].task, WriteBack(job[t]))
      BY <2>1 DEF Write
    <3> QED BY <1>0, <3>1, <3>2, WriteBackRequest
  <2>2. CASE Rollback(t)
    <3>1. board' = Apply(board, job[t].task, RetryOrPark(job[t].attempts + 1))
      BY <2>2 DEF Rollback
    <3> QED BY <1>0, <3>1, RollbackRequest
  <2> QED BY <2>1, <2>2
<1>2. \A x \in TaskID : marks[x] \subseteq marks'[x]
  BY <1>0 DEF Write, Rollback
<1>3. DepsKept
  BY <1>0, <1>1, <1>2, ApplyDeps
<1>4. NoneStarted
  BY <1>0, <1>1, <1>2, GiveBack DEF NoneStarted
<1>5. \A u \in Teammate : pc'[u] \in {"check", "claim"} => pc'[u] = pc[u] /\ todo'[u] = todo[u]
  BY <1>0 DEF Write, Rollback
<1> QED BY <1>3, <1>4, <1>5, WaitsStep

\* The steps of a teammate that do not list, check or write.
LEMMA OtherWaits ==
    ASSUME Typed, Typed', Waits, NEW t \in Teammate,
           \/ (\E o \in {"ok", "transient", "permanent"} : Finish(t, o))
           \/ Settle(t) \/ TakeMail(t) \/ (\E ok \in BOOLEAN : FinishMail(t, ok))
           \/ LeaveLoop(t) \/ Panic(t) \/ Cancel(t)
    PROVE  Waits'
<1>0. /\ marks \in [TaskID -> SUBSET Mark] /\ pc \in [Teammate -> Where]
      /\ job[t].mail \in TaskID \cup {0}
  BY DEF Typed, TypeOK, Job
<1>1. board' = board /\ todo' = todo
  BY DEF Finish, Settle, TakeMail, FinishMail, LeaveLoop, Panic, Cancel, boardVars
<1>2. \A x \in TaskID : marks[x] \subseteq marks'[x]
  BY <1>0 DEF Finish, Settle, TakeMail, FinishMail, LeaveLoop, Panic, Cancel, boardVars
<1>3. \A u \in Teammate : pc'[u] \in {"check", "claim"} => pc'[u] = pc[u]
  BY <1>0 DEF Finish, Settle, TakeMail, FinishMail, LeaveLoop, Panic, Cancel
<1>4. DepsKept
  BY <1>1, <1>2, BoardStays
<1>5. NoneStarted
  BY <1>1, <1>2 DEF NoneStarted
<1> QED BY <1>1, <1>3, <1>4, <1>5, WaitsStep

\* Listing reads the blockers, and the check meets those that were read.
LEMMA ListWaits ==
    ASSUME Typed, Typed', Waits, NEW t \in Teammate, Poll(t) \/ TakeHint(t) \/ CheckBlockers(t)
    PROVE  Waits'
<1>0. /\ pc \in [Teammate -> Where] /\ todo \in [Teammate -> SUBSET (TaskID \X SUBSET TaskID)]
  BY DEF Typed, TypeOK
<1>1. board' = board /\ marks' = marks
  BY DEF Poll, TakeHint, CheckBlockers, boardVars
<1>2. \A u \in Teammate \ {t} : pc'[u] = pc[u] /\ todo'[u] = todo[u]
  BY <1>0 DEF Poll, TakeHint, CheckBlockers
<1>3. \A d : Met(d)' <=> Met(d)
  BY <1>1 DEF Met
<1>4. ASSUME NEW p \in todo'[t], pc'[t] \in {"check", "claim"}, "raced" \notin marks[p[1]]
      PROVE  /\ board[p[1]].blockedBy \subseteq p[2]
             /\ pc'[t] = "claim" => \A d \in board[p[1]].blockedBy : Met(d)
  <2>1. CASE Poll(t) \/ TakeHint(t)
    <3>1. p \in Listing(t) /\ pc'[t] # "claim"
      BY <1>0, <1>4, <2>1 DEF Poll, TakeHint
    <3>2. p[2] = board[p[1]].blockedBy
      BY <3>1 DEF Listing
    <3> QED BY <3>1, <3>2
  <2>2. CASE CheckBlockers(t)
    <3>1. p \in todo[t] /\ allBlockersComplete(board, p[2]) /\ pc[t] = "check"
      BY <1>0, <1>4, <2>2 DEF CheckBlockers
    <3>2. board[p[1]].blockedBy \subseteq p[2]
      BY <1>4, <3>1 DEF Waits, ListedBlockers
    <3>3. \A d \in p[2] : Met(d)
      BY <3>1 DEF allBlockersComplete, Met
    <3> QED BY <3>2, <3>3
  <2> QED BY <2>1, <2>2
<1>5. ListedBlockers'
  <2> SUFFICES ASSUME NEW u \in Teammate, NEW p \in todo'[u], pc'[u] \in {"check", "claim"},
                      "raced" \notin marks[p[1]]
               PROVE  /\ board[p[1]].blockedBy \subseteq p[2]
                      /\ pc'[u] = "claim" => \A d \in board[p[1]].blockedBy : Met(d)
    BY <1>1, <1>3 DEF ListedBlockers
  <2>1. CASE u = t
    BY <1>4, <2>1
  <2>2. CASE u # t
    BY <1>2, <2>2 DEF Waits, ListedBlockers
  <2> QED BY <2>1, <2>2
<1>6. StartedMet'
  BY <1>1, <1>3 DEF Waits, StartedMet
<1> QED BY <1>5, <1>6 DEF Waits

\* A claim starts a task whose blockers were met in the check before it.
LEMMA ClaimWaits ==
    ASSUME Typed, Typed', Waits, NEW t \in Teammate, Claim(t)
    PROVE  Waits'
<1>0. /\ board \in [TaskID -> Task] /\ pc \in [Teammate -> Where]
      /\ marks \in [TaskID -> SUBSET Mark]
      /\ todo \in [Teammate -> SUBSET (TaskID \X SUBSET TaskID)]
  BY DEF Typed, TypeOK
<1>1. PICK p \in todo[t] :
         /\ pc[t] = "claim"
         /\ \/ /\ ~Refused(board, p[1], ClaimFor(t))
               /\ board' = Updated(board, p[1], ClaimFor(t))
               /\ marks' = [marks EXCEPT ![p[1]] = @ \ {"tool", "succeeded"}]
               /\ todo' = [todo EXCEPT ![t] = {}]
               /\ pc' = [pc EXCEPT ![t] = "run"]
            \/ /\ todo' = [todo EXCEPT ![t] = todo[t] \ {p}]
               /\ \E w \in {"idle", "claim"} : pc' = [pc EXCEPT ![t] = w]
               /\ UNCHANGED <<board, marks>>
  BY DEF Claim, Oldest
<1>2. p[1] \in TaskID
  BY <1>0, <1>1
<1>3. CASE /\ ~Refused(board, p[1], ClaimFor(t))
           /\ board' = Updated(board, p[1], ClaimFor(t))
           /\ marks' = [marks EXCEPT ![p[1]] = @ \ {"tool", "succeeded"}]
           /\ todo' = [todo EXCEPT ![t] = {}]
           /\ pc' = [pc EXCEPT ![t] = "run"]
  <2>1. PICK o \in Options : /\ o = ClaimFor(t)
                            /\ o.expected = "pending" /\ o.status = "in_progress"
                            /\ o.addBlocks = {} /\ o.addBlockedBy = {}
    BY ClaimRequest, TeammateAssumption
  <2>2. board' = Apply(board, p[1], o)
    BY <1>3, <2>1 DEF Apply
  <2>3. \A x \in TaskID : marks[x] \cap {"raced", "reopened"} \subseteq marks'[x]
    BY <1>0, <1>2, <1>3
  <2>4. DepsKept /\ \A x \in TaskID : board'[x].blockedBy = board[x].blockedBy
    BY <1>2, <2>1, <2>2, <2>3, ApplyDeps
  <2>5. \A x \in TaskID \ {p[1]} : board'[x].status = board[x].status /\ marks'[x] = marks[x]
    BY <1>0, <1>2, <1>3, <2>1, <2>2, ApplyStatus
  <2>6. ListedBlockers'
    <3> SUFFICES ASSUME NEW u \in Teammate, NEW q \in todo'[u], pc'[u] \in {"check", "claim"},
                        "raced" \notin marks'[q[1]]
                 PROVE  /\ board'[q[1]].blockedBy \subseteq q[2]
                        /\ pc'[u] = "claim" => \A d \in board'[q[1]].blockedBy : Met(d)'
      BY DEF ListedBlockers
    <3>1. u # t /\ pc'[u] = pc[u] /\ q \in todo[u]
      BY <1>0, <1>3
    <3> QED BY <2>4, <3>1, KeptList
  <2>7. StartedMet'
    <3> SUFFICES ASSUME NEW x \in TaskID, board'[x].status = "in_progress",
                        marks'[x] \cap {"tool", "raced"} = {}, NEW d \in board'[x].blockedBy
                 PROVE  Met(d)'
      BY DEF StartedMet
    <3>1. CASE x = p[1]
      <4>1. \A e \in board'[p[1]].blockedBy : Met(e)'
        BY <1>1, <2>4, <3>1, KeptList
      <4> QED BY <3>1, <4>1
    <3>2. CASE x # p[1]
      <4>1. board[x].status = "in_progress" /\ marks[x] \cap {"tool"} = {} /\ "raced" \notin marks'[x]
        BY <2>5, <3>2
      <4> QED BY <2>4, <4>1, StartedKept
    <3> QED BY <3>1, <3>2
  <2> QED BY <2>6, <2>7 DEF Waits
<1>4. CASE /\ todo' = [todo EXCEPT ![t] = todo[t] \ {p}]
           /\ \E w \in {"idle", "claim"} : pc' = [pc EXCEPT ![t] = w]
           /\ UNCHANGED <<board, marks>>
  <2>1. \A u \in Teammate : todo'[u] \subseteq todo[u] /\ (pc'[u] \in {"check", "claim"} => pc'[u] = pc[u])
    BY <1>0, <1>1, <1>4
  <2>2. \A d : Met(d)' <=> Met(d)
    BY <1>4 DEF Met
  <2> QED BY <1>4, <2>1, <2>2 DEF Waits, ListedBlockers, StartedMet
<1> QED BY <1>1, <1>3, <1>4

\* A tool that creates, links or deletes a task.
LEMMA CreateWaits ==
    ASSUME Typed, Typed', Waits, NEW c \in Caller,
           (\E d \in Drafts : CreateTask(c, d[1], d[2])) \/ LinkTask(c) \/ UndoCreate(c)
    PROVE  Waits'
<1>0. /\ board \in [TaskID -> Task] /\ nextID \in Nat /\ Sound(board, nextID)
      /\ call[c] \in Call /\ marks \in [TaskID -> SUBSET Mark]
  BY DEF Typed, TypeOK, SharedBoardSound
<1>1. /\ UNCHANGED teamVars
      /\ \A x \in TaskID : /\ marks[x] \subseteq marks'[x]
                           /\ marks'[x] \subseteq marks[x] \cup {"raced"}
      /\ \A x \in TaskID : \/ board'[x].status = board[x].status /\ board'[x].meta = board[x].meta
                           \/ board[x].status = "absent" /\ board'[x].status = "pending"
                           \/ board'[x].status = "absent" /\ call[c].op = "undo" /\ call[c].id = x
  BY CreateCalls
<1>2. NoneStarted
  BY <1>1 DEF NoneStarted
<1>3. ASSUME NEW d \in TaskID, Met(d), ~Met(d)'
      PROVE  call[c].op = "undo" /\ call[c].id = d
  BY <1>1, <1>3 DEF Met
<1>4. CASE \E d \in Drafts : CreateTask(c, d[1], d[2])
  <2>1. board' = [board EXCEPT ![nextID + 1] = NewTask] /\ call[c].op = "none"
    BY <1>4 DEF CreateTask
  <2>2. NewTask.blockedBy = {}
    BY DEF NewTask, NoTask
  <2>3. \A x \in TaskID : board'[x].blockedBy \subseteq board[x].blockedBy
    BY <1>0, <2>1, <2>2
  <2>4. DepsKept
    BY <1>1, <1>3, <2>1, <2>3 DEF DepsKept
  <2> QED BY <1>1, <1>2, <2>4, WaitsStep DEF teamVars
<1>5. CASE LinkTask(c)
  <2>1. PICK id \in TaskID, deps \in SUBSET TaskID :
            call[c].op = "link" /\ call[c].id = id /\ call[c].deps = deps
    BY <1>0, <1>5 DEF LinkTask, Typed, Bookkeeping, Call
  <2>2. PICK o \in Options : /\ o.addBlocks = {} /\ o.addBlockedBy = deps
                            /\ board' = Apply(board, id, o)
    <3>1. /\ [NoOptions EXCEPT !.addBlockedBy = deps] \in Options
          /\ [NoOptions EXCEPT !.addBlockedBy = deps].addBlocks = {}
          /\ [NoOptions EXCEPT !.addBlockedBy = deps].addBlockedBy = deps
      BY OtherRequests DEF NoOptions, Status
    <3>2. board' = Apply(board, id, [NoOptions EXCEPT !.addBlockedBy = deps])
      BY <1>5, <2>1 DEF LinkTask
    <3> QED BY <3>1, <3>2
  <2>3. \A x \in TaskID \ {id} : board'[x].blockedBy = board[x].blockedBy
    <3>1. CASE Refused(board, id, o)
      BY <2>2, <3>1 DEF Apply
    <3>2. CASE ~Refused(board, id, o)
      <4>1. board' = Updated(board, id, o) /\ HasTask(board, id)
        BY <2>2, <3>2 DEF Apply, Refused
      <4>2. \A x \in TaskID : board'[x].blockedBy = board[x].blockedBy \cup Virtual(id, o)[x]
        BY <1>0, <4>1, UpdatedBoard
      <4>3. \A x \in TaskID \ {id} : Virtual(id, o)[x] = {}
        BY <2>2 DEF Virtual
      <4> QED BY <4>2, <4>3
    <3> QED BY <3>1, <3>2
  <2>4. "raced" \in marks'[id] \/ (~Listed(id) /\ board[id].status = "pending")
    BY <1>0, <1>5, <2>1 DEF LinkTask
  <2>5. board'[id].status = board[id].status \/ board'[id].status # "in_progress"
    BY <1>1
  <2>6. DepsKept
    BY <1>1, <1>3, <2>1, <2>3, <2>4, <2>5 DEF DepsKept
  <2> QED BY <1>1, <1>2, <2>6, WaitsStep DEF teamVars
<1>6. CASE UndoCreate(c)
  <2>1. PICK id \in TaskID : call[c].id = id /\ call[c].op = "undo" /\ board' = Deleted(board, id)
    BY <1>0, <1>6 DEF UndoCreate, Typed, Bookkeeping, Call
  <2>2. NoTask.blockedBy = {}
    BY DEF NoTask
  <2>3. \A x \in TaskID : board'[x].blockedBy \subseteq board[x].blockedBy /\ id \notin board'[x].blockedBy
    BY <1>0, <2>1, <2>2, DeletedBoard
  <2>4. DepsKept
    BY <1>1, <1>3, <2>1, <2>3 DEF DepsKept
  <2> QED BY <1>1, <1>2, <2>4, WaitsStep DEF teamVars
<1> QED BY <1>4, <1>5, <1>6

\* A tool that sets a status.
LEMMA StatusWaits ==
    ASSUME Typed, Typed', Waits, NEW c \in Caller,
           ClaimWrite(c) \/ CompleteWrite(c) \/ ApproveWrite(c) \/ BounceReset(c)
    PROVE  Waits'
<1>0. call[c] \in Call /\ marks \in [TaskID -> SUBSET Mark] /\ board \in [TaskID -> Task]
  BY DEF Typed, TypeOK
<1>1. PICK id \in TaskID :
        /\ id = call[c].id /\ UNCHANGED teamVars
        /\ \A x \in TaskID \ {id} : board'[x].status = board[x].status /\ marks'[x] = marks[x]
        /\ marks[id] \ {"succeeded"} \subseteq marks'[id]
        /\ \/ board' = board
           \/ board'[id].status = "in_progress" /\ "tool" \in marks'[id]
           \/ board'[id].status = "completed"
           \/ board'[id].status = "pending"
  BY StatusCalls
<1>2. \A x \in TaskID : marks[x] \cap {"raced", "reopened", "tool"} \subseteq marks'[x]
  BY <1>1
<1>3. NoneStarted
  BY <1>1, <1>2 DEF NoneStarted
<1>4. DepsKept
  <2>1. CASE board' = board
    BY <1>2, <2>1 DEF DepsKept, Met
  <2>2. CASE ClaimWrite(c) /\ board' # board
    <3>1. call[c].by \in Owner \cup {NoOwner} /\ board' = Apply(board, id, ClaimFor(call[c].by))
      BY <1>0, <1>1, <2>2 DEF ClaimWrite, Call
    <3> QED BY <1>2, <3>1, ClaimRequest, ApplyDeps
  <2>3. CASE CompleteWrite(c)
    <3>1. call[c].was \in Status /\ board' = Apply(board, id, Cas(call[c].was, "completed"))
      BY <1>0, <1>1, <2>3 DEF CompleteWrite, Call
    <3>2. PICK o \in Options : /\ o.status = "completed" /\ o.meta = KeepMeta
                              /\ o.addBlocks = {} /\ o.addBlockedBy = {}
                              /\ board' = Apply(board, id, o)
      BY <3>1, CasRequest DEF Status
    <3> QED BY <1>2, <3>2, ApplyDeps
  <2>4. CASE ApproveWrite(c)
    <3> DEFINE o == [NoOptions EXCEPT !.status = "completed"]
    <3>1. o \in Options /\ o.status = "completed" /\ o.addBlocks = {} /\ o.addBlockedBy = {}
      BY OtherRequests DEF Status
    <3>2. o.meta = KeepMeta
      BY DEF NoOptions
    <3>3. board' = Apply(board, id, o)
      BY <1>1, <2>4 DEF ApproveWrite
    <3> HIDE DEF o
    <3> QED BY <1>2, <3>1, <3>2, <3>3, ApplyDeps
  <2>5. CASE BounceReset(c)
    <3> DEFINE o == [NoOptions EXCEPT !.status = "pending"]
    <3>1. o \in Options /\ o.addBlocks = {} /\ o.addBlockedBy = {}
      BY OtherRequests DEF Status
    <3>2. board' = Apply(board, id, o) /\ "reopened" \in marks'[id]
      BY <1>0, <1>1, <2>5 DEF BounceReset
    <3> HIDE DEF o
    <3> QED BY <1>2, <3>1, <3>2, ApplyDeps
  <2> QED BY <2>1, <2>2, <2>3, <2>4, <2>5
<1> QED BY <1>1, <1>3, <1>4, WaitsStep DEF teamVars

LEMMA NextWaits ==
    ASSUME Typed, Typed', Waits, [Next]_vars
    PROVE  Waits'
<1>1. ASSUME NEW t \in Teammate, Run(t) \/ Panic(t) \/ Cancel(t) PROVE Waits'
  BY <1>1, WriteWaits, OtherWaits, ListWaits, ClaimWaits DEF Run
<1>2. ASSUME NEW c \in Caller, Begin(c) \/ Proceed(c) PROVE Waits'
  <2>1. CASE \/ Deliver(c)
             \/ \E t \in Teammate : SendNote(c, t)
             \/ \E id \in TaskID : CompleteCheck(c, id)
             \/ \E id \in TaskID, t \in Teammate :
                   ClaimCheck(c, id, t) \/ Approve(c, t, id) \/ Bounce(c, t, id)
    <3>1. board' = board /\ marks' = marks /\ UNCHANGED teamVars
      BY <2>1, OtherCalls
    <3> QED BY <3>1, BoardStays, WaitsStep DEF NoneStarted, teamVars
  <2>2. CASE (\E d \in Drafts : CreateTask(c, d[1], d[2])) \/ LinkTask(c) \/ UndoCreate(c)
    BY <2>2, CreateWaits
  <2>3. CASE ClaimWrite(c) \/ CompleteWrite(c) \/ ApproveWrite(c) \/ BounceReset(c)
    BY <2>3, StatusWaits
  <2> QED BY <1>2, <2>1, <2>2, <2>3 DEF Begin, Proceed
<1>3. CASE UNCHANGED vars
  BY <1>3 DEF vars, Waits, ListedBlockers, StartedMet, Met
<1> QED BY <1>1, <1>2, <1>3 DEF Next

\* A task a teammate took from the board has every blocker completed and not parked: the
\* snapshot tryClaimPendingTask checks and claims by is outdated only by a dependency linked
\* after the listing, or by a review that reopens a blocker.
THEOREM BlockersAreMet == Spec => []DependentsWait
<1>1. Init => Waits
  BY DEF Init, Waits, ListedBlockers, StartedMet, EmptyBoard, NoTask
<1>2. Waits => DependentsWait
  BY DEF Waits, StartedMet, DependentsWait, Met
<1> QED BY <1>1, <1>2, InitTyped, NextTyped, NextWaits, PTL DEF Spec
=============================================================================
