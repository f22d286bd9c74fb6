--------------------------- MODULE CronScheduler ---------------------------
(***************************************************************************)
(* Scheduled prompts (internal/cron/scheduler.go): the jobs of a session,  *)
(* the timers that fire them, the patrol that finds missed fires, and the  *)
(* session store that every change is saved to.                            *)
(*                                                                         *)
(* A step is what a goroutine does between taking and releasing s.mu, or   *)
(* one call of s.enqueue.  Time is seen from the jobs: NextFire is zero,   *)
(* in the future, reached, or overdue by more than patrolGrace, and an     *)
(* id's lastEnqueue is either younger than the five seconds of the         *)
(* debounce or it does not matter.  Generations are only compared, so a    *)
(* callback carries whether its generation is still the current one.       *)
(***************************************************************************)
EXTENDS Naturals, FiniteSets

CONSTANTS
    Id,         \* bound: the ids of the jobs this process creates or loads
    Foreign,    \* bound: the ids that other processes add to a store already loaded
    Session,    \* bound: the session stores; each is switched to at most once
    Setting,    \* what Update changes: expression, prompt, queue-if-busy
    Caller,     \* the goroutines that call the scheduler
    MaxCalls,   \* bound: the calls that are made
    Slot,       \* bound: the timer callbacks under way
    None

ASSUME CronAssumption ==
    /\ Id \cap Foreign = {}
    /\ IsFiniteSet(Slot)
    /\ MaxCalls \in Nat
    /\ Setting # {}
    /\ None \notin Id \cup Foreign \cup Session \cup Setting

VARIABLES
    session,    \* Scheduler.storePath; None is the empty path
    jobs,       \* the keys of Scheduler.jobs
    job,        \* the Job object of an id; it outlives its place in the map
    known,      \* Scheduler.knownIDs
    timers,     \* Scheduler.timers: no entry, one that will run, one that has run
    recent,     \* the ids whose lastEnqueue is less than five seconds old
    fires,      \* the callbacks under way
    call,       \* what each caller is in the middle of
    switch,     \* how far SwitchSession is
    patrolling, \* patrolStop # nil
    store,      \* the files: the recurring jobs of each session
    visited,    \* the sessions that were switched to
    calls,      \* the number of calls made, for the bound
    enqueued,   \* history: how often s.enqueue was called for a one-shot, up to 2
    muddled     \* history: a call was undone beside another call, a switch or the save
                \* of a callback; a save failed after it had removed the file, or in a
                \* callback; or Load put a job in the map that was deleted after the
                \* file was read

vars == <<session, jobs, job, known, timers, recent, fires, call, switch, patrolling,
          store, visited, calls, enqueued, muddled>>

timeVars == <<timers, recent, fires, enqueued>>
fileVars == <<session, known, store, visited, muddled>>
callVars == <<call, calls>>

-----------------------------------------------------------------------------
(* Values *)

NextFire == {"zero", "future", "due", "overdue"}

Job == [recurring : BOOLEAN, paused : BOOLEAN, next : NextFire, spec : Setting]

Timer == {"none", "armed", "spent"}

NoFire == [id |-> None, live |-> FALSE, pc |-> "none"]

Fire == [id : Id, live : BOOLEAN, pc : {"start", "enqueue", "tail", "save"}]

NoCall == [op |-> "none", pc |-> "none", id |-> None, expr |-> FALSE, spec |-> None,
           next |-> "zero", timer |-> FALSE, alone |-> FALSE]

Call == [op : {"create", "delete", "update", "pause", "resume"},
         pc : {"schedule", "save", "rollback"}, id : Id, expr : BOOLEAN,
         spec : Setting \cup {None}, next : NextFire, timer : BOOLEAN, alone : BOOLEAN]

\* jobJSON
Entry == [paused : BOOLEAN, spec : Setting]

Files == UNION {[S -> Entry] : S \in SUBSET (Id \cup Foreign)}

NoSwitch == [pc |-> "none", id |-> None, todo |-> <<>>]

Quiet ==
    /\ \A c \in Caller : call[c] = NoCall
    /\ switch = NoSwitch
    /\ \A i \in Slot : fires[i].pc # "save"

\* the calls under way after something they do not know of: they are no longer alone
Disturbed ==
    [c \in Caller |-> IF call[c] = NoCall THEN NoCall ELSE [call[c] EXCEPT !.alone = FALSE]]

-----------------------------------------------------------------------------
(* Time: NextTime(expr, now) is always in the future; counted from a stored *)
(* NextFire it may be any later slot, and from the zero time it is long past *)

NextAfter(next) ==
    CASE next = "zero"    -> {"overdue"}
      [] next = "overdue" -> {"overdue", "due", "future"}
      [] OTHER            -> {"future"}

\* a time that was remembered while the clock went on
Later(next) ==
    CASE next = "future" -> {"future", "due", "overdue"}
      [] next = "due"    -> {"due", "overdue"}
      [] OTHER           -> {next}

\* somebody will look at the Job again: it is in the map or a caller has it
Held(id) == id \in jobs \/ \E c \in Caller : call[c].id = id

Arrive(id) ==
    /\ Held(id) /\ job[id].next = "future"
    /\ job' = [job EXCEPT ![id].next = "due"]
    /\ UNCHANGED <<jobs, timeVars, callVars, switch, patrolling, fileVars>>

Lapse(id) ==
    /\ Held(id) /\ job[id].next = "due"
    /\ job' = [job EXCEPT ![id].next = "overdue"]
    /\ UNCHANGED <<jobs, timeVars, callVars, switch, patrolling, fileVars>>

Cool(id) ==
    /\ id \in recent
    /\ recent' = recent \ {id}
    /\ UNCHANGED <<jobs, job, timers, fires, enqueued, callVars, switch, patrolling, fileVars>>

-----------------------------------------------------------------------------
(* Timers *)

\* Mutant: scheduling a job leaves its generation as it is.
NotBumped(fs, ids) == fs

\* the callbacks of fs after the generations of ids were incremented: one that has
\* still to compare its generation will only return
Bumped(fs, ids) ==
    [i \in Slot |-> IF fs[i].id \notin ids THEN fs[i]
                   ELSE IF fs[i].pc \in {"enqueue", "save"} THEN [fs[i] EXCEPT !.live = FALSE]
                   ELSE NoFire]

\* scheduleJobLocked for every id of ids, on top of the callbacks fs
Schedule(ids, fs) ==
    /\ timers' = [id \in Id |-> IF id \in ids THEN "armed" ELSE timers[id]]
    /\ fires' = Bumped(fs, ids)

\* timer.Stop and removal from the map: a callback that has started goes on
Stop(ids) ==
    /\ timers' = [id \in Id |-> IF id \in ids THEN "none" ELSE timers[id]]
    /\ fires' = fires

\* the runtime starts the callback of a timer whose time has come
Launch(id) ==
    /\ timers[id] = "armed"
    /\ job[id].next # "future"
    /\ \E i \in Slot :
        /\ fires[i] = NoFire
        /\ \A k \in Slot : k < i => fires[k] # NoFire
        /\ fires' = [fires EXCEPT ![i] = [id |-> id, live |-> TRUE, pc |-> "start"]]
    /\ timers' = [timers EXCEPT ![id] = "spent"]
    /\ UNCHANGED <<jobs, job, recent, enqueued, callVars, switch, patrolling, fileVars>>

Drop(i) == [fires EXCEPT ![i] = NoFire]

\* job.NextFire = NextTime(job.CronExpr, job.NextFire) and scheduleJobLocked; when
\* there is no slot within four years the job is removed and the store saved
Reschedule(i, id) ==
    \/ /\ \E n \in NextAfter(job[id].next) : job' = [job EXCEPT ![id].next = n]
       /\ Schedule({id}, Drop(i))
       /\ UNCHANGED jobs
    \/ /\ jobs' = jobs \ {id}
       /\ timers' = [timers EXCEPT ![id] = "none"]
       /\ fires' = [fires EXCEPT ![i].pc = "save"]
       /\ UNCHANGED job

\* fireJob up to s.enqueue: a stale or removed job is left alone, a duplicate
\* within five seconds only moves a recurring job on
FireStart(i) ==
    LET id == fires[i].id IN
    /\ fires[i].pc = "start"
    /\ \/ /\ id \notin jobs
          /\ fires' = Drop(i)
          /\ UNCHANGED <<jobs, job, timers, recent>>
       \/ /\ id \in jobs /\ id \in recent
          /\ IF job[id].recurring
             THEN Reschedule(i, id)
             ELSE fires' = Drop(i) /\ UNCHANGED <<jobs, job, timers>>
          /\ UNCHANGED recent
       \/ /\ id \in jobs /\ id \notin recent
          /\ recent' = recent \cup {id}
          /\ fires' = [fires EXCEPT ![i].pc = "enqueue"]
          /\ UNCHANGED <<jobs, job, timers>>
    /\ UNCHANGED <<enqueued, callVars, switch, patrolling, fileVars>>

Count(id) == [enqueued EXCEPT ![id] = IF job[id].recurring \/ @ = 2 THEN @ ELSE @ + 1]

\* s.enqueue, with no lock held; a panic in it is recovered and ends the callback,
\* as does a generation that is no longer the current one
FireEnqueue(i) ==
    /\ fires[i].pc = "enqueue"
    /\ enqueued' = Count(fires[i].id)
    /\ fires' \in {IF fires[i].live THEN [fires EXCEPT ![i].pc = "tail"] ELSE Drop(i), Drop(i)}
    /\ UNCHANGED <<jobs, job, timers, recent, callVars, switch, patrolling, fileVars>>

\* the rest of fireJob
FireTail(i) ==
    LET id == fires[i].id IN
    /\ fires[i].pc = "tail"
    /\ \/ /\ id \notin jobs
          /\ fires' = Drop(i)
          /\ UNCHANGED <<jobs, job, timers>>
       \/ /\ id \in jobs /\ job[id].recurring
          /\ Reschedule(i, id)
       \/ /\ id \in jobs /\ ~job[id].recurring
          /\ jobs' = jobs \ {id}
          /\ timers' = [timers EXCEPT ![id] = "none"]
          /\ fires' = Drop(i)
          /\ UNCHANGED job
    /\ UNCHANGED <<recent, enqueued, callVars, switch, patrolling, fileVars>>

\* Mutant: only recurring jobs are looked after.
patrolRecurring ==
    LET missed == {id \in jobs : ~job[id].paused /\ job[id].next = "overdue" /\ job[id].recurring} IN
    /\ patrolling /\ missed # {}
    /\ job' = [id \in Id |-> IF id \in missed THEN [job[id] EXCEPT !.next = "future"] ELSE job[id]]
    /\ Schedule(missed, fires)
    /\ UNCHANGED <<jobs, recent, enqueued, callVars, switch, patrolling, fileVars>>

\* patrolCheck: an overdue recurring job skips to its next slot, an overdue
\* one-shot fires now
patrolCheck ==
    LET missed == {id \in jobs : ~job[id].paused /\ job[id].next = "overdue"} IN
    /\ patrolling /\ missed # {}
    /\ job' = [id \in Id |->
                IF id \in missed
                THEN [job[id] EXCEPT !.next = IF job[id].recurring THEN "future" ELSE "due"]
                ELSE job[id]]
    /\ Schedule(missed, fires)
    /\ UNCHANGED <<jobs, recent, enqueued, callVars, switch, patrolling, fileVars>>

-----------------------------------------------------------------------------
(* The store *)

Written(ids) == [id \in ids |-> [paused |-> job[id].paused, spec |-> job[id].spec]]

\* Mutant: whatever the file has and memory has not is kept.
MergedAll(file) ==
    LET mine == {id \in jobs : job[id].recurring} IN
    [id \in mine \cup DOMAIN file |-> IF id \in mine THEN Written(mine)[id] ELSE file[id]]

\* Mutant: the file is written from memory alone.
MergedMine(file) == Written({id \in jobs : job[id].recurring})

\* what save writes: the recurring jobs in memory, and of the file's jobs those
\* that this process has never known
Merged(file) ==
    LET mine    == {id \in jobs : job[id].recurring}
        theirs  == {id \in DOMAIN file : id \notin mine /\ id \notin known}
    IN  [id \in mine \cup theirs |-> IF id \in mine THEN Written(mine)[id] ELSE file[id]]

\* the save of a callback that removed its job; it only logs an error.  It writes
\* what the calls under way have changed, before they know whether that is saved
FireSave(i) ==
    /\ fires[i].pc = "save"
    /\ fires' = Drop(i)
    /\ call' = Disturbed
    /\ \/ /\ store' = IF session = None THEN store ELSE [store EXCEPT ![session] = Merged(store[session])]
          /\ muddled' = muddled
       \/ session # None /\ store' = store /\ muddled' = TRUE
    /\ UNCHANGED <<jobs, job, timers, recent, enqueued, calls, switch, patrolling, session, known, visited>>

\* another process saves a job of its own to the session this one has loaded;
\* save only ever copies it, so any entry will do
OtherProcess(id) ==
    /\ session # None /\ switch = NoSwitch
    /\ id \notin DOMAIN store[session]
    /\ LET file == store[session]
           e == CHOOSE e \in Entry : TRUE
       IN  store' = [store EXCEPT ![session] = [k \in DOMAIN file \cup {id} |-> IF k = id THEN e ELSE file[k]]]
    /\ UNCHANGED <<session, known, visited, muddled, jobs, job, timeVars, callVars, switch, patrolling>>

-----------------------------------------------------------------------------
(* The callers: each call changes the job, saves, and undoes its change when *)
(* the save fails                                                            *)

\* a call begins: those under way are no longer alone
Begin(c, k) ==
    /\ patrolling /\ call[c] = NoCall /\ calls < MaxCalls
    /\ calls' = calls + 1
    /\ call' = [Disturbed EXCEPT ![c] = [k EXCEPT !.alone = Quiet]]

\* s.knownIDs[id] = true
Know(id) == known' = known \cup {id}

\* Create, up to scheduleJob; id is fresh
Create(c, id, recurring) ==
    /\ id \notin known /\ \A t \in Session : id \notin DOMAIN store[t]
    /\ \E s \in Setting : job' = [job EXCEPT ![id] = [recurring |-> recurring, paused |-> FALSE, next |-> "future", spec |-> s]]
    /\ jobs' = jobs \cup {id}
    /\ Know(id)
    /\ Begin(c, [NoCall EXCEPT !.op = "create", !.pc = "schedule", !.id = id])
    /\ UNCHANGED <<timeVars, switch, patrolling, session, store, visited, muddled>>

CreateSchedule(c) ==
    /\ call[c].pc = "schedule"
    /\ Schedule({call[c].id}, fires)
    /\ call' = [call EXCEPT ![c].pc = "save"] /\ UNCHANGED calls
    /\ UNCHANGED <<jobs, job, recent, enqueued, switch, patrolling, fileVars>>

\* DeleteWithError
Delete(c, id) ==
    /\ id \in jobs
    /\ Begin(c, [NoCall EXCEPT !.op = "delete", !.pc = "save", !.id = id, !.timer = timers[id] # "none"])
    /\ jobs' = jobs \ {id}
    /\ Stop({id})
    /\ UNCHANGED <<job, recent, enqueued, switch, patrolling, fileVars>>

Update(c, id, expr, s) ==
    /\ id \in jobs
    /\ Begin(c, [NoCall EXCEPT !.op = "update", !.pc = "save", !.id = id, !.expr = expr, !.spec = job[id].spec])
    /\ job' = [job EXCEPT ![id].spec = s,
                          ![id].next = IF expr /\ ~job[id].paused THEN "future" ELSE job[id].next]
    /\ IF job[id].paused THEN Stop({id}) ELSE Schedule({id}, fires)
    /\ UNCHANGED <<jobs, recent, enqueued, switch, patrolling, fileVars>>

Pause(c, id) ==
    /\ id \in jobs /\ ~job[id].paused
    /\ Begin(c, [NoCall EXCEPT !.op = "pause", !.pc = "save", !.id = id, !.next = job[id].next])
    /\ job' = [job EXCEPT ![id].paused = TRUE, ![id].next = "zero"]
    /\ Stop({id})
    /\ UNCHANGED <<jobs, recent, enqueued, switch, patrolling, fileVars>>

Resume(c, id) ==
    /\ id \in jobs /\ job[id].paused
    /\ Begin(c, [NoCall EXCEPT !.op = "resume", !.pc = "save", !.id = id])
    /\ job' = [job EXCEPT ![id].paused = FALSE, ![id].next = "future"]
    /\ Schedule({id}, fires)
    /\ UNCHANGED <<jobs, recent, enqueued, switch, patrolling, fileVars>>

\* save succeeds; without a store it has nothing to do
SaveOk(c) ==
    /\ call[c].pc = "save"
    /\ store' = IF session = None THEN store ELSE [store EXCEPT ![session] = Merged(store[session])]
    /\ call' = [call EXCEPT ![c] = NoCall] /\ UNCHANGED calls
    /\ UNCHANGED <<jobs, job, timeVars, switch, patrolling, session, known, visited, muddled>>

\* save fails, before the file is touched or, when the file is to go, after that
SaveFail(c) ==
    /\ call[c].pc = "save" /\ session # None
    /\ \/ store' = store /\ muddled' = muddled
       \/ /\ DOMAIN Merged(store[session]) = {}
          /\ store' = [store EXCEPT ![session] = <<>>]
          /\ muddled' = TRUE
    /\ call' = [call EXCEPT ![c].pc = "rollback"] /\ UNCHANGED calls
    /\ UNCHANGED <<jobs, job, timeVars, switch, patrolling, session, known, visited>>

RollbackCreate(id) ==
    /\ jobs' = jobs \ {id}
    /\ Stop({id})
    /\ UNCHANGED job

RollbackDelete(id, hadTimer) ==
    /\ jobs' = jobs \cup {id}
    /\ IF hadTimer THEN Schedule({id}, fires) ELSE UNCHANGED <<timers, fires>>
    /\ UNCHANGED job

\* Mutant: the timer is not rebuilt.
RollbackUpdateBare(id, expr, spec) ==
    LET next == IF expr /\ ~job[id].paused THEN "future" ELSE job[id].next IN
    /\ job' = [job EXCEPT ![id].spec = spec, ![id].next = next]
    /\ Stop({id})
    /\ UNCHANGED jobs

\* the timer is rebuilt only for a time in the future
RollbackUpdate(id, expr, spec) ==
    LET next == CASE ~expr           -> job[id].next
                  [] job[id].paused  -> "zero"
                  [] OTHER           -> "future"
    IN  /\ job' = [job EXCEPT ![id].spec = spec, ![id].next = next]
        /\ IF ~job[id].paused /\ next = "future" THEN Schedule({id}, fires) ELSE Stop({id})
        /\ UNCHANGED jobs

RollbackPause(id, next) ==
    /\ \E n \in Later(next) : job' = [job EXCEPT ![id].paused = FALSE, ![id].next = n]
    /\ Schedule({id}, fires)
    /\ UNCHANGED jobs

RollbackResume(id) ==
    /\ job' = [job EXCEPT ![id].paused = TRUE, ![id].next = "zero"]
    /\ Stop({id})
    /\ UNCHANGED jobs

Rollback(c) ==
    LET k == call[c] IN
    /\ k.pc = "rollback"
    /\ \/ k.op = "create" /\ RollbackCreate(k.id)
       \/ k.op = "delete" /\ RollbackDelete(k.id, k.timer)
       \/ k.op = "update" /\ RollbackUpdate(k.id, k.expr, k.spec)
       \/ k.op = "pause"  /\ RollbackPause(k.id, k.next)
       \/ k.op = "resume" /\ RollbackResume(k.id)
    /\ call' = [call EXCEPT ![c] = NoCall] /\ UNCHANGED calls
    /\ muddled' = (muddled \/ ~k.alone)
    /\ UNCHANGED <<recent, enqueued, switch, patrolling, session, known, store, visited>>

-----------------------------------------------------------------------------
(* Sessions *)

\* SwitchSession drops every job, with its timers and generations ...
SwitchSession(s) ==
    /\ patrolling /\ switch = NoSwitch /\ s \notin visited
    /\ visited' = visited \cup {s}
    /\ session' = s
    /\ jobs' = {}
    /\ timers' = [id \in Id |-> "none"]
    /\ fires' = Bumped(fires, Id)
    /\ switch' = [NoSwitch EXCEPT !.pc = "read"]
    /\ call' = Disturbed
    /\ UNCHANGED <<calls, job, recent, enqueued, patrolling, known, store, muddled>>

\* ... Load reads the file; one that cannot be read counts as empty
LoadRead ==
    /\ switch.pc = "read"
    /\ \E file \in {store[session], <<>>} : switch' = [NoSwitch EXCEPT !.pc = "load", !.todo = file]
    /\ UNCHANGED <<jobs, job, timeVars, callVars, patrolling, fileVars>>

\* ... puts one job after the other in the map
LoadJob(id) ==
    LET e    == switch.todo[id]
        rest == [k \in DOMAIN switch.todo \ {id} |-> switch.todo[k]]
    IN
    /\ switch.pc = "load" /\ id \in DOMAIN switch.todo
    /\ IF id \in jobs
       THEN /\ switch' = [switch EXCEPT !.todo = rest]
            /\ UNCHANGED <<jobs, job, known, muddled>>
       ELSE /\ jobs' = jobs \cup {id}
            /\ Know(id)
            /\ muddled' = (muddled \/ id \in known)
            /\ job' = [job EXCEPT ![id] = [recurring |-> TRUE, paused |-> e.paused, spec |-> e.spec,
                                           next |-> IF e.paused THEN "zero" ELSE "future"]]
            /\ switch' = IF e.paused THEN [switch EXCEPT !.todo = rest]
                         ELSE [pc |-> "schedule", id |-> id, todo |-> rest]
    /\ UNCHANGED <<timeVars, callVars, patrolling, session, store, visited>>

\* ... and schedules it after the lock was released
LoadSchedule ==
    /\ switch.pc = "schedule"
    /\ Schedule({switch.id}, fires)
    /\ switch' = [switch EXCEPT !.pc = "load", !.id = None]
    /\ UNCHANGED <<jobs, job, recent, enqueued, callVars, patrolling, fileVars>>

\* ... and the debounce of the old session is forgotten
SwitchEnd ==
    /\ switch.pc = "load" /\ DOMAIN switch.todo = {}
    /\ recent' = {}
    /\ switch' = NoSwitch
    /\ UNCHANGED <<jobs, job, timers, fires, enqueued, callVars, patrolling, fileVars>>

Shutdown ==
    /\ patrolling
    /\ patrolling' = FALSE
    /\ jobs' = {} /\ recent' = {}
    /\ Stop(Id)
    /\ UNCHANGED <<job, enqueued, callVars, switch, fileVars>>

-----------------------------------------------------------------------------

Init ==
    /\ session = None
    /\ jobs = {} /\ known = {} /\ recent = {}
    /\ job = [id \in Id |-> None]
    /\ timers = [id \in Id |-> "none"]
    /\ fires = [i \in Slot |-> NoFire]
    /\ call = [c \in Caller |-> NoCall]
    /\ switch = NoSwitch
    /\ patrolling = TRUE
    /\ store \in [Session -> UNION {[S -> Entry] : S \in SUBSET Id}]
    /\ \A s, t \in Session : s # t => DOMAIN store[s] \cap DOMAIN store[t] = {}
    /\ visited = {}
    /\ calls = 0
    /\ enqueued = [id \in Id |-> 0]
    /\ muddled = FALSE

Clock == \E id \in Id : Arrive(id) \/ Lapse(id) \/ Cool(id)

Callback == \E i \in Slot : FireStart(i) \/ FireEnqueue(i) \/ FireTail(i) \/ FireSave(i)

CallStep(c) == CreateSchedule(c) \/ SaveOk(c) \/ SaveFail(c) \/ Rollback(c)

CallBegin(c) ==
    \/ \E id \in Id, recurring \in BOOLEAN : Create(c, id, recurring)
    \/ \E id \in Id : Delete(c, id) \/ Pause(c, id) \/ Resume(c, id)
    \/ \E id \in Id, expr \in BOOLEAN, s \in Setting : Update(c, id, expr, s)

Load == LoadRead \/ LoadSchedule \/ SwitchEnd \/ \E id \in Id : LoadJob(id)

Next ==
    \/ Clock \/ Callback \/ patrolCheck \/ Load \/ Shutdown
    \/ \E id \in Id : Launch(id)
    \/ \E c \in Caller : CallBegin(c) \/ CallStep(c)
    \/ \E s \in Session : SwitchSession(s)
    \/ \E id \in Foreign : OtherProcess(id)

Spec == Init /\ [][Next]_vars

\* time goes on, the runtime runs timers and goroutines, the ticker of the patrol
\* ticks, and s.enqueue returns
FairSpec ==
    /\ Spec
    /\ \A id \in Id : WF_vars(Arrive(id)) /\ WF_vars(Lapse(id)) /\ WF_vars(Cool(id)) /\ WF_vars(Launch(id))
    /\ \A i \in Slot : SF_vars(FireStart(i)) /\ WF_vars(FireEnqueue(i) \/ FireTail(i) \/ FireSave(i))
    /\ \A c \in Caller : WF_vars(CallStep(c))
    /\ WF_vars(patrolCheck)
    /\ WF_vars(Load)

-----------------------------------------------------------------------------
(* Properties *)

\* Every variable has its type, and a job in the map was seen by this process.
TypeOK ==
    /\ session \in {None} \cup Session
    /\ jobs \subseteq Id /\ known \subseteq Id /\ recent \subseteq Id
    /\ job \in [Id -> Job \cup {None}]
    /\ timers \in [Id -> Timer]
    /\ fires \in [Slot -> Fire \cup {NoFire}]
    /\ call \in [Caller -> Call \cup {NoCall}]
    /\ switch.pc \in {"none", "read", "load", "schedule"} /\ switch.todo \in Files
    /\ patrolling \in BOOLEAN
    /\ store \in [Session -> Files]
    /\ visited \subseteq Session
    /\ calls \in 0 .. MaxCalls
    /\ enqueued \in [Id -> 0 .. 2]
    /\ muddled \in BOOLEAN
    /\ \A id \in jobs : id \in known /\ job[id] \in Job

\* The state has its type; and for every job at most one of its timer and its
\* callbacks is of the current generation, whatever fires, patrols, updates and
\* rollbacks overlap: a job never gets two chains of fires that each reschedule it.
OneChain ==
    TypeOK /\ \A id \in Id :
        LET live == {i \in Slot : fires[i].id = id /\ fires[i].live} IN
        /\ Cardinality(live) <= 1
        /\ timers[id] = "armed" => live = {}

\* An active job whose time lies in the future has a timer for it: without one
\* the slot would pass silently, for the patrol skips what was missed.
FutureIsArmed ==
    patrolling /\ ~muddled => \A id \in jobs :
        \/ job[id].paused \/ job[id].next # "future"
        \/ timers[id] = "armed"
        \/ \E c \in Caller : call[c].id = id /\ call[c].pc = "schedule"
        \/ switch.id = id

\* When no call is under way, the file of the session holds exactly the
\* recurring jobs in memory, as they are, and nothing else this process knew:
\* what is deleted does not come back and what is reported saved is saved, as
\* long as no save failed beside another call or a callback's save.
StoreMatches ==
    session # None /\ Quiet /\ ~muddled /\ patrolling =>
        LET file == store[session]
            mine == {id \in jobs : job[id].recurring}
        IN  /\ DOMAIN file \cap known = mine
            /\ \A id \in mine : file[id] = Written(mine)[id]

\* A job that another process put in a store is never removed by this one
\* before it has loaded it.
ForeignJobsSurvive ==
    [][\A s \in Session : \A id \in DOMAIN store[s] :
            id \notin known => id \in DOMAIN store'[s] /\ store'[s][id] = store[s][id]]_vars

Active(id) == id \in jobs /\ ~job[id].paused /\ patrolling

\* An active job is never left without a timer for good: whatever rollback,
\* panic, debounce or late callback left it without one, the patrol gives it a
\* new one, unless it is paused or removed.
AlwaysRearmed == \A id \in Id : Active(id) ~> (timers[id] = "armed" \/ ~Active(id))

\* A one-shot job is handed to s.enqueue at least once, unless it is paused or removed.
OneShotFires ==
    \A id \in Id :
        (Active(id) /\ ~job[id].recurring) ~> (enqueued[id] > 0 \/ ~Active(id))

\* The scheduler forgets no active job: it gets a timer again, and a one-shot is
\* fired, whatever panics, late callbacks and rollbacks come between.
NoJobIsForgotten == AlwaysRearmed /\ OneShotFires

-----------------------------------------------------------------------------
(* What the repository says, and the code does not do *)

\* "paused job must have no timer": when all is quiet, a paused job has none.
PausedHasNoTimer == Quiet => \A id \in jobs : job[id].paused => timers[id] # "armed"

\* "one-shot should fire exactly once".
OneShotFiresOnce == \A id \in Id : job[id] # None /\ ~job[id].recurring => enqueued[id] <= 1
=============================================================================
