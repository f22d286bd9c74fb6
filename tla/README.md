# ggcode: a TLA+ verification project

ggcode is a coding agent: a loop that asks a language model what to do and runs
the tools it asks for, with a terminal and a desktop interface, sessions that
can be resumed, scheduled prompts, and *swarms*: teams of agents ("teammates")
that share a task board and work on it concurrently.

Most of the repository is I/O, prompts and rendering. What can go wrong in ways a
test hardly reaches is where goroutines share state: the swarm first, then the
cron scheduler, the checkpoints, the sub-agents, the A2A tasks and the relay.
Those are what this project models.

## 1. Inventory

State, operations and hard behaviours of the parts that carry the program's own
logic. `PROJECT.json` lists every component, also the ones not modelled.

| part | state | operations | what is hard, and what makes it correct |
|---|---|---|---|
| task board (`internal/task`) | tasks with status, owner, metadata and two mirrored dependency lists; an id counter | Create, Update (with an expected status, two rounds of cycle checks), Delete, SnapshotJSON, RestoreJSON | batches of edges that close a cycle together; an error after half of the writes; ids after a restore. Correct: edges mirrored and acyclic, ids fresh, a failed update writes nothing |
| teammate runner (`internal/swarm/idle_runner.go`) | the teammate's status, current task, inbox, context | poll, hint, list, check blockers, claim, run, write back, retry or park, handle a mail, roll back on a panic, leave on cancellation | every call on the board is atomic and nothing between two calls is; cancellation and panics at any point. Correct: no claim leaks, one runner per task, dependents wait, retries end, tasks that may start are taken |
| swarm and review tools (`internal/tool`) | none of their own | swarm_task_create / claim / complete, team_review_decide, send_message | they read the board, decide, and write in a later call, beside the runners |
| teammate circuit breaker (`teammate_breaker.go`) | closed / open / half-open, failures, the time it opened | gate, probe, record | gate and probe are two calls around a claim; results arrive late; the breakers are a package variable that two managers can share |
| swarm manager (`swarm/manager.go`) | teams, their teammates, results and the order they are evicted in | CreateTeam, SpawnTeammate, ShutdownTeammate, DeleteTeam, CancelAll, Shutdown, emit | calls take and release two levels of locks in turn; DeleteTeam gives up waiting after five seconds. Correct: nothing runs that nobody can stop, limits hold, nothing stale stays |
| board persistence (`swarm/board_persist.go`) | board.json, board.json.tmp, a lock file | asynchronous save, ClaimTaskSingleWinner, load with rollback, quarantine | crashes between two steps of a save; saves and claims that write the same temporary file; several processes |
| cron scheduler (`internal/cron`) | jobs, timers with generations, the ids it knows, the store file of a session | Create, Update, Pause, Resume, Delete, fire, patrol, SwitchSession, Shutdown | callbacks leave the lock to enqueue; a failed save rolls its call back beside others; several processes share a file. Correct: one chain of fires per job, no active job left without a timer, the file says what memory says, one-shots fire |
| checkpoints (`internal/checkpoint`) | undo and redo stacks, corrections, a journal | Save, Undo, Redo, Revert, UndoRun, Clear, replay | evictions in the middle of a run, an UndoRun that fails half-way, a crash between a file and its journal line. Correct: the history leads from the files as they are back to what they were, and replay gives that history |
| sub-agent manager (`internal/subagent`) | agents, a semaphore and who owns its slots | Spawn, Run, Complete, Cancel, CancelAll, the watchdog, Shutdown | slots reclaimed by force from a goroutine that releases them later; results after cancellation; purges. Correct: slots are returned once, a final status is final, a completion is announced once |
| A2A handler (`internal/a2a`) | tasks, their states and done channels, cancel functions by generation, an index of messages | Handle, continueTask, RequestInput, execute, CancelTask, expiry | executions that outlive their turn; a done channel that is replaced; repeated messages. Correct: final states are final, nobody waits for ever, a task stays cancelable |
| relay (`ggcode-relay`) | rooms with a host, clients, a history; SQLite tables | handshake, events, sessions, resume and replay, acknowledgement, detach, expiry, removal, stop | reconnections before the old connection is noticed; asynchronous writes; restarts; cursors. Correct: a host has its room, a ready client has every event, sessions do not mix |
| session store and lock, tunnel broker, LAN chat | files; the host's log and queues; peers | | ownership of a session, recovery of the relay's copy, delivery |

How the swarm's parts interact:

    tools ──calls──▶ task board ◀──calls── teammate runner ──asks──▶ breaker
      │                  │ ▲                    ▲      │
      └──mail──▶ inbox ──┼─┼────────────────────┘      └──emit──▶ manager
                         ▼ │ snapshot / restore                   (teams, results)
                    board persistence ◀── EmitBoardUpdated, claims

## 2. Modules

| module | models | lines of code it stands for |
|---|---|---|
| `TaskBoardOps` | a board as a value: what Update refuses, what it writes, Delete; the facts `Mirrored`, `AcyclicBoard`, `Numbered`, `Sound` | `task/manager.go` |
| `TaskBoard` | `task.Manager`: one action per method | `task/manager.go`, `task/persistence.go` |
| `SwarmRunner` | the teammates' goroutines and the tools on one shared board | `swarm/idle_runner.go`, `starvation.go`, parts of `manager.go`, `tool/swarm_task_tools.go`, `team_review.go`, `send_message.go` |
| `TeammateBreaker` | one breaker and the loops that use it | `swarm/teammate_breaker.go` |
| `SwarmTeam` | the manager's calls and the life of the loops | `swarm/manager.go`, parts of `idle_runner.go` |
| `BoardPersist` | the board's file, its saves and claims, crashes, several seats | `swarm/board_persist.go` |
| `CronScheduler` | a scheduler, its callers, callbacks and patrol, the store and another process | `cron/scheduler.go` |
| `EditTimeline` | what an edit history promises: edits on a timeline and a place on it | abstract |
| `CheckpointJournal` | the checkpoint manager and its journal; implements `EditTimeline` | `checkpoint/checkpoint.go`, `journal.go` |
| `SubAgents` | the manager, the goroutines of Run, the watchdog, CancelAll | `subagent/manager.go`, `runner.go` |
| `A2ATask` | the task handler and its executions | `a2a/handler.go`, `types.go` |
| `RelayRoom` | one room of the relay and its rows in the store | `ggcode-relay/relay.go`, `store.go` |
| `MC...` | constants and symmetries for TLC | |
| `...Proofs` | theorems (section 5) | |

`SwarmRunner` extends `TaskBoardOps`, so the runners and the tools work on the
very operations `TaskBoard` is about: a call on the board is one step, and the
lemmas about the operations are proved once, in `TaskBoardOpsProofs`.

### Correspondence

*TaskBoard.* `tasks[id]` is an entry of `Manager.tasks`, `"absent"` when there is
none; `saved` is what the last SnapshotJSON produced; `result` what the last call
returned. `Refused` is the first round of checks of Update, with the edges of the
call added *virtually* (`wouldCreateCycleVirtual`). `HalfUpdated` is the second
round, made while the edges are being linked: were it ever to find a cycle, the
action `Update` would leave the board half written and return an error. It never
does, which is `RejectedUpdateIsNoOp`. The breadth-first search is written as what
it decides: whether some closed set of tasks separates start from target.
Metadata is cut to the two keys the program decides by, `retry_attempts` and
`permanent_error`.

*SwarmRunner.* `pc[t]` is the place of a teammate's goroutine:

| `pc` | code (`idle_runner.go`) |
|---|---|
| `idle` | the select of runTeammateLoop |
| `check`, `claim` | the loop over the listed tasks in tryClaimPendingTask: blockers, then Update with ExpectedStatus pending |
| `run` | executeTask |
| `write` | the write-back: completed, parked, or requeued |
| `notify` | the events after it; CurrentTaskID is still set |
| `mail` | handleMessage |
| `unwind` | the deferred recover and rollbackClaimedTask |
| `stopped` | the goroutine has returned |

`todo[t]` is the listing the teammate took, with the blockers as they were then:
the code checks those, and the staleness is in the model. `call[c]` is the
tool call a caller is in the middle of; each tool is split at its calls on the
board (`CreateTask`, `LinkTask`, `UndoCreate`, `Deliver`; `ClaimCheck`,
`ClaimWrite`; `Bounce`, `BounceReset`; ...). The single-winner claim is one step
here and is taken apart in `BoardPersist`. `marks` is history for the properties
and no action reads it.

*TeammateBreaker.* `age` is `time.Since(openedAt)` in ticks, up to twice the
cooldown, beyond which nothing depends on it. A loop joins, asks the gate, lists,
claims, consumes the probe and records; `Vanish` is a panic or a cancellation
without a record. `streak` is history.

*SwarmTeam.* Each method is split where it releases a lock: an id is given out
before the team or the teammate is entered, DeleteTeam sweeps, waits and sweeps
again, CancelAll goes over a list of teams it took earlier, and emit asks
`teammateGoverned` before it stores. A wait with a timeout may end at any time.
Ids are never reused, so `Team` and `Mate` bound how many there ever are. `raced`
is history: who was caught between a check and what follows it.

*BoardPersist.* A *seat* is a process with a team of the same id. `dir` says
which file each of the two names stands for, `content` what is in a file; a
writer that opened a file keeps it open after a rename, as POSIX says, and a file
written by two at once may end up torn. `Load` rolls claims back in memory,
`Quarantine` renames a torn file away (or whatever has its name by then).
`ChangeQuietly` stands for the runners and the reviews, which change the board
without a save.

*CronScheduler.* A step is what a goroutine does between taking and releasing
`s.mu`. Of a time the model keeps whether it is zero, in the future, due or
overdue; of an id's last enqueue, whether the debounce still turns it away. A
timer's generation only ever matters by being the current one or not: `fires`
holds the callbacks under way with a flag for that. A callback is split around
`s.enqueue` (which may panic), the rescheduling and the save; each call around
its change, its save and, if that fails, its rollback. `SwitchSession` includes
the construction of a session's scheduler and its `Load`, read and schedule in
separate steps. `store` is the file with its merge of foreign jobs, which
another process adds and deletes. NextTime may find no next time (a leap day):
such a job is removed. `muddled` and `enqueued` are history.

*CheckpointJournal.* Every operation holds the manager's lock, so it is one
action; a crash (`Die`) is after the change of a file and before the journal line.
`live` is the manager, `durable` the one that replaying the readable lines of
the journal gives; a line over the loader's 16 MB hides what follows it. `Replay`
is applyJournalEventLocked with its cases. Edits are made inside a run, as the
agent makes them; RevertRecentRuns is a loop of UndoRun. `skewed` and `broken` are
history: files that a crash or a failed revert left out of step, and files
whose pending redo no longer follows on after a partially failed UndoRun.
`EditTimeline` knows no runs, no files and no journal: a line of edits of which
the first are in effect. The mapping reads the undo stack and the reversed
redo stack of `durable` as that sequence, so the refinement also says that a restart
takes the history up where the file left it.

*SubAgents.* `pc[a]` is the place of an agent's goroutine in Run: waiting for a
slot, started, running, stuck in a call that ignores its context, completing,
releasing. `sem` and `owners` are the semaphore and `semOwners`; a reclaim is a
goroutine of its own. A round of the watchdog snapshots what it takes for stale or
never started and acts on it later. The object of an agent outlives its place in
the map, and a purge takes the oldest terminal ones in any order.

*A2ATask.* An execution is named by its generation (`cancelGen`); `exec[g]` says
where it is between the critical sections of `execute` and whether its context
is cancelled or past its deadline. A task's `done` channel is the one its waiters
have, replaced by a continuation. `Handle` includes the sweep of old tasks and
the index of message ids.

*RelayRoom.* One share: its room (`room`), its rows (`store`), the host's latest
connection and one the relay may still be reading from, the client's connections in
turn. A handler holds the room's `sendMu` and is one action; the handshake is
split where it unlocks (`Hello`, `TakeOver`, `Register`), and so is the detach
of a host (`Detach`, `Retain`). The goroutines that write to SQLite are
in `writes` and take effect, in any order or not at all, when the store is next
read. `HostOrder` and the first conjunct of `OnServerReady` are what the host's
relayRecoveryPlan gives: it sends its log in order and has a history replaced that
is not a prefix of it. `gapped`, `unstored` and `emptied` are history.

## 3. Runs

| run | config | states | shows |
|---|---|---|---|
| `task_board` | 3 ids, every batch of at most 2 edges, every expected status | 27 thousand | `IInv` (types, mirrored and acyclic edges, fresh ids, in memory and saved), `BoardNotStuck`, `RejectedUpdateIsNoOp` |
| `swarm_dependencies` | 2 teammates, 2 tasks of which the second may wait for the first, 1 fault, fairness | 181 thousand | `Typed` (types, bookkeeping, sound board), `DependentsWait`, `ReadyTaskIsTaken` |
| `swarm_review` | 2 teammates, 1 task, 3 calls of claim, complete, review or message, 1 fault, 2 retries | 745 thousand | `NoLeakedClaim`, `OneRunnerPerTask`, `RetriesBounded`, `CompletedStays` |
| `breaker` | threshold 3, cooldown 2 ticks, a loop and one of a replaced manager, fairness | 785 | `OpenExactlyAfterStreak`, `ProbeDiscipline` (`ClaimsPassTheGate`, `HalfOpenHasProbe`), `GateReopens` |
| `team` | 1 team, 2 teammates, 2 callers, 1 place per team, 1 stored result, fairness | 451 thousand | `NoOrphan`, `TeamConsistent` (`TeamsBounded`, `ResultsEvictable`, `DeletedTeamHasNoResults`, `StoppedShowsShuttingDown`), `UngovernedStops` |
| `persist` | 1 seat, 2 tasks, 2 owners, 3 calls, 2 claims, 1 change without a save, 1 crash | 2.3 million | `FileIsWhole`, `RestingFileIsCurrent`, `OneWinnerUntilRestart` |
| `cron` | 1 job id, 1 of another process, 1 session, 2 settings, 2 callers, 2 calls, 2 callbacks at a time | 2 million | `OneChain`, `FutureIsArmed`, `StoreMatches`, `ForeignJobsSurvive` |
| `cron_patrol` | 1 job id, 1 caller, 2 calls, fairness | 170 thousand | `NoJobIsForgotten` (`AlwaysRearmed`, `OneShotFires`) |
| `checkpoint` | 2 files, 3 checkpoints of which 2 fit, 2 runs, 1 correction, 2 faults | 879 thousand | `HistoryMatchesDisk`, `ReplayIsLive`, `UndoRunRestores`, `JournalIsTimeline` (the refinement) |
| `sub_agents` | 2 agents, 1 slot, 1 terminal agent kept, all calls | 298 thousand | `SlotsAccounted`, `PendingIsOpen`, `DeliveredOnce`, `TerminalStays` |
| `a2a` | 2 tasks, 2 messages, 1 working task, 2 executions, fairness | 133 thousand | `WaitersWoken`, `CancelReaches`, `MessageOnce`, `TerminalFinal`, `TaskEnds` |
| `relay` | 2 sessions of 2 events, 2 disturbances, 3 client connections | 857 thousand | `HostHasRoom`, `ReadyMissesNothing`, `StoreFollows` (`OneSession`, `StoreCatchesUp`) |

Names in parentheses are the parts of a property. The type invariant of a module
is a part of one of its properties: `IInv`, `Typed`, `TeamConsistent`,
`FileIsWhole`, `OneChain`, `ReplayIsLive`, `SlotsAccounted`, `CancelReaches`,
`StoreFollows`; the breaker's is proved with its invariant.

Deadlock is not checked where the system may come to rest: a team with no tasks
left, all teammates stopped, all tasks ended, or all bounded calls made.

### Why the bounds are enough for what they are for

- *Three ids* give the shortest cycle no single edge shows (two edges of one
  call and one of an earlier call), and a deletion in the middle of a chain.
- *Two teammates* race for a claim, one holds a stale listing while the other
  finishes and requeues, one panics while the other has claimed. One fault is a
  cancellation or a panic at any point. Two tasks give one dependency; a task
  that names itself is refused and its creation undone. `swarm_dependencies`
  allows one attempt, so that a failure parks a blocker at once;
  `swarm_review` allows two, so that a task is retried and then parked.
- *An inbox of one* is full after one message, so the branch for a full inbox
  is taken.
- *One place per team and one stored result* put both limits within reach.
- *Two callers* are enough for every pair of the manager's calls to overlap.
- *A threshold of three* tells "counted to the end" from "opened by one", and
  *two ticks* of cooldown give a gate that is shut, and one that has just opened.
- *Two callbacks at a time* let an old one return from the host after a newer
  one was started; *two callers* put every rollback beside every other call, and
  *two settings* tell the one that is rolled back from the one that stays.
- *Three checkpoints of which two fit* evict one in the middle of a run of two
  files; *two runs* let one be undone above another; *two faults* are a crash after
  a failed step, or a lost line before a crash.
- *Two agents on one slot*: one waits, or takes the slot of one that is stuck.
- *Two executions* are a task's own and its continuation's, or those of two tasks.
- *Two disturbances* (a lost connection of host or client, a failed write, an
  expiry, a restart, a change of session) are what it takes to lose both
  connections, to change the session while a client is away, or to expire a room
  under a host that comes back; *two events* tell a replay that starts too late.
- The theorems of section 5 hold for any number of everything. `cron` has one job;
  what two jobs add (a callback of one saves what a call on the other has not
  committed yet) is in the theorems about `CronScheduler`.

### Fairness

Go's scheduler runs every goroutine that can run, so the steps of a loop are
weakly fair: the poll ticker keeps firing, executeTask has a timeout, the waits
of DeleteTeam and CancelAll have timeouts, and a tool call that was started
returns. Nothing is assumed about callers (they may never call), about faults, or
about mail arriving. In `TeammateBreaker` the clock advances.

In `CronScheduler` time passes, a timer's callback is started, a callback and a
call go on to their end, and the patrol runs every thirty seconds. The start of a
callback is strongly fair: the debounce turns one away again and again, but every
patrol gives it another try and the debounce passes in between. In `A2ATask` an
execution takes its steps: the agent's run ends at the latest with the deadline
of its context. Nobody has to continue a task, cancel it or send a message.

## 4. Where code and documentation disagree

Each of these is a property at the end of its module, under "What the repository
says, and the code does not do". No run checks them, because they do not hold:
put the name in place of the INVARIANTS and PROPERTIES of the config and TLC
shows the behaviour within seconds.

- `DependenciesGateClaims` (`SwarmRunner`, SwarmDependencies.cfg):
  swarm_task_create creates a task and links its dependencies in a second call
  (swarm_task_tools.go:104 and 107). A teammate that lists the board in between
  claims a task that should wait. The parameter's description says "claiming is
  rejected while any dependency is not completed" (swarm_task_tools.go:45).
- `RollbackActsOnOwnTask` (`SwarmRunner`, SwarmReview.cfg): after a teammate has
  requeued its task it calls the event callback before it clears CurrentTaskID.
  If the callback panics when another teammate has claimed the task again,
  rollbackClaimedTask takes it from that one: it expects the status in_progress,
  not the owner. The comment says the rollback "must only ever act on a task
  THIS teammate is still running" (idle_runner.go:435).
- `DeliveredTaskRunsOnce` (`SwarmRunner`, SwarmReview.cfg): a task delivered
  through the inbox is run by handleMessage, which never touches the board, so
  the assignee's next poll claims the pending task and runs it a second time. The
  delivered prompt says "The teammate runner will update the task board when you
  finish" (swarm_task_tools.go:153).
- `SuccessUnblocksDependents` (`SwarmRunner`, SwarmReview.cfg): a parked task keeps
  its permanent_error when a review reopens it; a later success leaves it, and its
  dependents stay blocked. docs/ARCHITECTURE.md:543 says that a task "unblocks
  automatically once every dependency completes".
- `OneWinner` (`BoardPersist`, Persist.cfg): an asynchronous save copies the board
  under a lock of its process alone; a copy taken before a claim can be renamed
  over the file the claim was written to, and the task is won again, by another
  seat or after a restart. The test says "seatB must lose the cross-seat claim
  race" (zz_issue4781_test.go:94).
- `PausedHasNoTimer` (`CronScheduler`, Cron.cfg): a job paused while its callback
  is in the host, or before the call that creates it has scheduled it, is given a
  timer afterwards. The next fire finds it paused, so the harm is small. A test
  says "paused job must have no timer" (scheduler_patrol_test.go).
- `OneShotFiresOnce` (`CronScheduler`, Cron.cfg): a one-shot that is updated while
  its callback is in the host is fired again. A test says "one-shot should fire
  exactly once".
- `NoOrphanedHost` (`RelayRoom`, Relay.cfg): between the moment a host has lost its
  place (detachFromRoom, or the takeover in handleWS) and the next lock, the room has
  neither server nor expiry; if the last client detaches then, removeRoomIfEmpty
  deletes it without the mark that expireRoom sets, and the host that is coming
  back registers in a room no client can find. The test of the mark says that such
  a registration "must abort at its commit point instead of silently becoming an
  orphaned server in a room that no longer exists" (issue2898_test.go:11).

Seen while modelling, and allowed by the models:

- A user's Cancel does not reclaim the slot of a sub-agent that is stuck, as the
  watchdog and CancelAll do; the watchdog no longer looks at an agent that has
  ended, so the slot is lost until the goroutine returns. An agent cancelled between
  SetCancel and the start of its goroutine can be purged while it runs, and
  its result is lost (`early`).
- continueTask does not count against maxTasks. A stale execution may mark a
  resumed task cancelled, complete or fail it, or overwrite its artifact:
  cleanupCancelIf protects the cancel function, nothing the task
  (handler_cancelgen_test.go:100 expects "resumed task must not be marked canceled
  by stale goroutine").
- After an UndoRun that failed for some files, the pending redo entries no
  longer follow on from the files as they are.
- The relay stores a client's cursor without its session, although ordinals
  restart with every session, and a replay that is cut short for a full
  buffer leaves the client ready: both may skip events. A write of an event that
  failed is not repeated when the host reconnects. The goroutine that deletes an
  expired room may delete what the returned host has stored since.
- The relay drops an event it has among its last 50 (`DedupWindow`): a host that
  resends from further back leaves it twice in the history and in the replays.
- A restarted relay may let a client into a room whose rows are still being written,
  or are about to be deleted. If the host leaves and comes back, the room is restored
  from the store under that client, which is sent none of the rows that came late.

Narrower windows are written into the passing properties as their exceptions, so
that the properties say exactly what the code gives:

- `DependentsWait` excepts tasks linked after they were listed and blockers that
  a review reopened; `OneRunnerPerTask` excepts tasks that were put back on the
  board while a teammate ran them.
- `DeletedTeamHasNoResults` and `StoppedShowsShuttingDown` except a teammate that
  had just passed `teammateGoverned`, or had just looked at its context, when
  DeleteTeam or CancelAll came in between: its result is stored after the team is
  gone, or it shows as idle for ever.
- `StoreMatches` and `FutureIsArmed` except what was changed beside a rollback, or
  whose save failed where nothing undoes it (`muddled`). Beside it are another
  call, a switch of sessions, and the save of a callback: save writes all jobs,
  so it also writes the change of a call whose own save then fails, and the
  rollback takes back in memory what stays in the file;
  `HistoryMatchesDisk` excepts `skewed` and `broken` files; `DeliveredOnce` excepts
  `early` agents; `ReadyMissesNothing` excepts `gapped` sessions, `StoreCatchesUp`
  the `unstored`, `HostHasRoom` the `emptied` room.
- `OneWinnerUntilRestart` is about one seat that has not restarted: after a
  restart the file still shows a claim that memory has rolled back, and the same
  owner's claim is acknowledged from the file alone.
- `FileIsWhole` and `RestingFileIsCurrent` are about saves with no claim beside
  them: a claim and a save share board.json.tmp and do not exclude each other.

## 5. Proofs

Assumptions: task ids are positive numbers, the marker values differ from the
owners and statuses (`TaskIDAssumption`, `OwnerAssumption`, `UnsetAssumption`),
requests are well formed, the teammates are the owners, and the bounds are
numbers, the limits of the code positive ones. Where the code counts (members of
a team, slots of a semaphore, callbacks under way) the set of what is counted is
finite; all other sets are arbitrary, infinite ones included. Jobs of this process
have other ids than those of another one, and no owner has the name of a status (`SeatAssumption`). TLC evaluates the assumptions in
every run.

**TaskBoardOpsProofs** (lemmas on boards). The core is that Update keeps a board
acyclic. Acyclic means that every nonempty set of tasks has one that waits for
none of the others. Every new edge has the updated task at one end. Suppose every
member of a set S waits for a member after the update. Then the members that
reach the updated task and are reached from it are again such a set; by the old
board one of them waits for none of them through an old edge, so it does through
a new one, and that edge closes a cycle, which the first round refused
(`UpdateKeepsAcyclic`). `NeverHalfUpdated` says that the
second round of checks, on any prefix of the edges, sees a subset of the graph
the first round saw, and so never fires.

**TaskBoardProofs.** The inductive invariant is
`IInv == TypeOK /\ Sound(tasks, nextID) /\ Sound(saved.tasks, saved.nextID)`:
without the third part a restore could bring back anything (`Invariance`). From it:
`TypeCorrect`, `EdgesAlwaysMirror`, `AlwaysAcyclic`, `AlwaysFreshIDs`, `NeverStuck`
(acyclicity applied to the set of open tasks), and the action property `ErrorsWriteNothing`.

**SwarmRunnerProofs.** Two layers. `Typed` is the type invariant, the soundness of
the shared board and `Bookkeeping` (a teammate that runs, writes or unwinds knows
its task; a call knows its task), without which a write-back could name no task:
`TeamStateSound`.
`Claims` is `NoLeakedClaim /\ OneRunnerPerTask /\ RunningNotPending`: the first two
are not inductive alone, since a claim needs a pending task and only
`RunningNotPending` (a task somebody runs is not pending unless it was taken away)
rules out that another teammate still runs it. From them: `TypeCorrectness`,
`BoardStaysSound`, `ClaimsAreHeld`, `ClaimsExclude`, `CompletedTasksStay`,
`RetriesAreBounded`, for any number of teammates, tasks, callers, calls, faults,
retries and any inbox size. `Waits` adds that a listing shows the blockers the task
has (`ListedBlockers`, unless it was linked since), checked ones included, and that a
task a teammate has put in progress had them met (`StartedMet`, unless a review
reopened one): `DependentsWait` is about tasks that run, and has to be carried
through listing, check and claim, three steps between which anybody may change
the board (`BlockersAreMet`).

**SwarmTeamProofs.** `NoOrphan` is about running loops and is decided earlier:
`LaunchedGoverned` says it from the moment a teammate is in its team's map, and
needs that one call spawns a teammate (`SpawnedOnce`), that teammates stay in the team
they were spawned into (`AtHome`), and that they are taken out only after they
were cancelled (`RemovedCancelled`). `TeamConsistent` needs `CancelledShows` and
`StoreGoverned`: what a loop decided to write before the call came in between.
`NobodyRunsUngoverned`, `RecordsAgree`.

The module also holds the proofs of `TeammateBreaker` and `BoardPersist`, which share
no variable with it. *The breaker*: the type invariant with the relation between state,
failures and streak is inductive; `BreakerFollowsStreak`, for any set of loops.
`OneLoopKeepsTheProbe`: where a single loop uses the breaker, the gate it passed is
still open when it claims, and a half-open breaker has its probe under way.
*The board's file*: for any number of seats the types hold, saves and claims belong to
seats that have the board, and OpenTmp finds a free file (`SeatInv`,
`SeatsAlwaysSound`; the files outnumber the names and the descriptors). The rest is about
one seat (`OneSeat`), as the properties are: with two, OneWinner is false (section 4).
`SavedAlone` follows a save through its steps while no claim was made: what the
temporary name stands for is empty when the save writes and the save's snapshot when it
renames, and never the file board.json stands for; and once nothing is queued, the
file or the snapshot under way is memory. From it `BoardFileIsWhole` and
`LastSaveWins`, crashes included. `OwnerSettled` is about all copies of a board at once,
in memory, in saves under way and in files, torn and old ones: while memory says that
a task is pending no copy, winner or claim names an owner, and otherwise all that do name
the same one. It does not ask that memory and file agree on anything else, and so
survives overlapping saves that put an old board back: `OneWinnerPerTask`.

**CronSchedulerProofs.** `Inv == Typed /\ Arming /\ Filing`.
*Arming* is about timers: `Chain` (of a job's timer and callbacks at most one is
current), `FutureIsArmed`, and what a rollback relies on: a call that is alone is
the only one (`Alone`), and what it deleted stays out of the map (`DeletedStays`).
*Filing* is about the file: `StoreMatches` speaks of quiet states, so `Follows` says
for every state that where file and memory differ a call or a callback is about
to save; `Undoable`, that the file still holds what a lone call would restore; and
`Unvisited` and `TodoIsFile`, that Load reads a file nobody has touched since.
`OneChainOfFires`, `TimeAheadIsArmed`, `FileFollowsMemory`, and the action property
`OthersJobsSurvive`. The actions are sorted by what they do to timers and files
(`Calms`, `Ticks`, `CallsStay`, `Reminds`, ...), and each part of the invariant is
shown once per kind of step. The attempt to prove `StoreMatches` showed the
exception for a callback's save (section 4), which one job does not reach.

**SubAgentsProofs.** `Count`: the elements in the channel are those of the
registered owners and of the goroutines and reclaims on their way to put one in or take
one out; with `SlotInv` (a slot is registered only between Register and Release, and
nobody is reclaimed twice) it gives `SlotsNeverLeak`, with the cardinalities of
`FiniteSetTheorems`. `DeliveryInv` follows an output from the run to
onComplete through every place of the goroutine, cancelled or purged on the way:
`OutputDeliveredOnce`. `NeverClosedTwice` is a part of it, and `EndedAgentStays` an
action property.

**A2ATaskProofs.** Generations are given out in order (`Births`), an execution that
is cancelled or has cleaned up has no entry in cancels (`NoEntry`), and the newest
execution of a live task has one (`Entries`): with the three,
`RunningTaskIsCancelable`, however late the older ones clean up. `IndexIsHistory` (the message index is
the histories read backwards) and `StartedOnce` give `RepeatedMessageRunsOnce`;
`WaitersWoken` is inductive with the types (`NobodyWaitsInVain`), and
`EndedTaskStays` is an action property.

**RelayRoomProofs.** `RoomInv == TypeOK /\ HostInv /\ ClientInv /\ StoreInv`.
*HostInv*: an expired room has left the hub, so a handshake that finds no mark still
has its room, unless that was removed as empty (`Handshake`), and an older connection that
is read late is not the newest (`Links`): `HostKeepsRoom`.
*ClientInv*: a client's resume compares positions in a history that may hold
duplicates from beyond the dedup window, so ordinals do not simply rise.
What comes before the first event of some ordinal is smaller (`InFront`), none is missing
below one that is there (`GapFree`), and what a client received it received from the
first event on (`GotInv`): a replay after the cursor then completes it, and so does the
forwarding of one more event: `ReadyClientHasAll`. That the sorted rows of the store
are such a history is `OrderedEvents` (a finite set is ranked by counting what is
below), and that events 1 to n cannot fit into fewer places is the pigeonhole principle.
*StoreInv*: `StoreCatchesUp` speaks of every outcome of the writes under way; `Written`
says that each event is stored or among them, and `NoWipe` that no deletion of a
room with events is: `RoomIsStored`.

Only model-checked:

- the liveness properties (`ReadyTaskIsTaken`, `GateReopens`, `UngovernedStops`,
  `NoJobIsForgotten`, `TaskEnds`), which are out of the prover's reach;
- `CheckpointJournal` and its refinement of `EditTimeline`: the stacks of a
  run are filtered, split and reversed sequences, and what those operators do to a
  sequence of any length needs induction over it. The tools prove nothing of
  SelectSeq, which drops a run's checkpoints in Forget and in WithoutRunFiles, and with it
  of `HistoryMatchesDisk`, `ReplayIsLive` and `UndoRunRestores`.

## 6. Not modelled

In the modelled parts: broadcasts to a team (best effort, never retried), the
batcher of stream events, digests and statistics of the board, findings and
experience that only become text of a prompt, the starvation stamp and the
priorities (no tool writes a priority, so the oldest task comes first), and
wall-clock durations. Cron: MigrateWorkspaceJobs, SetSession (no caller outside
tests), the patrol's branch for an expression that no longer parses, read errors
of the store in a save. Checkpoints: intents, the tool call of a correction, lists of
modified files. Sub-agents: batching and throttling of events, Wait, the Mailbox
(nothing receives from it). A2A: the server's pushes and event streams, states no
code sets (auth-required, rejected); RequestInput is modelled although only tests
call it. Relay: frames from client to host, the key exchange, authority epochs,
tokens, a second host or client at the same time, and a frame dropped for a full
buffer on a connection that still delivers later ones. A language model's behaviour is a nondeterministic choice
of what a run returns and which tools are called.

The host's side of the relay (`internal/tunnel`) is an assumption of `RelayRoom`
and not a module: its two brokers number events independently of each other, and
with its queues and recovery plan the composition is beyond TLC's reach at any
bound at which something happens.

Not at all: user interfaces, providers, messaging adapters, LSP, video streaming,
configuration, authentication, prompts and memory, which are I/O, formatting, or
text processing. `PROJECT.json` gives the reason for each.

## 7. Plan

What is left, in this order.

1. The steps of the refinement of `EditTimeline` that do not filter a stack.
2. An abstract specification of a task's life (pending, held by one, done) that
   `SwarmRunner` implements outside the exceptions named in section 4.
3. The session lock, then LAN chat delivery.
