----------------------------- MODULE SwarmTeam -----------------------------
(***************************************************************************)
(* The life of teams and teammates (internal/swarm/manager.go): creating,  *)
(* deleting and cancelling teams, spawning and shutting down teammates,    *)
(* and the results the manager keeps of them.                              *)
(*                                                                         *)
(* A step is what a call does between taking and releasing a lock; the     *)
(* loop of a teammate is reduced to its runs (SwarmRunner has the rest).   *)
(***************************************************************************)
EXTENDS Naturals, FiniteSets, Sequences

CONSTANTS
    Team,               \* bound: the teams that are ever created
    Mate,               \* bound: the teammates that are ever spawned
    Caller,             \* the goroutines that call the manager
    MaxTeammatesPerTeam,
    maxStoredResults,
    None

ASSUME TeamAssumption ==
    /\ IsFiniteSet(Mate)
    /\ MaxTeammatesPerTeam \in Nat \ {0}
    /\ maxStoredResults \in Nat \ {0}
    /\ None \notin Team \cup Mate

VARIABLES
    teams,          \* Manager.teams: the teams it holds
    born,           \* the teams whose id was given out
    mates,          \* Team.Teammates
    home,           \* the team a teammate was spawned into
    status,         \* Teammate.Status
    loop,           \* where a teammate's goroutine is
    cancelled,      \* the teammates whose context is cancelled
    rootCancelled,  \* Manager.rootCtx is cancelled
    results,        \* the teammates Manager.results has an entry for
    resultsOrder,   \* Manager.resultsOrder
    call,           \* what each caller is in the middle of
    raced           \* history: the teammates a sweep caught between a check and
                    \* what they do after it, to their status or their result

vars == <<teams, born, mates, home, status, loop, cancelled, rootCancelled, results,
          resultsOrder, call, raced>>

teamVars == <<teams, born, mates, home>>
mateVars == <<status, loop, cancelled>>
resultVars == <<results, resultsOrder>>

-----------------------------------------------------------------------------
(* Values *)

TeammateStatus == {"idle", "working", "shutting_down"}

Loop == {"none", "idle", "work", "settle", "emit", "store", "done"}

CallOp == {"none", "create", "spawn", "start", "delete", "shutdown", "remove", "cancel"}

Call == [op : CallOp, team : Team \cup {None}, mate : Mate \cup {None}, rest : SUBSET Team]

NoCall == [op |-> "none", team |-> None, mate |-> None, rest |-> {}]

Begin(c, k) == call[c] = NoCall /\ call' = [call EXCEPT ![c] = k]

Return(c) == call' = [call EXCEPT ![c] = NoCall]

\* teammateGoverned
Governed(m) == \E team \in teams : m \in mates[team]

Cancelled(m) == m \in cancelled \/ rootCancelled

-----------------------------------------------------------------------------
(* The callers *)

\* CreateTeam gives out an id ...
CreateTeam(c, team) ==
    /\ team \notin born
    /\ born' = born \cup {team}
    /\ Begin(c, [NoCall EXCEPT !.op = "create", !.team = team])
    /\ UNCHANGED <<teams, mates, home, mateVars, resultVars, rootCancelled, raced>>

\* ... and then puts the team in the map.
PutTeam(c) ==
    /\ call[c].op = "create"
    /\ teams' = teams \cup {call[c].team}
    /\ Return(c)
    /\ UNCHANGED <<born, mates, home, mateVars, resultVars, rootCancelled, raced>>

\* SpawnTeammate finds the team and gives out an id ...
SpawnTeammate(c, team, m) ==
    /\ team \in teams
    /\ home[m] = None
    /\ home' = [home EXCEPT ![m] = team]
    /\ Begin(c, [NoCall EXCEPT !.op = "spawn", !.team = team, !.mate = m])
    /\ UNCHANGED <<teams, born, mates, mateVars, resultVars, rootCancelled, raced>>

HasRoom(team) == Cardinality(mates[team]) < MaxTeammatesPerTeam

\* Mutant: the room is not looked at under the team's lock.
AdmitsAnyone(team) == team \in teams

\* The team is still there, and has room.
Admits(team) == team \in teams /\ HasRoom(team)

\* ... puts the teammate in the team, with a context of its own, ...
Enlist(c) ==
    LET k == call[c]
    IN  /\ k.op = "spawn"
        /\ IF Admits(k.team)
             THEN /\ mates' = [mates EXCEPT ![k.team] = @ \cup {k.mate}]
                  /\ call' = [call EXCEPT ![c].op = "start"]
             ELSE /\ Return(c)
                  /\ UNCHANGED mates
        /\ UNCHANGED <<teams, born, home, mateVars, resultVars, rootCancelled, raced>>

\* ... and starts its loop.
StartLoop(c) ==
    /\ call[c].op = "start"
    /\ loop' = [loop EXCEPT ![call[c].mate] = "idle"]
    /\ Return(c)
    /\ UNCHANGED <<teamVars, status, cancelled, resultVars, rootCancelled, raced>>

\* Cancel the contexts of a set of teammates and mark them.
Sweep(ms) ==
    /\ cancelled' = cancelled \cup ms
    /\ status' = [m \in Mate |-> IF m \in ms THEN "shutting_down" ELSE status[m]]

\* The teammates of a set that have looked at their context and will set
\* their status, or have found themselves governed and will store a result.
BetweenStatus(ms) == {m \in ms : loop[m] = "settle"} \X {"status"}
BetweenResult(ms) == {m \in ms : loop[m] = "store"} \X {"result"}

\* DeleteTeam cancels the teammates and forgets their results, ...
DeleteTeam(c, team) ==
    /\ team \in teams
    /\ Begin(c, [NoCall EXCEPT !.op = "delete", !.team = team])
    /\ Sweep(mates[team])
    /\ raced' = raced \cup BetweenStatus(mates[team])
    /\ results' = results \ mates[team]
    /\ UNCHANGED <<teamVars, loop, resultsOrder, rootCancelled>>

\* Mutant: teammates spawned while the deletion waited are not swept.
DropTeamOnly(c) ==
    /\ call[c].op = "delete"
    /\ teams' = teams \ {call[c].team}
    /\ Return(c)
    /\ UNCHANGED <<born, mates, home, mateVars, resultVars, rootCancelled, raced>>

\* ... waits until their loops are done or five seconds have passed, and, if
\* the team is still there, sweeps it again and takes it out of the map.
FinishDelete(c) ==
    LET team == call[c].team
    IN  /\ call[c].op = "delete"
        /\ IF team \in teams
             THEN /\ Sweep(mates[team])
                  /\ raced' = raced \cup BetweenStatus(mates[team]) \cup BetweenResult(mates[team])
                  /\ results' = results \ mates[team]
                  /\ teams' = teams \ {team}
             ELSE UNCHANGED <<cancelled, status, results, teams, raced>>
        /\ Return(c)
        /\ UNCHANGED <<born, mates, home, loop, resultsOrder, rootCancelled>>

\* ShutdownTeammate finds the teammate, ...
ShutdownTeammate(c, team, m) ==
    /\ team \in teams /\ m \in mates[team]
    /\ Begin(c, [NoCall EXCEPT !.op = "shutdown", !.team = team, !.mate = m])
    /\ UNCHANGED <<teamVars, mateVars, resultVars, rootCancelled, raced>>

\* ... cancels it, ...
CancelMate(c) ==
    /\ call[c].op = "shutdown"
    /\ Sweep({call[c].mate})
    /\ raced' = raced \cup BetweenStatus({call[c].mate})
    /\ call' = [call EXCEPT ![c].op = "remove"]
    /\ UNCHANGED <<teamVars, loop, resultVars, rootCancelled>>

\* ... and takes it out of the team; its result stays.
RemoveMate(c) ==
    /\ call[c].op = "remove"
    /\ mates' = [mates EXCEPT ![call[c].team] = @ \ {call[c].mate}]
    /\ Return(c)
    /\ UNCHANGED <<teams, born, home, mateVars, resultVars, rootCancelled, raced>>

\* CancelAll lists the teams ...
CancelAll(c) ==
    /\ teams # {}
    /\ Begin(c, [NoCall EXCEPT !.op = "cancel", !.rest = teams])
    /\ UNCHANGED <<teamVars, mateVars, resultVars, rootCancelled, raced>>

\* ... and goes over one after the other, then waits for the loops to end.
CancelTeam(c, team) ==
    /\ call[c].op = "cancel"
    /\ team \in call[c].rest
    /\ Sweep({m \in mates[team] : status[m] # "shutting_down"})
    /\ raced' = raced \cup BetweenStatus(mates[team])
    /\ call' = [call EXCEPT ![c].rest = @ \ {team}]
    /\ UNCHANGED <<teamVars, loop, resultVars, rootCancelled>>

ReturnCancelAll(c) ==
    /\ call[c].op = "cancel" /\ call[c].rest = {}
    /\ Return(c)
    /\ UNCHANGED <<teamVars, mateVars, resultVars, rootCancelled, raced>>

\* Shutdown holds the manager's lock from the sweep to rootCancel.
Shutdown ==
    /\ ~rootCancelled
    /\ rootCancelled' = TRUE
    /\ Sweep(UNION {mates[team] : team \in teams})
    /\ raced' = raced \cup BetweenStatus(UNION {mates[team] : team \in teams})
    /\ UNCHANGED <<teamVars, loop, resultVars, call>>

-----------------------------------------------------------------------------
(* A teammate *)

\* A task or a mail arrives.
Work(m) ==
    /\ loop[m] = "idle" /\ ~Cancelled(m)
    /\ loop' = [loop EXCEPT ![m] = "work"]
    /\ status' = [status EXCEPT ![m] = "working"]
    /\ UNCHANGED <<teamVars, cancelled, resultVars, rootCancelled, call, raced>>

\* Mutant: a cancelled run is settled like any other.
SettleAnyway(m) ==
    /\ loop[m] = "work"
    /\ loop' = [loop EXCEPT ![m] = "settle"]
    /\ UNCHANGED <<teamVars, status, cancelled, resultVars, rootCancelled, call, raced>>

\* The run is over and the context is looked at ...
FinishWork(m) ==
    /\ loop[m] = "work"
    /\ IF Cancelled(m)
         THEN /\ status' = [status EXCEPT ![m] = "shutting_down"]
              /\ loop' = [loop EXCEPT ![m] = "done"]
         ELSE /\ loop' = [loop EXCEPT ![m] = "settle"]
              /\ UNCHANGED status
    /\ UNCHANGED <<teamVars, cancelled, resultVars, rootCancelled, call, raced>>

\* ... before the status is set.
Settle(m) ==
    /\ loop[m] = "settle"
    /\ status' = [status EXCEPT ![m] = "idle"]
    /\ loop' = [loop EXCEPT ![m] = "emit"]
    /\ UNCHANGED <<teamVars, cancelled, resultVars, rootCancelled, call, raced>>

\* Mutant: emit does not ask whether the teammate is in a team.
EmitUngoverned(m, empty) ==
    /\ loop[m] = "emit"
    /\ loop' = [loop EXCEPT ![m] = IF ~empty THEN "store" ELSE "idle"]
    /\ UNCHANGED <<teamVars, status, cancelled, resultVars, rootCancelled, call, raced>>

\* emit asks whether the teammate is in a team, unless the result is empty, ...
Emit(m, empty) ==
    /\ loop[m] = "emit"
    /\ loop' = [loop EXCEPT ![m] = IF Governed(m) /\ ~empty THEN "store" ELSE "idle"]
    /\ UNCHANGED <<teamVars, status, cancelled, resultVars, rootCancelled, call, raced>>

\* The first n entries of the order that still have a result.
Evicted(order, stored, n) ==
    LET Count(i) == Cardinality({order[j] : j \in 1 .. i} \cap stored)
    IN  IF n = 0 THEN 0
        ELSE CHOOSE i \in 1 .. Len(order) : Count(i) = n /\ \A j \in 1 .. (i - 1) : Count(j) < n

\* Mutant: nothing is evicted.
StoredWithoutEviction(m) ==
    [results |-> results \cup {m},
     order |-> IF m \in results THEN resultsOrder ELSE Append(resultsOrder, m)]

\* storeResultLocked: the oldest entries make room.
Stored(m) ==
    LET order == IF m \in results THEN resultsOrder ELSE Append(resultsOrder, m)
        stored == results \cup {m}
        over == IF Cardinality(stored) > maxStoredResults
                THEN Cardinality(stored) - maxStoredResults ELSE 0
        last == Evicted(order, stored, over)
    IN  [results |-> stored \ {order[j] : j \in 1 .. last},
         order |-> SubSeq(order, last + 1, Len(order))]

\* ... and then stores its result.
Store(m) ==
    /\ loop[m] = "store"
    /\ results' = Stored(m).results
    /\ resultsOrder' = Stored(m).order
    /\ loop' = [loop EXCEPT ![m] = "idle"]
    /\ UNCHANGED <<teamVars, status, cancelled, rootCancelled, call, raced>>

\* Mutant: the loop looks at the manager's context only.
LeaveAtShutdown(m) ==
    /\ loop[m] = "idle" /\ rootCancelled
    /\ loop' = [loop EXCEPT ![m] = "done"]
    /\ UNCHANGED <<teamVars, status, cancelled, resultVars, rootCancelled, call, raced>>

Leave(m) ==
    /\ loop[m] = "idle" /\ Cancelled(m)
    /\ loop' = [loop EXCEPT ![m] = "done"]
    /\ UNCHANGED <<teamVars, status, cancelled, resultVars, rootCancelled, call, raced>>

\* A panic ends the loop; the teammate stays in its team.
Panic(m) ==
    /\ loop[m] = "work"
    /\ loop' = [loop EXCEPT ![m] = "done"]
    /\ status' = [status EXCEPT ![m] = "shutting_down"]
    /\ UNCHANGED <<teamVars, cancelled, resultVars, rootCancelled, call, raced>>

-----------------------------------------------------------------------------
Init ==
    /\ teams = {}
    /\ born = {}
    /\ mates = [team \in Team |-> {}]
    /\ home = [m \in Mate |-> None]
    /\ status = [m \in Mate |-> "idle"]
    /\ loop = [m \in Mate |-> "none"]
    /\ cancelled = {}
    /\ rootCancelled = FALSE
    /\ results = {}
    /\ resultsOrder = <<>>
    /\ call = [c \in Caller |-> NoCall]
    /\ raced = {}

Request(c) ==
    \/ \E team \in Team : CreateTeam(c, team) \/ DeleteTeam(c, team)
    \/ \E team \in Team, m \in Mate : SpawnTeammate(c, team, m) \/ ShutdownTeammate(c, team, m)
    \/ CancelAll(c)

Proceed(c) ==
    \/ PutTeam(c) \/ Enlist(c) \/ StartLoop(c) \/ FinishDelete(c)
    \/ CancelMate(c) \/ RemoveMate(c)
    \/ (\E team \in Team : CancelTeam(c, team)) \/ ReturnCancelAll(c)

Run(m) == FinishWork(m) \/ Settle(m) \/ (\E empty \in BOOLEAN : Emit(m, empty)) \/ Store(m) \/ Leave(m)

Next ==
    \/ \E c \in Caller : Request(c) \/ Proceed(c)
    \/ Shutdown
    \/ \E m \in Mate : Work(m) \/ Run(m) \/ Panic(m)

Spec == Init /\ [][Next]_vars

\* A call that was started is finished (the waits have a timeout), a run
\* ends, and a loop whose context is done leaves.
Fairness ==
    /\ \A c \in Caller : WF_vars(Proceed(c))
    /\ \A m \in Mate : WF_vars(Run(m))

FairSpec == Spec /\ Fairness

-----------------------------------------------------------------------------
(* Properties *)

\* Every variable has its type.
TypeOK ==
    /\ teams \subseteq Team /\ born \subseteq Team
    /\ mates \in [Team -> SUBSET Mate]
    /\ home \in [Mate -> Team \cup {None}]
    /\ status \in [Mate -> TeammateStatus]
    /\ loop \in [Mate -> Loop]
    /\ cancelled \subseteq Mate
    /\ raced \subseteq Mate \X {"status", "result"}
    /\ rootCancelled \in BOOLEAN
    /\ results \subseteq Mate
    /\ resultsOrder \in Seq(Mate)
    /\ call \in [Caller -> Call]

\* No teammate runs on that nobody can stop: a loop whose context is not
\* cancelled belongs to a team the manager still holds, whatever deletions
\* and shutdowns overtook its spawn.
NoOrphan ==
    \A m \in Mate : loop[m] \notin {"none", "done"} /\ ~Cancelled(m) => Governed(m)

\* Concurrent spawns do not overfill a team.
TeamsBounded == \A team \in Team : Cardinality(mates[team]) <= MaxTeammatesPerTeam

\* The manager keeps a bounded number of results, and every one of them is in
\* the order the next eviction goes by: none is kept for ever.
ResultsEvictable ==
    /\ Cardinality(results) <= maxStoredResults
    /\ \A m \in results : \E i \in 1 .. Len(resultsOrder) : resultsOrder[i] = m

\* A teammate that is in no team any more, whatever it is doing, ends its loop.
UngovernedStops ==
    \A m \in Mate : (loop[m] \notin {"none", "done"} /\ ~Governed(m)) ~> loop[m] = "done"

\* A teammate that was in its team when the team was deleted leaves no
\* result behind, unless it had found itself governed just before and was
\* about to store one.
DeletedTeamHasNoResults ==
    \A m \in results :
        m \in mates[home[m]] => home[m] \in teams \/ <<m, "result">> \in raced

\* A teammate that was cancelled and whose loop has ended shows as shutting
\* down, unless it had looked at its context just before and was about to
\* show itself as idle.
StoppedShowsShuttingDown ==
    \A m \in cancelled :
        loop[m] = "done" => status[m] = "shutting_down" \/ <<m, "status">> \in raced

\* The team's records agree with one another: the state has its type, the team
\* and the results stay within their limits, every result can be evicted, and
\* deleted teams and stopped teammates leave nothing behind but in the races
\* that raced records.
TeamConsistent ==
    /\ TypeOK /\ TeamsBounded /\ ResultsEvictable
    /\ DeletedTeamHasNoResults /\ StoppedShowsShuttingDown
=============================================================================
