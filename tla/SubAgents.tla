----------------------------- MODULE SubAgents -----------------------------
(***************************************************************************)
(* Sub-agents (internal/subagent/manager.go and runner.go): the table of   *)
(* agents, the goroutine that runs each one, the semaphore slot it holds   *)
(* while it runs, and who may end it: itself, a cancellation, CancelAll    *)
(* with its timeout, and the watchdog.                                     *)
(*                                                                         *)
(* A step is one critical section of m.mu or of an agent's own mutex, or   *)
(* one operation on the semaphore channel.  Time is left open: the         *)
(* watchdog may find any running agent inactive, and any pending one late. *)
(***************************************************************************)
EXTENDS Naturals, FiniteSets

CONSTANTS
    Agent,          \* bound: the sub-agents that are spawned
    MaxConcurrent,  \* Manager.maxConcurrent, the capacity of Manager.sem
    MaxTerminal,    \* maxTerminalAgents
    Calls           \* bound: which of "cancel", "cancel_all", "shutdown" are called

ASSUME SubAgentsAssumption ==
    /\ IsFiniteSet(Agent)
    /\ MaxConcurrent \in Nat \ {0}
    /\ MaxTerminal \in Nat

VARIABLES
    agents,     \* the keys of Manager.agents
    sa,         \* the SubAgent object of an id; it outlives its place in the map
    pc,         \* where the goroutine in Run is
    outcome,    \* whether RunStream produced any text
    sem,        \* len(Manager.sem)
    owners,     \* Manager.semOwners
    watchdog,   \* the round of reapInactiveAgents under way
    reclaim,    \* the ensureSlotReclaimed goroutine of an agent
    sweep,      \* the call of CancelAll under way
    down,       \* Shutdown was called: rootCtx is done, the watchdog ends
    completed,  \* history: how often onComplete was called, up to 2
    early       \* history: agents cancelled after SetCancel and before goroutineStarted

vars == <<agents, sa, pc, outcome, sem, owners, watchdog, reclaim, sweep, down, completed, early>>

slotVars == <<sem, owners>>
endVars == <<watchdog, reclaim, sweep, down>>
ghosts == <<completed, early>>

-----------------------------------------------------------------------------
(* Values *)

Status == {"pending", "running", "completed", "failed", "cancelled"}
Terminal(a) == sa[a].status \in {"completed", "failed", "cancelled"}

SubAgent ==
    [status : Status, done : BOOLEAN, started : BOOLEAN, result : BOOLEAN,
     tool : BOOLEAN]

Spawned ==
    [status |-> "pending", done |-> FALSE, started |-> FALSE, result |-> FALSE,
     tool |-> FALSE]

Rejected == [Spawned EXCEPT !.status = "failed", !.done = TRUE]

PC == {"none", "new", "acquire", "register", "setup", "mark", "run", "stuck",
       "finish", "release", "drain", "ended"}

NoRound == [on |-> FALSE, stale |-> {}, pending |-> {}]
NoSweep == [on |-> FALSE, cancel |-> {}, wait |-> {}, drain |-> FALSE]

Active == {a \in agents : sa[a].status \in {"pending", "running"}}

-----------------------------------------------------------------------------
Init ==
    /\ agents = {}
    /\ sa = [a \in Agent |-> Spawned]
    /\ pc = [a \in Agent |-> "none"]
    /\ outcome = [a \in Agent |-> FALSE]
    /\ sem = 0
    /\ owners = {}
    /\ watchdog = NoRound
    /\ reclaim = [a \in Agent |-> "none"]
    /\ sweep = NoSweep
    /\ down = FALSE
    /\ completed = [a \in Agent |-> 0]
    /\ early = {}

Goto(a, l) == pc' = [pc EXCEPT ![a] = l]

\* Spawn: over the limit, out of budget or after Shutdown (which is looked at before
\* m.mu is taken) the agent is entered as failed; the tools call Run for it all the same
Spawn(a) ==
    /\ pc[a] = "none"
    /\ \/ Cardinality(Active) < MaxConcurrent /\ sa' = [sa EXCEPT ![a] = Spawned]
       \/ sa' = [sa EXCEPT ![a] = Rejected]
    /\ agents' = agents \cup {a}
    /\ Goto(a, "new")
    /\ UNCHANGED <<outcome, slotVars, endVars, ghosts>>

\* the tool starts the goroutine; it does not if the agent's worktree cannot be made
StartRun(a) ==
    /\ pc[a] = "new"
    /\ Goto(a, "acquire")
    /\ UNCHANGED <<agents, sa, outcome, slotVars, endVars, ghosts>>

\* AcquireSemaphore: a free place in the channel, or the root context is done
Acquire(a) ==
    /\ pc[a] = "acquire"
    /\ sem < MaxConcurrent
    /\ sem' = sem + 1
    /\ Goto(a, "register")
    /\ UNCHANGED <<agents, sa, outcome, owners, endVars, ghosts>>

\* mutant: what a cancelled agent produced is dropped
CompleteOnlyOpen(a, text, err) ==
    IF a \notin agents \/ Terminal(a)
    THEN sa' = [sa EXCEPT ![a].done = @ \/ a \in agents] /\ UNCHANGED completed
    ELSE /\ sa' = [sa EXCEPT ![a] = [@ EXCEPT !.status = IF err THEN "failed" ELSE "completed",
                                              !.result = text, !.tool = FALSE, !.done = TRUE]]
         /\ completed' = [completed EXCEPT ![a] = IF @ < 2 THEN @ + 1 ELSE @]

\* Complete with or without text, with or without an error: the part under the
\* agent's mutex and the call of onComplete
Complete(a, text, err) ==
    IF a \notin agents THEN UNCHANGED <<sa, completed>>
    ELSE LET late == Terminal(a)
             tell == ~late \/ (text /\ ~sa[a].result)
         IN  /\ sa' = [sa EXCEPT ![a] =
                 [@ EXCEPT !.status = IF late THEN sa[a].status
                                      ELSE IF err THEN "failed" ELSE "completed",
                           !.result = sa[a].result \/ text,
                           !.tool = FALSE,
                           !.done = TRUE]]
             /\ completed' = [completed EXCEPT ![a] =
                                IF tell /\ @ < 2 THEN @ + 1 ELSE @]

AcquireFails(a) ==
    /\ pc[a] = "acquire" /\ down
    /\ Complete(a, FALSE, TRUE)
    /\ Goto(a, "ended")
    /\ UNCHANGED <<agents, outcome, slotVars, endVars, early>>

Register(a) ==
    /\ pc[a] = "register"
    /\ owners' = owners \cup {a}
    /\ Goto(a, "setup")
    /\ UNCHANGED <<agents, sa, outcome, sem, endVars, ghosts>>

\* mutant: an agent that was cancelled while it waited for a slot is run
SetCancelAlways(a) ==
    /\ pc[a] = "setup"
    /\ IF a \notin agents
       THEN Goto(a, "finish") /\ UNCHANGED sa
       ELSE Goto(a, "mark") /\ sa' = [sa EXCEPT ![a].status = "running"]
    /\ UNCHANGED <<agents, outcome, slotVars, endVars, ghosts>>

\* SetCancel, refused if the agent has ended or is gone: then Run completes it
SetCancel(a) ==
    /\ pc[a] = "setup"
    /\ IF a \notin agents \/ Terminal(a)
       THEN Goto(a, "finish") /\ UNCHANGED sa
       ELSE Goto(a, "mark") /\ sa' = [sa EXCEPT ![a].status = "running"]
    /\ UNCHANGED <<agents, outcome, slotVars, endVars, ghosts>>

\* setStatus, setActivity and goroutineStarted
MarkStarted(a) ==
    /\ pc[a] = "mark"
    /\ sa' = IF a \in agents THEN [sa EXCEPT ![a].started = TRUE] ELSE sa
    /\ Goto(a, "run")
    /\ UNCHANGED <<agents, outcome, slotVars, endVars, ghosts>>

\* the events of RunStream that begin and end a tool (nobody looks at the flag once
\* the agent has ended)
Event(a) ==
    /\ pc[a] = "run" /\ a \in agents /\ ~Terminal(a)
    /\ sa' = [sa EXCEPT ![a].tool = ~@]
    /\ UNCHANGED <<agents, pc, outcome, slotVars, endVars, ghosts>>

\* RunStream stops answering, to its context too
Hang(a) ==
    /\ pc[a] = "run"
    /\ Goto(a, "stuck")
    /\ UNCHANGED <<agents, sa, outcome, slotVars, endVars, ghosts>>

\* RunStream returns: done, failed, timed out, cancelled, or it panicked (no text)
Return(a) ==
    /\ pc[a] \in {"run", "stuck"}
    /\ \E text \in BOOLEAN : outcome' = [outcome EXCEPT ![a] = text]
    /\ Goto(a, "finish")
    /\ UNCHANGED <<agents, sa, slotVars, endVars, ghosts>>

Finish(a) ==
    /\ pc[a] = "finish"
    /\ \E err \in BOOLEAN : Complete(a, outcome[a], err)
    /\ Goto(a, "release")
    /\ UNCHANGED <<agents, outcome, slotVars, endVars, early>>

\* mutant: a slot is given back whoever holds it
ReleaseAlways(a) ==
    /\ pc[a] = "release"
    /\ owners' = owners \ {a}
    /\ Goto(a, "drain")
    /\ UNCHANGED <<agents, sa, outcome, sem, endVars, ghosts>>

\* releaseSlot: only what is still registered is given back
Release(a) ==
    /\ pc[a] = "release"
    /\ owners' = owners \ {a}
    /\ Goto(a, IF a \in owners THEN "drain" ELSE "ended")
    /\ UNCHANGED <<agents, sa, outcome, sem, endVars, ghosts>>

Drain(a) ==
    /\ pc[a] = "drain"
    /\ sem > 0
    /\ sem' = sem - 1
    /\ Goto(a, "ended")
    /\ UNCHANGED <<agents, sa, outcome, owners, endVars, ghosts>>

-----------------------------------------------------------------------------
(* Ending an agent from outside *)

\* mutant: the status of an agent that has not started is left to its goroutine
CancelStarted(a) ==
    IF a \notin agents \/ Terminal(a) THEN UNCHANGED <<sa, early>>
    ELSE /\ sa' = [sa EXCEPT ![a] =
                [@ EXCEPT !.status = IF sa[a].started THEN "cancelled" ELSE sa[a].status,
                          !.tool = FALSE, !.done = sa[a].done \/ ~sa[a].started]]
         /\ UNCHANGED early

\* Cancel: done is closed here only if no goroutine will close it
Cancel(a) ==
    IF a \notin agents \/ Terminal(a) THEN UNCHANGED <<sa, early>>
    ELSE /\ sa' = [sa EXCEPT ![a] = [@ EXCEPT !.status = "cancelled", !.tool = FALSE,
                                              !.done = sa[a].done \/ ~sa[a].started]]
         /\ early' = IF pc[a] = "mark" THEN early \cup {a} ELSE early

UserCancel(a) ==
    /\ "cancel" \in Calls
    /\ a \in agents /\ ~Terminal(a)
    /\ Cancel(a)
    /\ UNCHANGED <<agents, pc, outcome, slotVars, endVars, completed>>

\* forceReclaimSlot: unregister the slot, then take one element out of the channel
\* without waiting
Unregister(a) == owners' = owners \ {a}
TakeOne == sem' = IF sem > 0 THEN sem - 1 ELSE sem

CancelAllStart ==
    LET ids == Active IN
    /\ "cancel_all" \in Calls
    /\ ~sweep.on
    /\ ids # {}
    /\ sweep' = [on |-> TRUE, cancel |-> ids, wait |-> {a \in ids : sa[a].started}, drain |-> FALSE]
    /\ UNCHANGED <<agents, sa, pc, outcome, slotVars, watchdog, reclaim, down, ghosts>>

CancelAllCancel ==
    /\ sweep.on
    /\ \E a \in sweep.cancel :
           /\ Cancel(a)
           /\ sweep' = [sweep EXCEPT !.cancel = @ \ {a}]
    /\ UNCHANGED <<agents, pc, outcome, slotVars, watchdog, reclaim, down, completed>>

\* one goroutine at a time: it ends, or the timer does
CancelAllWait ==
    /\ sweep.on /\ sweep.cancel = {} /\ ~sweep.drain
    /\ \E a \in sweep.wait :
           \/ /\ sa[a].done
              /\ sweep' = [sweep EXCEPT !.wait = @ \ {a}]
              /\ UNCHANGED owners
           \/ /\ sweep' = [sweep EXCEPT !.wait = @ \ {a}, !.drain = a \in owners]
              /\ Unregister(a)
    /\ UNCHANGED <<agents, sa, pc, outcome, sem, watchdog, reclaim, down, ghosts>>

CancelAllDrain ==
    /\ sweep.drain
    /\ TakeOne
    /\ sweep' = [sweep EXCEPT !.drain = FALSE]
    /\ UNCHANGED <<agents, sa, pc, outcome, owners, watchdog, reclaim, down, ghosts>>

CancelAllEnd ==
    /\ sweep.on /\ sweep.cancel = {} /\ sweep.wait = {} /\ ~sweep.drain
    /\ sweep' = NoSweep
    /\ UNCHANGED <<agents, sa, pc, outcome, slotVars, watchdog, reclaim, down, ghosts>>

-----------------------------------------------------------------------------
(* The watchdog: reapInactiveAgents *)

\* those that are found inactive if they have been silent for inactivityTimeout
Reapable == {a \in agents : sa[a].status = "running" /\ sa[a].started /\ ~sa[a].tool}
NeverStarted == {a \in agents : sa[a].status = "pending" /\ ~sa[a].started}

WatchdogTick(stale, pending) ==
    /\ ~down /\ ~watchdog.on
    /\ stale \subseteq Reapable /\ pending \subseteq NeverStarted
    /\ watchdog' = [on |-> TRUE, stale |-> stale, pending |-> pending]
    /\ UNCHANGED <<agents, sa, pc, outcome, slotVars, reclaim, sweep, down, ghosts>>

\* cancel, and let a goroutine see to the slot
WatchdogCancel ==
    /\ \E a \in watchdog.stale :
           /\ Cancel(a)
           /\ watchdog' = [watchdog EXCEPT !.stale = @ \ {a}]
           /\ reclaim' = [reclaim EXCEPT ![a] = "wait"]
    /\ UNCHANGED <<agents, pc, outcome, slotVars, sweep, down, completed>>

\* fail an agent that never started, if that is still so
WatchdogFail ==
    /\ watchdog.stale = {}
    /\ \E a \in watchdog.pending :
           /\ watchdog' = [watchdog EXCEPT !.pending = @ \ {a}]
           /\ sa' = IF a \in agents /\ sa[a].status = "pending" /\ ~sa[a].started
                    THEN [sa EXCEPT ![a].status = "failed", ![a].done = TRUE] ELSE sa
    /\ UNCHANGED <<agents, pc, outcome, slotVars, reclaim, sweep, down, ghosts>>

Purgeable == {a \in agents : Terminal(a) /\ sa[a].done}

\* purgeTerminalAgents, the end of a round; which of them ended first is left open
WatchdogPurge ==
    /\ watchdog.on /\ watchdog.stale = {} /\ watchdog.pending = {}
    /\ watchdog' = NoRound
    /\ IF Cardinality(Purgeable) <= MaxTerminal THEN UNCHANGED agents
       ELSE \E gone \in SUBSET Purgeable :
                /\ Cardinality(Purgeable \ gone) = MaxTerminal
                /\ agents' = agents \ gone
    /\ UNCHANGED <<sa, pc, outcome, slotVars, reclaim, sweep, down, ghosts>>

\* ensureSlotReclaimed: the agent ends within the grace period, or its slot is taken
ReclaimWait(a) ==
    /\ reclaim[a] = "wait"
    /\ \/ /\ sa[a].done
          /\ reclaim' = [reclaim EXCEPT ![a] = "none"]
          /\ UNCHANGED owners
       \/ /\ reclaim' = [reclaim EXCEPT ![a] = IF a \in owners THEN "drain" ELSE "none"]
          /\ Unregister(a)
    /\ UNCHANGED <<agents, sa, pc, outcome, sem, watchdog, sweep, down, ghosts>>

ReclaimDrain(a) ==
    /\ reclaim[a] = "drain"
    /\ TakeOne
    /\ reclaim' = [reclaim EXCEPT ![a] = "none"]
    /\ UNCHANGED <<agents, sa, pc, outcome, owners, watchdog, sweep, down, ghosts>>

Shutdown ==
    /\ "shutdown" \in Calls
    /\ ~down
    /\ down' = TRUE
    /\ UNCHANGED <<agents, sa, pc, outcome, slotVars, watchdog, reclaim, sweep, ghosts>>

-----------------------------------------------------------------------------
\* what an agent's goroutine does without anybody's help
Go(a) ==
    \/ Acquire(a) \/ AcquireFails(a) \/ Register(a) \/ SetCancel(a) \/ MarkStarted(a)
    \/ (pc[a] = "run" /\ Return(a)) \/ Finish(a) \/ Release(a) \/ Drain(a)

CancelAll == CancelAllCancel \/ CancelAllWait \/ CancelAllDrain \/ CancelAllEnd
Reap == WatchdogCancel \/ WatchdogFail \/ WatchdogPurge
Reclaim(a) == ReclaimWait(a) \/ ReclaimDrain(a)

Next ==
    \/ \E a \in Agent :
        \/ Spawn(a) \/ StartRun(a) \/ Go(a) \/ Event(a) \/ Hang(a)
        \/ (pc[a] = "stuck" /\ Return(a))
        \/ UserCancel(a) \/ Reclaim(a)
    \/ CancelAllStart \/ CancelAll
    \/ \E stale, pending \in SUBSET Agent : WatchdogTick(stale, pending)
    \/ Reap
    \/ Shutdown

Spec == Init /\ [][Next]_vars

-----------------------------------------------------------------------------
(* Properties *)

\* The type of the state.
TypeOK ==
    /\ agents \subseteq Agent
    /\ sa \in [Agent -> SubAgent]
    /\ pc \in [Agent -> PC]
    /\ outcome \in [Agent -> BOOLEAN]
    /\ sem \in 0 .. MaxConcurrent
    /\ owners \subseteq Agent
    /\ watchdog \in [on : BOOLEAN, stale : SUBSET Agent, pending : SUBSET Agent]
    /\ reclaim \in [Agent -> {"none", "wait", "drain"}]
    /\ sweep \in [on : BOOLEAN, cancel : SUBSET Agent, wait : SUBSET Agent, drain : BOOLEAN]
    /\ down \in BOOLEAN
    /\ completed \in [Agent -> 0 .. 2]
    /\ early \subseteq Agent

\* The state has its type, and every element of the semaphore channel belongs to somebody who will take it out:
\* a registered agent, one that has just acquired it, or one that is giving it back.
\* So releaseSlot never blocks on an empty channel, and a slot that was reclaimed by
\* force and released late is returned once.
SlotsAccounted ==
    /\ TypeOK
    /\ sem = Cardinality(owners)
        + Cardinality({a \in Agent : pc[a] \in {"register", "drain"}})
        + Cardinality({a \in Agent : reclaim[a] = "drain"})
        + (IF sweep.drain THEN 1 ELSE 0)

\* The watchdog closes the channel of a pending agent without looking whether it is
\* closed: it never is, whoever cancels, rejects or completes the agent meanwhile.
PendingIsOpen == \A a \in Agent : sa[a].status = "pending" => ~sa[a].done

\* onComplete is called at most once for an agent, and exactly once with the output if
\* its run produced any, however it was cancelled, reaped or purged meanwhile.  An
\* agent cancelled just before goroutineStarted is set may be purged while it runs.
DeliveredOnce ==
    \A a \in Agent :
        /\ completed[a] <= 1
        /\ pc[a] \in {"release", "drain", "ended"} /\ outcome[a] /\ a \notin early
               => completed[a] = 1 /\ sa[a].result

\* An agent that has ended keeps the status it ended with, and no output is taken back.
TerminalStays ==
    [][\A a \in Agent : Terminal(a) /\ pc[a] # "none" =>
            /\ sa'[a].status = sa[a].status
            /\ sa[a].result => sa'[a].result]_vars
=============================================================================
