--------------------------- MODULE SubAgentsProofs ---------------------------
(***************************************************************************)
(* The sub-agent manager, for any number of agents and slots: no slot of   *)
(* the semaphore is lost or returned twice, no completion channel is       *)
(* closed twice, and what an agent produced is delivered once.             *)
(***************************************************************************)
EXTENDS SubAgents, FiniteSetTheorems, TLAPS

-----------------------------------------------------------------------------
(* The inductive invariant *)

\* Those that have an element of the channel without being registered as its owner.
Passing == {a \in Agent : pc[a] \in {"register", "drain"}}
Reclaiming == {a \in Agent : reclaim[a] = "drain"}

\* Every element of the channel is somebody's, counted out.
Count ==
    sem = Cardinality(owners) + Cardinality(Passing) + Cardinality(Reclaiming)
            + (IF sweep.drain THEN 1 ELSE 0)

\* What has not been spawned is known to nobody.
Unborn ==
    \A a \in Agent : pc[a] = "none" =>
        a \notin agents /\ a \notin watchdog.stale /\ reclaim[a] = "none"

Holds == {"setup", "mark", "run", "stuck", "finish", "release"}

\* A slot is registered only while its goroutine is between Register and Release, and
\* an agent the watchdog has cancelled is not on its list a second time: what its
\* reclaim goroutine is about to take out would otherwise be forgotten.
SlotInv ==
    /\ \A a \in owners : pc[a] \in Holds
    /\ sweep.drain => sweep.on
    /\ \A a \in Agent : reclaim[a] # "none" =>
           a \notin watchdog.stale /\ (a \notin agents \/ Terminal(a))

Ending == {"release", "drain", "ended"}

\* Its run is under way, or has ended with output that is not delivered yet.
Producing(a) == pc[a] \in {"run", "stuck"} \/ (pc[a] = "finish" /\ outcome[a])

\* Until Complete, nothing is delivered; what a run produced is known at its end only;
\* and an agent that has not been accepted by SetCancel is not running.
Before(a) ==
    /\ pc[a] \notin Ending => completed[a] = 0 /\ ~sa[a].result
    /\ outcome[a] => pc[a] \in {"finish"} \cup Ending
    /\ sa[a].status = "running" => pc[a] \notin {"none", "new", "acquire", "register", "setup"}

\* The agent that will deliver is still in the table: it is not purged before its
\* channel is closed, which after SetCancel only its own goroutine does - or Cancel,
\* in the moment before goroutineStarted.
Kept(a) ==
    /\ pc[a] = "mark" \/ Producing(a) =>
           a \in early \/ (a \in agents /\ ~sa[a].done /\ sa[a].status # "pending")
    /\ Producing(a) => a \in early \/ sa[a].started

Delivered(a) ==
    /\ completed[a] <= 1
    /\ pc[a] \in Ending /\ outcome[a] /\ a \notin early => completed[a] = 1 /\ sa[a].result

Good(a) == Before(a) /\ Kept(a) /\ Delivered(a)

DeliveryInv == PendingIsOpen /\ \A a \in Agent : Good(a)

-----------------------------------------------------------------------------
(* What Complete and Cancel do to an agent *)

LEMMA Changed ==
    ASSUME TypeOK, NEW a \in Agent, NEW r \in SubAgent, sa' = [sa EXCEPT ![a] = r]
    PROVE  /\ sa' \in [Agent -> SubAgent]
           /\ sa'[a] = r
           /\ \A b \in Agent \ {a} : sa'[b] = sa[b]
BY DEF TypeOK

LEMMA Fields ==
    ASSUME NEW r \in SubAgent
    PROVE  /\ r.status \in Status
           /\ r.done \in BOOLEAN /\ r.started \in BOOLEAN
           /\ r.result \in BOOLEAN /\ r.tool \in BOOLEAN
BY DEF SubAgent

LEMMA Moved ==
    ASSUME TypeOK, NEW a \in Agent, NEW l \in PC, Goto(a, l)
    PROVE  /\ pc' \in [Agent -> PC]
           /\ pc'[a] = l
           /\ \A b \in Agent \ {a} : pc'[b] = pc[b]
BY DEF TypeOK, Goto

\* Whatever Complete finds, it leaves the other agents alone, ends the agent once and
\* takes nothing back.
LEMMA CompleteEffect ==
    ASSUME TypeOK, NEW a \in Agent, NEW text \in BOOLEAN, NEW err \in BOOLEAN,
           Complete(a, text, err)
    PROVE  /\ sa' \in [Agent -> SubAgent] /\ completed' \in [Agent -> 0 .. 2]
           /\ \A b \in Agent \ {a} : sa'[b] = sa[b] /\ completed'[b] = completed[b]
           /\ a \notin agents => sa' = sa /\ completed' = completed
           /\ Terminal(a) => sa'[a].status = sa[a].status
           /\ a \in agents => sa'[a].status \in {"completed", "failed", "cancelled"}
           /\ sa[a].result => sa'[a].result
           /\ a \in agents /\ text => sa'[a].result
           /\ completed[a] = 0 => completed'[a] \in {0, 1}
           /\ a \in agents /\ completed[a] = 0 /\ text /\ ~sa[a].result => completed'[a] = 1
<1>1. CASE a \notin agents
  BY <1>1 DEF Complete, TypeOK
<1>2. CASE a \in agents
  <2> DEFINE r == [sa[a] EXCEPT !.status = IF Terminal(a) THEN sa[a].status
                                           ELSE IF err THEN "failed" ELSE "completed",
                                !.result = sa[a].result \/ text,
                                !.tool = FALSE,
                                !.done = TRUE]
  <2> DEFINE n == IF (~Terminal(a) \/ (text /\ ~sa[a].result)) /\ completed[a] < 2
                  THEN completed[a] + 1 ELSE completed[a]
  <2>1. sa' = [sa EXCEPT ![a] = r] /\ completed' = [completed EXCEPT ![a] = n]
    BY <1>2 DEF Complete
  <2>2. sa[a] \in SubAgent
    BY DEF TypeOK
  <2>3. /\ r \in SubAgent
        /\ r.status = IF Terminal(a) THEN sa[a].status ELSE IF err THEN "failed" ELSE "completed"
        /\ r.result = (sa[a].result \/ text)
    BY <2>2 DEF SubAgent, Status
  <2>4. /\ sa' \in [Agent -> SubAgent] /\ sa'[a] = r
        /\ \A b \in Agent \ {a} : sa'[b] = sa[b]
    BY <2>1, <2>3, Changed
  <2>5. completed[a] \in 0 .. 2 /\ n \in 0 .. 2
    BY DEF TypeOK
  <2>6. /\ completed' \in [Agent -> 0 .. 2] /\ completed'[a] = n
        /\ \A b \in Agent \ {a} : completed'[b] = completed[b]
    BY <2>1, <2>5 DEF TypeOK
  <2>7. n \in {completed[a], completed[a] + 1}
    OBVIOUS
  <2>8. text /\ ~sa[a].result /\ completed[a] = 0 => n = 1
    OBVIOUS
  <2>9. r.status \in {"completed", "failed", "cancelled"}
    BY <2>3 DEF Terminal
  <2>10. sa[a].result \/ text => r.result
    BY <2>3
  <2>11. Terminal(a) => r.status = sa[a].status
    BY <2>3
  <2> HIDE DEF r, n
  <2> QED BY <1>2, <2>3, <2>4, <2>5, <2>6, <2>7, <2>8, <2>9, <2>10, <2>11
<1> QED BY <1>1, <1>2

\* Cancel ends an agent that has not ended, and closes its channel only if it has not
\* started.
LEMMA CancelEffect ==
    ASSUME TypeOK, NEW a \in Agent, Cancel(a)
    PROVE  /\ sa' \in [Agent -> SubAgent] /\ early' \subseteq Agent /\ early \subseteq early'
           /\ \A b \in Agent \ {a} : sa'[b] = sa[b]
           /\ a \in agents => sa'[a].status \in {"completed", "failed", "cancelled"}
           /\ a \notin agents \/ Terminal(a) => sa' = sa
           /\ sa'[a].result = sa[a].result /\ sa'[a].started = sa[a].started
           /\ sa[a].started => sa'[a].done = sa[a].done
           /\ pc[a] = "mark" => a \in early' \/ sa' = sa
<1>1. CASE a \notin agents \/ Terminal(a)
  BY <1>1 DEF Cancel, TypeOK, Terminal
<1>2. CASE a \in agents /\ ~Terminal(a)
  <2> DEFINE r == [sa[a] EXCEPT !.status = "cancelled", !.tool = FALSE,
                                !.done = sa[a].done \/ ~sa[a].started]
  <2>1. /\ sa' = [sa EXCEPT ![a] = r]
        /\ early' = IF pc[a] = "mark" THEN early \cup {a} ELSE early
    BY <1>2 DEF Cancel
  <2>2. sa[a] \in SubAgent
    BY DEF TypeOK
  <2>3. /\ r \in SubAgent /\ r.status = "cancelled" /\ r.result = sa[a].result
        /\ r.started = sa[a].started /\ r.done = (sa[a].done \/ ~sa[a].started)
    BY <2>2 DEF SubAgent, Status
  <2>4. /\ sa' \in [Agent -> SubAgent] /\ sa'[a] = r
        /\ \A b \in Agent \ {a} : sa'[b] = sa[b]
    BY <2>1, <2>3, Changed
  <2>5. early' \subseteq Agent /\ early \subseteq early' /\ (pc[a] = "mark" => a \in early')
    BY <2>1 DEF TypeOK
  <2>6. sa[a].done \in BOOLEAN /\ sa[a].started \in BOOLEAN
    BY <2>2, Fields
  <2>7. sa[a].started => r.done = sa[a].done
    BY <2>3, <2>6
  <2> HIDE DEF r
  <2> QED BY <1>2, <2>3, <2>4, <2>5, <2>7
<1> QED BY <1>1, <1>2

-----------------------------------------------------------------------------
(* The type *)

LEMMA InitType == Init => TypeOK
<1> SUFFICES ASSUME Init PROVE TypeOK
  OBVIOUS
<1>1. Spawned \in SubAgent
  BY DEF Spawned, SubAgent, Status
<1>2. agents \subseteq Agent /\ owners \subseteq Agent /\ early \subseteq Agent /\ down \in BOOLEAN
  BY DEF Init
<1>3. sa \in [Agent -> SubAgent]
  BY <1>1 DEF Init
<1>4. pc \in [Agent -> PC] /\ outcome \in [Agent -> BOOLEAN]
  BY DEF Init, PC
<1>5. sem \in 0 .. MaxConcurrent
  BY SubAgentsAssumption DEF Init
<1>6. reclaim \in [Agent -> {"none", "wait", "drain"}]
  BY DEF Init
<1>7. completed \in [Agent -> 0 .. 2]
  BY DEF Init
<1>8. watchdog \in [on : BOOLEAN, stale : SUBSET Agent, pending : SUBSET Agent]
  BY DEF Init, NoRound
<1>9. sweep \in [on : BOOLEAN, cancel : SUBSET Agent, wait : SUBSET Agent, drain : BOOLEAN]
  BY DEF Init, NoSweep
<1> QED BY <1>2, <1>3, <1>4, <1>5, <1>6, <1>7, <1>8, <1>9 DEF TypeOK

LEMMA NextType == TypeOK /\ [Next]_vars => TypeOK'
<1> SUFFICES ASSUME TypeOK, [Next]_vars PROVE TypeOK'
  OBVIOUS
<1> USE SubAgentsAssumption
<1> USE DEF slotVars, endVars, ghosts
<1>1. ASSUME NEW a \in Agent, Spawn(a) PROVE TypeOK'
  <2>1. Spawned \in SubAgent /\ Rejected \in SubAgent
    BY DEF Spawned, Rejected, SubAgent, Status
  <2>2. sa' \in [Agent -> SubAgent]
    BY <1>1, <2>1, Changed DEF Spawn
  <2>3. pc' \in [Agent -> PC]
    BY <1>1, Moved DEF Spawn, PC
  <2> QED BY <1>1, <2>2, <2>3 DEF Spawn, TypeOK
<1>2. ASSUME NEW a \in Agent, StartRun(a) \/ Acquire(a) \/ Register(a) \/ Hang(a)
                                \/ Release(a) \/ Drain(a)
      PROVE TypeOK'
  <2>1. pc' \in [Agent -> PC]
    BY <1>2, Moved DEF StartRun, Acquire, Register, Hang, Release, Drain, PC
  <2>2. sem' \in 0 .. MaxConcurrent /\ owners' \subseteq Agent
    BY <1>2 DEF StartRun, Acquire, Register, Hang, Release, Drain, TypeOK
  <2> QED BY <1>2, <2>1, <2>2 DEF StartRun, Acquire, Register, Hang, Release, Drain, TypeOK
<1>3. ASSUME NEW a \in Agent, AcquireFails(a) PROVE TypeOK'
  <2>1. sa' \in [Agent -> SubAgent] /\ completed' \in [Agent -> 0 .. 2]
    BY <1>3, CompleteEffect DEF AcquireFails
  <2>2. pc' \in [Agent -> PC]
    BY <1>3, Moved DEF AcquireFails, PC
  <2> QED BY <1>3, <2>1, <2>2 DEF AcquireFails, TypeOK
<1>4. ASSUME NEW a \in Agent, SetCancel(a) \/ MarkStarted(a) \/ Event(a) PROVE TypeOK'
  <2>1. sa[a] \in SubAgent
    BY DEF TypeOK
  <2>2. /\ [sa[a] EXCEPT !.status = "running"] \in SubAgent
        /\ [sa[a] EXCEPT !.started = TRUE] \in SubAgent
        /\ [sa[a] EXCEPT !.tool = ~sa[a].tool] \in SubAgent
    BY <2>1 DEF SubAgent, Status
  <2>3. sa' \in [Agent -> SubAgent]
    BY <1>4, <2>2 DEF SetCancel, MarkStarted, Event, TypeOK
  <2>4. pc' \in [Agent -> PC]
    BY <1>4, Moved DEF SetCancel, MarkStarted, Event, PC, TypeOK
  <2> QED BY <1>4, <2>3, <2>4 DEF SetCancel, MarkStarted, Event, TypeOK
<1>5. ASSUME NEW a \in Agent, Return(a) PROVE TypeOK'
  <2>1. pc' \in [Agent -> PC]
    BY <1>5, Moved DEF Return, PC
  <2>2. PICK text \in BOOLEAN : outcome' = [outcome EXCEPT ![a] = text]
    BY <1>5 DEF Return
  <2>3. outcome' \in [Agent -> BOOLEAN]
    BY <2>2 DEF TypeOK
  <2> QED BY <1>5, <2>1, <2>3 DEF Return, TypeOK
<1>6. ASSUME NEW a \in Agent, Finish(a) PROVE TypeOK'
  <2>1. outcome[a] \in BOOLEAN
    BY DEF TypeOK
  <2>2. sa' \in [Agent -> SubAgent] /\ completed' \in [Agent -> 0 .. 2]
    BY <1>6, <2>1, CompleteEffect DEF Finish
  <2>3. pc' \in [Agent -> PC]
    BY <1>6, Moved DEF Finish, PC
  <2> QED BY <1>6, <2>2, <2>3 DEF Finish, TypeOK
<1>7. ASSUME NEW a \in Agent, UserCancel(a) PROVE TypeOK'
  <2>1. sa' \in [Agent -> SubAgent] /\ early' \subseteq Agent
    BY <1>7, CancelEffect DEF UserCancel
  <2> QED BY <1>7, <2>1 DEF UserCancel, TypeOK
<1>8. ASSUME NEW a \in Agent, Reclaim(a) PROVE TypeOK'
  BY <1>8 DEF Reclaim, ReclaimWait, ReclaimDrain, Unregister, TakeOne, TypeOK
<1>9. CASE CancelAllStart
  <2>1. sweep' \in [on : BOOLEAN, cancel : SUBSET Agent, wait : SUBSET Agent, drain : BOOLEAN]
    BY <1>9 DEF CancelAllStart, Active, TypeOK
  <2> QED BY <1>9, <2>1 DEF CancelAllStart, TypeOK
<1>10. CASE CancelAllCancel
  <2>1. PICK a \in sweep.cancel : Cancel(a) /\ sweep' = [sweep EXCEPT !.cancel = @ \ {a}]
    BY <1>10 DEF CancelAllCancel
  <2>2. a \in Agent
    BY DEF TypeOK
  <2>3. sa' \in [Agent -> SubAgent] /\ early' \subseteq Agent
    BY <2>1, <2>2, CancelEffect
  <2>4. sweep' \in [on : BOOLEAN, cancel : SUBSET Agent, wait : SUBSET Agent, drain : BOOLEAN]
    BY <2>1 DEF TypeOK
  <2> QED BY <1>10, <2>3, <2>4 DEF CancelAllCancel, TypeOK
<1>11. CASE CancelAllWait \/ CancelAllDrain \/ CancelAllEnd
  <2>1. sweep' \in [on : BOOLEAN, cancel : SUBSET Agent, wait : SUBSET Agent, drain : BOOLEAN]
    <3>1. CASE CancelAllWait
      <4>1. PICK a \in sweep.wait :
                \/ sweep' = [sweep EXCEPT !.wait = @ \ {a}]
                \/ sweep' = [sweep EXCEPT !.wait = @ \ {a}, !.drain = a \in owners]
        BY <3>1 DEF CancelAllWait
      <4> DEFINE d == a \in owners
      <4>2. d \in BOOLEAN
        OBVIOUS
      <4>3. \/ sweep' = [sweep EXCEPT !.wait = @ \ {a}]
            \/ sweep' = [sweep EXCEPT !.wait = @ \ {a}, !.drain = d]
        BY <4>1
      <4>4. sweep \in [on : BOOLEAN, cancel : SUBSET Agent, wait : SUBSET Agent, drain : BOOLEAN]
        BY DEF TypeOK
      <4> HIDE DEF d
      <4> QED BY <4>2, <4>3, <4>4
    <3>2. CASE CancelAllDrain
      BY <3>2 DEF CancelAllDrain, TypeOK
    <3>3. CASE CancelAllEnd
      BY <3>3 DEF CancelAllEnd, NoSweep
    <3> QED BY <1>11, <3>1, <3>2, <3>3
  <2>2. owners' \subseteq owners /\ sem' \in {sem, sem - 1} /\ (sem' # sem => sem > 0)
    BY <1>11 DEF CancelAllWait, CancelAllDrain, CancelAllEnd, Unregister, TakeOne
  <2>3. owners' \subseteq Agent /\ sem' \in 0 .. MaxConcurrent
    BY <2>2 DEF TypeOK
  <2>4. UNCHANGED <<agents, sa, pc, outcome, watchdog, reclaim, down, ghosts>>
    BY <1>11 DEF CancelAllWait, CancelAllDrain, CancelAllEnd
  <2> QED BY <2>1, <2>3, <2>4 DEF TypeOK
<1>12. ASSUME NEW stale \in SUBSET Agent, NEW pending \in SUBSET Agent,
              WatchdogTick(stale, pending)
       PROVE TypeOK'
  BY <1>12 DEF WatchdogTick, TypeOK
<1>13. CASE WatchdogCancel
  <2>1. PICK a \in watchdog.stale : /\ Cancel(a)
                                    /\ watchdog' = [watchdog EXCEPT !.stale = @ \ {a}]
                                    /\ reclaim' = [reclaim EXCEPT ![a] = "wait"]
    BY <1>13 DEF WatchdogCancel
  <2>2. a \in Agent
    BY DEF TypeOK
  <2>3. sa' \in [Agent -> SubAgent] /\ early' \subseteq Agent
    BY <2>1, <2>2, CancelEffect
  <2>4. watchdog' \in [on : BOOLEAN, stale : SUBSET Agent, pending : SUBSET Agent]
    BY <2>1 DEF TypeOK
  <2>5. reclaim' \in [Agent -> {"none", "wait", "drain"}]
    BY <2>1 DEF TypeOK
  <2> QED BY <1>13, <2>3, <2>4, <2>5 DEF WatchdogCancel, TypeOK
<1>14. CASE WatchdogFail
  <2>1. PICK a \in watchdog.pending :
            /\ watchdog' = [watchdog EXCEPT !.pending = @ \ {a}]
            /\ sa' = IF a \in agents /\ sa[a].status = "pending" /\ ~sa[a].started
                     THEN [sa EXCEPT ![a].status = "failed", ![a].done = TRUE] ELSE sa
    BY <1>14 DEF WatchdogFail
  <2>2. a \in Agent /\ sa[a] \in SubAgent
    BY DEF TypeOK
  <2>3. [sa[a] EXCEPT !.status = "failed", !.done = TRUE] \in SubAgent
    BY <2>2 DEF SubAgent, Status
  <2>4. sa' \in [Agent -> SubAgent]
    BY <2>1, <2>2, <2>3 DEF TypeOK
  <2>5. watchdog' \in [on : BOOLEAN, stale : SUBSET Agent, pending : SUBSET Agent]
    BY <2>1 DEF TypeOK
  <2> QED BY <1>14, <2>4, <2>5 DEF WatchdogFail, TypeOK
<1>15. CASE WatchdogPurge
  BY <1>15 DEF WatchdogPurge, NoRound, TypeOK
<1>16. CASE Shutdown
  BY <1>16 DEF Shutdown, TypeOK
<1>17. CASE UNCHANGED vars
  BY <1>17 DEF vars, TypeOK
<1> QED BY <1>1, <1>2, <1>3, <1>4, <1>5, <1>6, <1>7, <1>8, <1>9, <1>10, <1>11, <1>12,
           <1>13, <1>14, <1>15, <1>16, <1>17
        DEF Next, Go, CancelAll, Reap

-----------------------------------------------------------------------------
(* What no step does to an agent: end it twice, or close an open question *)

Stays(b) ==
    Terminal(b) /\ pc[b] # "none" =>
        /\ sa'[b].status = sa[b].status
        /\ sa[b].result => sa'[b].result

Open(b) == sa[b].status = "pending" => ~sa[b].done

\* Every action either leaves an agent alone or changes it as Complete, Cancel and
\* SetCancel may; a pending agent stays open until one of them takes it.
LEMMA AgentStep ==
    ASSUME TypeOK, [Next]_vars, NEW b \in Agent
    PROVE  Stays(b) /\ (Open(b) => Open(b)')
<1> USE DEF slotVars, endVars, ghosts
<1>0. sa[b] \in SubAgent
  BY DEF TypeOK
<1>1. ASSUME sa'[b] = sa[b] PROVE Stays(b) /\ (Open(b) => Open(b)')
  BY <1>1 DEF Stays, Open
<1>2. ASSUME NEW a \in Agent, Spawn(a) PROVE Stays(b) /\ (Open(b) => Open(b)')
  <2>1. CASE a = b
    <3>1. sa'[b] = Spawned \/ sa'[b] = Rejected
      BY <1>2, <2>1 DEF Spawn, TypeOK
    <3>2. Spawned.done = FALSE /\ Rejected.status = "failed"
      BY DEF Spawned, Rejected
    <3>3. Open(b)'
      BY <3>1, <3>2 DEF Open
    <3>4. Stays(b)
      BY <1>2, <2>1 DEF Stays, Spawn
    <3> QED BY <3>3, <3>4
  <2>2. CASE a # b
    BY <1>1, <1>2, <2>2 DEF Spawn, TypeOK
  <2> QED BY <2>1, <2>2
<1>3. ASSUME NEW a \in Agent, NEW text \in BOOLEAN, NEW err \in BOOLEAN, Complete(a, text, err)
      PROVE  Stays(b) /\ (Open(b) => Open(b)')
  <2>1. CASE a = b /\ a \in agents
    BY <1>3, <2>1, CompleteEffect DEF Stays, Open
  <2>2. CASE a # b \/ a \notin agents
    BY <1>1, <1>3, <2>2, CompleteEffect
  <2> QED BY <2>1, <2>2
<1>4. ASSUME NEW a \in Agent, Cancel(a) PROVE Stays(b) /\ (Open(b) => Open(b)')
  <2>1. CASE a = b /\ a \in agents /\ ~Terminal(a)
    BY <1>4, <2>1, CancelEffect DEF Stays, Open
  <2>2. CASE a # b \/ a \notin agents \/ Terminal(a)
    BY <1>1, <1>4, <2>2, CancelEffect
  <2> QED BY <2>1, <2>2
<1>5. ASSUME NEW a \in Agent, SetCancel(a) PROVE Stays(b) /\ (Open(b) => Open(b)')
  <2>1. CASE a = b /\ a \in agents /\ ~Terminal(a)
    <3>1. sa'[b] = [sa[b] EXCEPT !.status = "running"]
      BY <1>5, <2>1 DEF SetCancel, TypeOK
    <3>2. sa'[b].status = "running"
      BY <1>0, <3>1 DEF SubAgent
    <3> QED BY <2>1, <3>2 DEF Stays, Open
  <2>2. CASE a # b \/ a \notin agents \/ Terminal(a)
    BY <1>1, <1>5, <2>2 DEF SetCancel, TypeOK
  <2> QED BY <2>1, <2>2
<1>6. ASSUME NEW a \in Agent, MarkStarted(a) \/ Event(a)
      PROVE  Stays(b) /\ (Open(b) => Open(b)')
  <2>1. \/ sa'[b] = sa[b]
        \/ sa'[b] = [sa[b] EXCEPT !.started = TRUE]
        \/ sa'[b] = [sa[b] EXCEPT !.tool = ~sa[b].tool]
    <3>1. CASE MarkStarted(a)
      BY <3>1 DEF MarkStarted, TypeOK
    <3>2. CASE Event(a)
      BY <3>2 DEF Event, TypeOK
    <3> QED BY <1>6, <3>1, <3>2
  <2>2. sa'[b].status = sa[b].status /\ sa'[b].done = sa[b].done /\ sa'[b].result = sa[b].result
    BY <1>0, <2>1 DEF SubAgent
  <2> QED BY <2>2 DEF Stays, Open
<1>7. CASE WatchdogFail
  <2>1. PICK a \in watchdog.pending :
            sa' = IF a \in agents /\ sa[a].status = "pending" /\ ~sa[a].started
                  THEN [sa EXCEPT ![a].status = "failed", ![a].done = TRUE] ELSE sa
    BY <1>7 DEF WatchdogFail
  <2>2. CASE a = b /\ sa' # sa
    <3>1. sa[b].status = "pending" /\ sa'[b] = [sa[b] EXCEPT !.status = "failed", !.done = TRUE]
      BY <2>1, <2>2 DEF TypeOK
    <3>2. sa'[b].status = "failed"
      BY <1>0, <3>1 DEF SubAgent
    <3> QED BY <3>1, <3>2 DEF Stays, Open, Terminal
  <2>3. CASE a # b \/ sa' = sa
    BY <1>1, <2>1, <2>3 DEF TypeOK
  <2> QED BY <2>2, <2>3
<1>8. CASE UNCHANGED sa
  BY <1>1, <1>8
<1>9. ASSUME NEW a \in Agent, Finish(a) PROVE Stays(b) /\ (Open(b) => Open(b)')
  <2>1. outcome[a] \in BOOLEAN
    BY DEF TypeOK
  <2> QED BY <1>3, <1>9, <2>1 DEF Finish
<1>10. ASSUME NEW a \in Agent, AcquireFails(a) PROVE Stays(b) /\ (Open(b) => Open(b)')
  BY <1>3, <1>10 DEF AcquireFails
<1>11. CASE CancelAllCancel
  BY <1>4, <1>11 DEF CancelAllCancel, TypeOK
<1>12. CASE WatchdogCancel
  BY <1>4, <1>12 DEF WatchdogCancel, TypeOK
<1>13. ASSUME NEW a \in Agent, UserCancel(a) PROVE Stays(b) /\ (Open(b) => Open(b)')
  BY <1>4, <1>13 DEF UserCancel
<1>14. ASSUME NEW a \in Agent,
              \/ StartRun(a) \/ Acquire(a) \/ Register(a) \/ Hang(a) \/ Return(a)
              \/ Release(a) \/ Drain(a) \/ Reclaim(a)
       PROVE  UNCHANGED sa
  BY <1>14 DEF StartRun, Acquire, Register, Hang, Return, Release, Drain, Reclaim,
               ReclaimWait, ReclaimDrain
<1>15. CASE \/ CancelAllStart \/ CancelAllWait \/ CancelAllDrain \/ CancelAllEnd
            \/ WatchdogPurge \/ Shutdown \/ UNCHANGED vars
            \/ \E stale, pending \in SUBSET Agent : WatchdogTick(stale, pending)
  <2> UNCHANGED sa
    BY <1>15 DEF CancelAllStart, CancelAllWait, CancelAllDrain, CancelAllEnd, WatchdogPurge,
                 Shutdown, vars, WatchdogTick
  <2> QED BY <1>8
<1> QED BY <1>2, <1>5, <1>6, <1>7, <1>8, <1>9, <1>10, <1>11, <1>12, <1>13, <1>14, <1>15
        DEF Next, Go, CancelAll, Reap

\* An agent that has ended keeps the status it ended with, and no output is taken back.
THEOREM EndedAgentStays == Spec => TerminalStays
<1>1. TypeOK /\ [Next]_vars => [\A a \in Agent : Terminal(a) /\ pc[a] # "none" =>
                                   /\ sa'[a].status = sa[a].status
                                   /\ sa[a].result => sa'[a].result]_vars
  BY AgentStep DEF Stays
<1> QED BY <1>1, InitType, NextType, PTL DEF Spec, TerminalStays

\* No agent is pending with its channel closed, so the watchdog, which closes the
\* channel of an agent that never started without looking, never closes it twice.
THEOREM NeverClosedTwice == Spec => []PendingIsOpen
<1>1. Init => PendingIsOpen
  BY DEF Init, PendingIsOpen, Spawned
<1>2. TypeOK /\ PendingIsOpen /\ [Next]_vars => PendingIsOpen'
  BY AgentStep DEF PendingIsOpen, Open
<1> QED BY <1>1, <1>2, InitType, NextType, PTL DEF Spec

-----------------------------------------------------------------------------
(* The slots *)

LEMMA RoundShrinks ==
    ASSUME TypeOK, WatchdogFail \/ WatchdogPurge
    PROVE  watchdog'.stale \subseteq watchdog.stale /\ agents' \subseteq agents
<1>1. CASE WatchdogFail
  BY <1>1 DEF WatchdogFail, TypeOK
<1>2. CASE WatchdogPurge
  BY <1>2 DEF WatchdogPurge, NoRound
<1> QED BY <1>1, <1>2

LEMMA NextUnborn == TypeOK /\ Unborn /\ [Next]_vars => Unborn'
<1> SUFFICES ASSUME TypeOK, Unborn, [Next]_vars, NEW b \in Agent, pc'[b] = "none"
             PROVE  b \notin agents' /\ b \notin watchdog'.stale /\ reclaim'[b] = "none"
  BY DEF Unborn
<1> USE DEF slotVars, endVars, ghosts
<1>1. ASSUME pc[b] = "none", agents' \subseteq agents \/ (\E a \in Agent : Spawn(a)),
             watchdog'.stale \subseteq watchdog.stale, UNCHANGED reclaim
      PROVE  b \notin agents' /\ b \notin watchdog'.stale /\ reclaim'[b] = "none"
  BY <1>1 DEF Unborn, Spawn, Goto, TypeOK
<1>2. ASSUME NEW a \in Agent,
             \/ Spawn(a) \/ StartRun(a) \/ Go(a) \/ Event(a) \/ Hang(a) \/ Return(a)
             \/ UserCancel(a)
      PROVE  UNCHANGED <<watchdog, reclaim>> /\ (agents' = agents \/ Spawn(a))
  BY <1>2 DEF Spawn, StartRun, Go, Acquire, AcquireFails, Register, SetCancel, MarkStarted,
              Event, Hang, Return, Finish, Release, Drain, UserCancel
<1>3. ASSUME NEW a \in Agent,
             \/ Spawn(a) \/ StartRun(a) \/ Go(a) \/ Event(a) \/ Hang(a) \/ Return(a)
             \/ UserCancel(a)
      PROVE  pc[b] = "none"
  <2>1. pc' = pc \/ \E l \in PC \ {"none"} : Goto(a, l)
    BY <1>3 DEF Spawn, StartRun, Go, Acquire, AcquireFails, Register, SetCancel, MarkStarted,
                Event, Hang, Return, Finish, Release, Drain, UserCancel, PC
  <2> QED BY <2>1 DEF Goto, TypeOK
<1>4. ASSUME NEW a \in Agent, Reclaim(a)
      PROVE  b \notin agents' /\ b \notin watchdog'.stale /\ reclaim'[b] = "none"
  <2>1. pc' = pc /\ agents' = agents /\ watchdog' = watchdog /\ reclaim[a] # "none"
    BY <1>4 DEF Reclaim, ReclaimWait, ReclaimDrain
  <2>2. a # b /\ reclaim'[b] = reclaim[b]
    BY <1>4, <2>1 DEF Unborn, Reclaim, ReclaimWait, ReclaimDrain, TypeOK
  <2> QED BY <2>1, <2>2 DEF Unborn
<1>5. CASE CancelAllStart \/ CancelAll \/ Shutdown \/ WatchdogFail \/ WatchdogPurge
           \/ UNCHANGED vars
  <2>1. UNCHANGED <<pc, reclaim>> /\ agents' \subseteq agents
    BY <1>5 DEF CancelAllStart, CancelAll, CancelAllCancel, CancelAllWait, CancelAllDrain,
                CancelAllEnd, Shutdown, WatchdogFail, WatchdogPurge, vars
  <2>2. watchdog'.stale \subseteq watchdog.stale
    BY <1>5, RoundShrinks
       DEF CancelAllStart, CancelAll, CancelAllCancel, CancelAllWait, CancelAllDrain,
           CancelAllEnd, Shutdown, vars
  <2> QED BY <1>1, <2>1, <2>2
<1>6. ASSUME NEW stale \in SUBSET Agent, NEW pending \in SUBSET Agent,
             WatchdogTick(stale, pending)
      PROVE  b \notin agents' /\ b \notin watchdog'.stale /\ reclaim'[b] = "none"
  BY <1>6 DEF WatchdogTick, Reapable, Unborn
<1>7. CASE WatchdogCancel
  <2>1. PICK a \in watchdog.stale : /\ watchdog' = [watchdog EXCEPT !.stale = @ \ {a}]
                                    /\ reclaim' = [reclaim EXCEPT ![a] = "wait"]
    BY <1>7 DEF WatchdogCancel
  <2>2. pc' = pc /\ agents' = agents
    BY <1>7 DEF WatchdogCancel
  <2> QED BY <2>1, <2>2 DEF Unborn, TypeOK
<1> QED BY <1>1, <1>2, <1>3, <1>4, <1>5, <1>6, <1>7 DEF Next, Reap

LEMMA NextSlot == TypeOK /\ Unborn /\ SlotInv /\ [Next]_vars => SlotInv'
<1> SUFFICES ASSUME TypeOK, Unborn, SlotInv, [Next]_vars PROVE SlotInv'
  OBVIOUS
<1> USE DEF slotVars, endVars, ghosts
<1>1. \A b \in owners' : pc'[b] \in Holds
  <2> SUFFICES ASSUME NEW b \in owners' PROVE pc'[b] \in Holds
    OBVIOUS
  <2> \A a \in owners : pc[a] \in Holds
    BY DEF SlotInv, Holds
  <2> owners \subseteq Agent
    BY DEF TypeOK
  <2>1. ASSUME NEW a \in Agent, Spawn(a) \/ StartRun(a) \/ Acquire(a) \/ AcquireFails(a) \/ Drain(a)
        PROVE  pc'[b] \in Holds
    <3>1. owners' = owners /\ a \notin owners
      BY <2>1 DEF Spawn, StartRun, Acquire, AcquireFails, Drain, Holds
    <3> QED BY <2>1, <3>1 DEF Spawn, StartRun, Acquire, AcquireFails, Drain, Goto, TypeOK
  <2>2. ASSUME NEW a \in Agent, Register(a) PROVE pc'[b] \in Holds
    BY <2>2 DEF Register, Goto, Holds, TypeOK
  <2>3. ASSUME NEW a \in Agent, SetCancel(a) \/ MarkStarted(a) \/ Hang(a) \/ Return(a) \/ Finish(a)
        PROVE  pc'[b] \in Holds
    <3>1. owners' = owners /\ \E l \in Holds : Goto(a, l)
      BY <2>3 DEF SetCancel, MarkStarted, Hang, Return, Finish, Holds
    <3> QED BY <3>1 DEF Goto, TypeOK
  <2>4. ASSUME NEW a \in Agent, Release(a) PROVE pc'[b] \in Holds
    BY <2>4 DEF Release, Goto, TypeOK
  <2>5. ASSUME UNCHANGED pc, owners' \subseteq owners PROVE pc'[b] \in Holds
    BY <2>5
  <2>6. ASSUME NEW a \in Agent, Event(a) \/ UserCancel(a) \/ Reclaim(a)
        PROVE  UNCHANGED pc /\ owners' \subseteq owners
    BY <2>6 DEF Event, UserCancel, Reclaim, ReclaimWait, ReclaimDrain, Unregister
  <2>7. CASE \/ CancelAllStart \/ CancelAll \/ Reap \/ Shutdown \/ UNCHANGED vars
             \/ \E stale, pending \in SUBSET Agent : WatchdogTick(stale, pending)
    <3> UNCHANGED pc /\ owners' \subseteq owners
      BY <2>7 DEF CancelAllStart, CancelAll, CancelAllCancel, CancelAllWait, CancelAllDrain,
                  CancelAllEnd, Reap, WatchdogCancel, WatchdogFail, WatchdogPurge, Shutdown,
                  WatchdogTick, Unregister, vars
    <3> QED BY <2>5
  <2> QED BY <2>1, <2>2, <2>3, <2>4, <2>5, <2>6, <2>7 DEF Next, Go
<1>2. sweep'.drain => sweep'.on
  <2>1. CASE CancelAllStart
    BY <2>1 DEF CancelAllStart
  <2>2. CASE CancelAllCancel \/ CancelAllWait
    BY <2>2 DEF CancelAllCancel, CancelAllWait, TypeOK
  <2>3. CASE CancelAllDrain \/ CancelAllEnd
    BY <2>3 DEF CancelAllDrain, CancelAllEnd, NoSweep, TypeOK
  <2>4. CASE sweep' = sweep
    BY <2>4 DEF SlotInv
  <2>5. ASSUME NEW a \in Agent,
               \/ Spawn(a) \/ StartRun(a) \/ Go(a) \/ Event(a) \/ Hang(a) \/ Return(a)
               \/ UserCancel(a) \/ Reclaim(a)
        PROVE  sweep' = sweep
    BY <2>5 DEF Spawn, StartRun, Go, Acquire, AcquireFails, Register, SetCancel, MarkStarted,
                Event, Hang, Return, Finish, Release, Drain, UserCancel, Reclaim, ReclaimWait,
                ReclaimDrain
  <2>6. CASE \/ Reap \/ Shutdown \/ UNCHANGED vars
             \/ \E stale, pending \in SUBSET Agent : WatchdogTick(stale, pending)
    <3> sweep' = sweep
      BY <2>6 DEF Reap, WatchdogCancel, WatchdogFail, WatchdogPurge, Shutdown, WatchdogTick, vars
    <3> QED BY <2>4
  <2> QED BY <2>1, <2>2, <2>3, <2>4, <2>5, <2>6 DEF Next, CancelAll
<1>3. \A b \in Agent : reclaim'[b] # "none" =>
          b \notin watchdog'.stale /\ (b \notin agents' \/ Terminal(b)')
  <2> SUFFICES ASSUME NEW b \in Agent, reclaim'[b] # "none"
               PROVE  b \notin watchdog'.stale /\ (b \notin agents' \/ Terminal(b)')
    OBVIOUS
  <2>1. reclaim[b] # "none" =>
            pc[b] # "none" /\ b \notin watchdog.stale /\ (b \notin agents \/ Terminal(b))
    BY DEF SlotInv, Unborn
  <2>2. Terminal(b) /\ pc[b] # "none" => Terminal(b)'
    BY AgentStep DEF Stays, Terminal
  <2>3. ASSUME NEW a \in Agent, Spawn(a)
        PROVE  b \notin watchdog'.stale /\ (b \notin agents' \/ Terminal(b)')
    BY <2>1, <2>2, <2>3 DEF Spawn
  <2>4. ASSUME agents' \subseteq agents, watchdog'.stale \subseteq watchdog.stale,
               reclaim[b] # "none"
        PROVE  b \notin watchdog'.stale /\ (b \notin agents' \/ Terminal(b)')
    BY <2>1, <2>2, <2>4
  <2>5. ASSUME NEW a \in Agent,
               StartRun(a) \/ Go(a) \/ Event(a) \/ Hang(a) \/ Return(a) \/ UserCancel(a)
        PROVE  UNCHANGED <<agents, watchdog, reclaim>>
    BY <2>5 DEF StartRun, Go, Acquire, AcquireFails, Register, SetCancel, MarkStarted,
                Event, Hang, Return, Finish, Release, Drain, UserCancel
  <2>6. ASSUME NEW a \in Agent, Reclaim(a)
        PROVE  UNCHANGED <<agents, watchdog>> /\ reclaim[b] # "none"
    BY <2>6 DEF Reclaim, ReclaimWait, ReclaimDrain, TypeOK
  <2>7. CASE CancelAllStart \/ CancelAll \/ Shutdown \/ UNCHANGED vars
    <3> UNCHANGED <<agents, watchdog, reclaim>>
      BY <2>7 DEF CancelAllStart, CancelAll, CancelAllCancel, CancelAllWait, CancelAllDrain,
                  CancelAllEnd, Shutdown, vars
    <3> QED BY <2>4
  <2>8. ASSUME NEW stale \in SUBSET Agent, NEW pending \in SUBSET Agent,
               WatchdogTick(stale, pending)
        PROVE  b \notin watchdog'.stale /\ (b \notin agents' \/ Terminal(b)')
    BY <2>1, <2>2, <2>8 DEF WatchdogTick, Reapable, Terminal
  <2>9. CASE WatchdogFail \/ WatchdogPurge
    <3> /\ agents' \subseteq agents /\ UNCHANGED reclaim
        /\ watchdog'.stale \subseteq watchdog.stale
      BY <2>9, RoundShrinks DEF WatchdogFail, WatchdogPurge
    <3> QED BY <2>4
  <2>10. CASE WatchdogCancel
    <3>1. PICK a \in watchdog.stale : /\ Cancel(a)
                                      /\ watchdog' = [watchdog EXCEPT !.stale = @ \ {a}]
                                      /\ reclaim' = [reclaim EXCEPT ![a] = "wait"]
      BY <2>10 DEF WatchdogCancel
    <3>2. a \in Agent /\ agents' = agents /\ watchdog'.stale = watchdog.stale \ {a}
      BY <2>10, <3>1 DEF WatchdogCancel, TypeOK
    <3>3. CASE a = b
      BY <3>1, <3>2, <3>3, CancelEffect DEF Terminal
    <3>4. CASE a # b
      BY <2>4, <3>1, <3>2, <3>4 DEF TypeOK
    <3> QED BY <3>3, <3>4
  <2> QED BY <2>3, <2>4, <2>5, <2>6, <2>7, <2>8, <2>9, <2>10 DEF Next, Reap
<1> QED BY <1>1, <1>2, <1>3 DEF SlotInv, Holds

LEMMA Sized ==
    ASSUME NEW S \in SUBSET Agent
    PROVE  IsFiniteSet(S) /\ Cardinality(S) \in Nat
BY SubAgentsAssumption, FS_Subset, FS_CardinalityType

LEMMA OneMore ==
    ASSUME NEW S \in SUBSET Agent, NEW x \in Agent \ S
    PROVE  Cardinality(S \cup {x}) = Cardinality(S) + 1
BY Sized, FS_AddElement

LEMMA OneLess ==
    ASSUME NEW S \in SUBSET Agent, NEW x \in S
    PROVE  Cardinality(S \ {x}) = Cardinality(S) - 1
BY Sized, FS_RemoveElement

LEMMA NextCount == TypeOK /\ SlotInv /\ Count /\ [Next]_vars => Count'
<1> SUFFICES ASSUME TypeOK, SlotInv, Count, [Next]_vars PROVE Count'
  OBVIOUS
<1> USE DEF slotVars, endVars, ghosts
<1>1. owners \subseteq Agent /\ Passing \subseteq Agent /\ Reclaiming \subseteq Agent
  BY DEF TypeOK, Passing, Reclaiming
<1>2. /\ sem \in Nat
      /\ Cardinality(owners) \in Nat /\ Cardinality(Passing) \in Nat /\ Cardinality(Reclaiming) \in Nat
  BY <1>1, Sized DEF TypeOK
<1>3. ASSUME UNCHANGED <<sem, owners, reclaim>>, sweep'.drain = sweep.drain, Passing' = Passing
      PROVE  Count'
  BY <1>3 DEF Count, Reclaiming
<1>4. ASSUME NEW a \in Agent, pc[a] \notin {"register", "drain"},
             NEW l \in PC \ {"register", "drain"}, Goto(a, l)
      PROVE  Passing' = Passing
  BY <1>4 DEF Passing, Goto, TypeOK
<1>5. ASSUME NEW a \in Agent,
             \/ Spawn(a) \/ StartRun(a) \/ AcquireFails(a) \/ SetCancel(a) \/ MarkStarted(a)
             \/ Hang(a) \/ Return(a) \/ Finish(a)
      PROVE  Count'
  <2>1. /\ UNCHANGED <<sem, owners, reclaim, sweep>>
        /\ pc[a] \notin {"register", "drain"}
        /\ \E l \in PC \ {"register", "drain"} : Goto(a, l)
    BY <1>5 DEF Spawn, StartRun, AcquireFails, SetCancel, MarkStarted, Hang, Return, Finish, PC
  <2> QED BY <1>3, <1>4, <2>1
<1>6. ASSUME NEW a \in Agent, Event(a) \/ UserCancel(a) PROVE Count'
  BY <1>3, <1>6 DEF Event, UserCancel, Passing
<1>7. CASE \/ CancelAllStart \/ CancelAllCancel \/ CancelAllEnd \/ WatchdogFail \/ WatchdogPurge
           \/ Shutdown \/ UNCHANGED vars
           \/ \E stale, pending \in SUBSET Agent : WatchdogTick(stale, pending)
  <2>1. UNCHANGED <<sem, owners, reclaim, pc>>
    BY <1>7 DEF CancelAllStart, CancelAllCancel, CancelAllEnd, WatchdogFail, WatchdogPurge,
                Shutdown, WatchdogTick, vars
  <2>2. sweep'.drain = sweep.drain
    <3>1. CASE CancelAllStart
      BY <3>1 DEF CancelAllStart, SlotInv, TypeOK
    <3>2. CASE CancelAllCancel
      BY <3>2 DEF CancelAllCancel, TypeOK
    <3>3. CASE CancelAllEnd
      BY <3>3 DEF CancelAllEnd, NoSweep, TypeOK
    <3> QED BY <1>7, <3>1, <3>2, <3>3
            DEF WatchdogFail, WatchdogPurge, Shutdown, WatchdogTick, vars
  <2> QED BY <1>3, <2>1, <2>2 DEF Passing
<1>8. ASSUME NEW a \in Agent, Acquire(a) PROVE Count'
  <2>1. a \notin Passing /\ Passing' = Passing \cup {a}
    BY <1>8 DEF Acquire, Goto, Passing, TypeOK
  <2>2. Cardinality(Passing') = Cardinality(Passing) + 1
    BY <1>1, <2>1, OneMore
  <2>3. sem' = sem + 1 /\ UNCHANGED <<owners, reclaim, sweep>>
    BY <1>8 DEF Acquire
  <2> QED BY <1>2, <2>2, <2>3 DEF Count, Reclaiming
<1>9. ASSUME NEW a \in Agent, Register(a) PROVE Count'
  <2>1. a \in Passing /\ Passing' = Passing \ {a}
    BY <1>9 DEF Register, Goto, Passing, TypeOK
  <2>2. a \notin owners /\ owners' = owners \cup {a}
    BY <1>9 DEF Register, SlotInv, Holds
  <2>3. /\ Cardinality(Passing') = Cardinality(Passing) - 1
        /\ Cardinality(owners') = Cardinality(owners) + 1
    BY <1>1, <2>1, <2>2, OneMore, OneLess
  <2>4. UNCHANGED <<sem, reclaim, sweep>>
    BY <1>9 DEF Register
  <2> QED BY <1>2, <2>3, <2>4 DEF Count, Reclaiming
<1>10. ASSUME NEW a \in Agent, Release(a) PROVE Count'
  <2>1. a \notin Passing /\ UNCHANGED <<sem, reclaim, sweep>>
    BY <1>10 DEF Release, Passing
  <2>2. CASE a \in owners
    <3>1. Passing' = Passing \cup {a} /\ owners' = owners \ {a}
      BY <1>10, <2>2 DEF Release, Goto, Passing, TypeOK
    <3>2. /\ Cardinality(Passing') = Cardinality(Passing) + 1
          /\ Cardinality(owners') = Cardinality(owners) - 1
      BY <1>1, <2>1, <2>2, <3>1, OneMore, OneLess
    <3> QED BY <1>2, <2>1, <3>2 DEF Count, Reclaiming
  <2>3. CASE a \notin owners
    <3>1. Passing' = Passing /\ owners' = owners
      BY <1>10, <2>3 DEF Release, Goto, Passing, TypeOK
    <3> QED BY <1>3, <2>1, <3>1
  <2> QED BY <2>2, <2>3
<1>11. ASSUME NEW a \in Agent, Drain(a) PROVE Count'
  <2>1. a \in Passing /\ Passing' = Passing \ {a}
    BY <1>11 DEF Drain, Goto, Passing, TypeOK
  <2>2. Cardinality(Passing') = Cardinality(Passing) - 1
    BY <1>1, <2>1, OneLess
  <2>3. sem' = sem - 1 /\ UNCHANGED <<owners, reclaim, sweep>>
    BY <1>11 DEF Drain
  <2> QED BY <1>2, <2>2, <2>3 DEF Count, Reclaiming
<1>12. CASE CancelAllWait
  <2>1. /\ UNCHANGED <<sem, reclaim, pc>> /\ ~sweep.drain
        /\ \E a \in sweep.wait :
              \/ sweep' = [sweep EXCEPT !.wait = @ \ {a}] /\ UNCHANGED owners
              \/ sweep' = [sweep EXCEPT !.wait = @ \ {a}, !.drain = a \in owners] /\ Unregister(a)
    BY <1>12 DEF CancelAllWait
  <2>2. PICK a \in sweep.wait :
              \/ sweep' = [sweep EXCEPT !.wait = @ \ {a}] /\ UNCHANGED owners
              \/ sweep' = [sweep EXCEPT !.wait = @ \ {a}, !.drain = a \in owners] /\ Unregister(a)
    BY <2>1
  <2>3. CASE UNCHANGED owners /\ ~sweep'.drain
    BY <1>2, <2>1, <2>3 DEF Count, Reclaiming, Passing
  <2>4. CASE a \in owners /\ owners' = owners \ {a} /\ sweep'.drain
    <3>1. Cardinality(owners') = Cardinality(owners) - 1
      BY <1>1, <2>4, OneLess
    <3> QED BY <1>2, <2>1, <2>4, <3>1 DEF Count, Reclaiming, Passing
  <2>5. \/ UNCHANGED owners /\ ~sweep'.drain
        \/ a \in owners /\ owners' = owners \ {a} /\ sweep'.drain
    <3>1. CASE a \in owners
      BY <2>1, <2>2, <3>1 DEF Unregister, TypeOK
    <3>2. CASE a \notin owners
      <4>1. UNCHANGED owners
        BY <2>2, <3>2 DEF Unregister
      <4>2. ~sweep'.drain
        BY <2>1, <2>2, <3>2 DEF TypeOK
      <4> QED BY <4>1, <4>2
    <3> QED BY <3>1, <3>2
  <2> QED BY <2>3, <2>4, <2>5
<1>13. CASE CancelAllDrain
  <2>1. sweep.drain /\ ~sweep'.drain
    BY <1>13 DEF CancelAllDrain, TypeOK
  <2>2. sem > 0
    BY <1>2, <2>1 DEF Count
  <2>3. sem' = sem - 1 /\ UNCHANGED <<owners, pc, reclaim>>
    BY <1>13, <2>2 DEF CancelAllDrain, TakeOne
  <2> QED BY <1>2, <2>1, <2>3 DEF Count, Passing, Reclaiming
<1>14. CASE WatchdogCancel
  <2>1. PICK a \in watchdog.stale : reclaim' = [reclaim EXCEPT ![a] = "wait"]
    BY <1>14 DEF WatchdogCancel
  <2>2. a \in Agent /\ reclaim[a] = "none"
    BY DEF SlotInv, TypeOK
  <2>3. Reclaiming' = Reclaiming
    BY <2>1, <2>2 DEF Reclaiming, TypeOK
  <2>4. UNCHANGED <<sem, owners, pc, sweep>>
    BY <1>14 DEF WatchdogCancel
  <2> QED BY <2>3, <2>4 DEF Count, Passing
<1>15. ASSUME NEW a \in Agent, ReclaimWait(a) PROVE Count'
  <2>1. UNCHANGED <<sem, pc, sweep>> /\ a \notin Reclaiming
    BY <1>15 DEF ReclaimWait, Reclaiming
  <2>2. CASE UNCHANGED owners /\ Reclaiming' = Reclaiming
    BY <2>1, <2>2 DEF Count, Passing
  <2>3. CASE a \in owners /\ owners' = owners \ {a} /\ Reclaiming' = Reclaiming \cup {a}
    <3>1. /\ Cardinality(owners') = Cardinality(owners) - 1
          /\ Cardinality(Reclaiming') = Cardinality(Reclaiming) + 1
      BY <1>1, <2>1, <2>3, OneMore, OneLess
    <3> QED BY <1>2, <2>1, <3>1 DEF Count, Passing
  <2>4. \/ UNCHANGED owners /\ Reclaiming' = Reclaiming
        \/ a \in owners /\ owners' = owners \ {a} /\ Reclaiming' = Reclaiming \cup {a}
    <3>1. CASE a \in owners
      BY <1>15, <3>1 DEF ReclaimWait, Unregister, Reclaiming, TypeOK
    <3>2. CASE a \notin owners
      BY <1>15, <3>2 DEF ReclaimWait, Unregister, Reclaiming, TypeOK
    <3> QED BY <3>1, <3>2
  <2> QED BY <2>2, <2>3, <2>4
<1>16. ASSUME NEW a \in Agent, ReclaimDrain(a) PROVE Count'
  <2>1. a \in Reclaiming /\ Reclaiming' = Reclaiming \ {a}
    BY <1>16 DEF ReclaimDrain, Reclaiming, TypeOK
  <2>2. Cardinality(Reclaiming') = Cardinality(Reclaiming) - 1
    BY <1>1, <2>1, OneLess
  <2>3. Cardinality(Reclaiming') \in Nat
    BY <1>1, <2>1, Sized
  <2>4. sem > 0
    BY <1>2, <2>2, <2>3 DEF Count
  <2>5. sem' = sem - 1 /\ UNCHANGED <<owners, pc, sweep>>
    BY <1>16, <2>4 DEF ReclaimDrain, TakeOne
  <2> QED BY <1>2, <2>2, <2>5 DEF Count, Passing
<1> QED BY <1>5, <1>6, <1>7, <1>8, <1>9, <1>10, <1>11, <1>12, <1>13, <1>14, <1>15, <1>16
        DEF Next, Go, CancelAll, Reap, Reclaim

LEMMA InitSlots == Init => Unborn /\ SlotInv /\ Count
<1> SUFFICES ASSUME Init PROVE Unborn /\ SlotInv /\ Count
  OBVIOUS
<1>1. watchdog.stale = {} /\ sweep.on = FALSE /\ sweep.drain = FALSE
  BY DEF Init, NoRound, NoSweep
<1>2. owners = {} /\ Passing = {} /\ Reclaiming = {} /\ sem = 0
  BY DEF Init, Passing, Reclaiming
<1>3. Count
  BY <1>1, <1>2, FS_EmptySet DEF Count
<1> QED BY <1>1, <1>2, <1>3 DEF Init, Unborn, SlotInv

\* However an agent ends - by itself, cancelled, reaped by the watchdog or overtaken by
\* the timer of CancelAll - its element of the semaphore channel is taken out exactly
\* once: releaseSlot finds one there, and no slot is lost for good.
THEOREM SlotsNeverLeak == Spec => []SlotsAccounted
<1>1. Init => TypeOK /\ Unborn /\ SlotInv /\ Count
  BY InitType, InitSlots
<1>2. TypeOK /\ Unborn /\ SlotInv /\ Count /\ [Next]_vars
        => (TypeOK /\ Unborn /\ SlotInv /\ Count)'
  BY NextType, NextUnborn, NextSlot, NextCount
<1>3. TypeOK /\ Count => SlotsAccounted
  BY DEF SlotsAccounted, Count, Passing, Reclaiming
<1> QED BY <1>1, <1>2, <1>3, PTL DEF Spec

-----------------------------------------------------------------------------
(* The delivery *)

LEMMA InitDelivery == Init => DeliveryInv
<1>1. Spawned.status = "pending" /\ Spawned.done = FALSE /\ Spawned.result = FALSE
  BY DEF Spawned
<1> QED BY <1>1 DEF Init, DeliveryInv, PendingIsOpen, Good, Before, Kept, Delivered, Producing, Ending

LEMMA NextDelivery == TypeOK /\ Unborn /\ DeliveryInv /\ [Next]_vars => DeliveryInv'
<1> SUFFICES ASSUME TypeOK, Unborn, DeliveryInv, [Next]_vars, NEW b \in Agent PROVE Good(b)'
  BY AgentStep DEF DeliveryInv, PendingIsOpen, Open, Good
<1> USE DEF slotVars, endVars, ghosts
<1>0. /\ Good(b) /\ Open(b) /\ sa[b] \in SubAgent /\ outcome[b] \in BOOLEAN
      /\ completed[b] \in 0 .. 2 /\ early \subseteq Agent
  BY DEF DeliveryInv, PendingIsOpen, Good, Open, TypeOK
<1>1. ASSUME sa'[b] = sa[b], pc'[b] = pc[b], outcome'[b] = outcome[b],
             completed'[b] = completed[b], early \subseteq early',
             b \in agents => b \in agents' \/ sa[b].done
      PROVE  Good(b)'
  BY <1>0, <1>1 DEF Good, Before, Kept, Delivered, Producing, Ending
<1>2. ASSUME NEW a \in Agent, Spawn(a) PROVE Good(b)'
  <2>1. CASE a = b
    <3>1. sa'[b] = Spawned \/ sa'[b] = Rejected
      BY <1>2, <2>1 DEF Spawn, TypeOK
    <3>2. sa'[b].result = FALSE /\ sa'[b].status # "running"
      <4>1. Spawned.status = "pending" /\ Spawned.result = FALSE
        BY DEF Spawned
      <4>2. Rejected.status = "failed" /\ Rejected.result = FALSE
        BY DEF Spawned, Rejected
      <4> QED BY <3>1, <4>1, <4>2
    <3>3. pc[b] = "none" /\ pc'[b] = "new" /\ UNCHANGED <<outcome, completed, early>>
      BY <1>2, <2>1 DEF Spawn, Goto, TypeOK
    <3> QED BY <1>0, <3>2, <3>3 DEF Good, Before, Kept, Delivered, Producing, Ending
  <2>2. CASE a # b
    BY <1>1, <1>2, <2>2 DEF Spawn, Goto, TypeOK
  <2> QED BY <2>1, <2>2
<1>3. ASSUME NEW a \in Agent, StartRun(a) \/ Acquire(a) \/ Register(a) \/ Release(a) \/ Drain(a)
      PROVE  Good(b)'
  <2>1. UNCHANGED <<agents, sa, outcome, completed, early>>
    BY <1>3 DEF StartRun, Acquire, Register, Release, Drain
  <2>2. CASE a = b
    <3>1. \/ /\ pc[b] \in {"new", "acquire", "register"}
             /\ pc'[b] \in {"acquire", "register", "setup"}
          \/ pc[b] \in {"release", "drain"} /\ pc'[b] \in {"drain", "ended"}
      BY <1>3, <2>2 DEF StartRun, Acquire, Register, Release, Drain, Goto, TypeOK
    <3> QED BY <1>0, <2>1, <3>1 DEF Good, Before, Kept, Delivered, Producing, Ending
  <2>3. CASE a # b
    BY <1>1, <1>3, <2>1, <2>3
       DEF StartRun, Acquire, Register, Release, Drain, Goto, TypeOK
  <2> QED BY <2>2, <2>3
<1>4. ASSUME NEW a \in Agent, AcquireFails(a) PROVE Good(b)'
  <2>1. CASE a = b
    <3>1. /\ pc[b] = "acquire" /\ pc'[b] = "ended" /\ Complete(b, FALSE, TRUE)
          /\ UNCHANGED <<agents, outcome, early>>
      BY <1>4, <2>1 DEF AcquireFails, Goto, TypeOK
    <3>2. completed[b] = 0 /\ ~outcome[b]
      BY <1>0, <3>1 DEF Good, Before, Ending
    <3>3. completed'[b] \in {0, 1} /\ sa'[b].status \in {sa[b].status, "completed", "failed", "cancelled"}
      BY <3>1, <3>2, CompleteEffect
    <3> QED BY <3>1, <3>2, <3>3, <1>0 DEF Good, Before, Kept, Delivered, Producing, Ending
  <2>2. CASE a # b
    <3>1. Complete(a, FALSE, TRUE) /\ UNCHANGED <<agents, outcome, early>>
      BY <1>4 DEF AcquireFails
    <3>2. sa'[b] = sa[b] /\ completed'[b] = completed[b]
      BY <2>2, <3>1, CompleteEffect
    <3>3. pc'[b] = pc[b]
      BY <1>4, <2>2 DEF AcquireFails, Goto, TypeOK
    <3> QED BY <1>1, <3>1, <3>2, <3>3
  <2> QED BY <2>1, <2>2
<1>5. ASSUME NEW a \in Agent, SetCancel(a) PROVE Good(b)'
  <2>1. UNCHANGED <<agents, outcome, completed, early>>
    BY <1>5 DEF SetCancel
  <2>2. CASE a = b /\ (b \notin agents \/ Terminal(b))
    <3>1. pc[b] = "setup" /\ pc'[b] = "finish" /\ sa' = sa
      BY <1>5, <2>2 DEF SetCancel, Goto, TypeOK
    <3> QED BY <1>0, <2>1, <3>1 DEF Good, Before, Kept, Delivered, Producing, Ending
  <2>3. CASE a = b /\ b \in agents /\ ~Terminal(b)
    <3>1. pc[b] = "setup" /\ pc'[b] = "mark" /\ sa'[b] = [sa[b] EXCEPT !.status = "running"]
      BY <1>5, <2>3 DEF SetCancel, Goto, TypeOK
    <3>2. /\ sa'[b].status = "running" /\ sa'[b].done = sa[b].done
          /\ sa'[b].result = sa[b].result
      BY <1>0, <3>1 DEF SubAgent
    <3>3. sa[b].status = "pending"
      BY <1>0, <2>3, <3>1, Fields DEF Good, Before, Terminal, Status
    <3>4. ~sa[b].done
      BY <1>0, <3>3 DEF Open
    <3> QED BY <1>0, <2>1, <2>3, <3>1, <3>2, <3>4
            DEF Good, Before, Kept, Delivered, Producing, Ending
  <2>4. CASE a # b
    BY <1>1, <1>5, <2>1, <2>4 DEF SetCancel, Goto, TypeOK
  <2> QED BY <2>2, <2>3, <2>4
<1>6. ASSUME NEW a \in Agent, MarkStarted(a) PROVE Good(b)'
  <2>1. UNCHANGED <<agents, outcome, completed, early>>
    BY <1>6 DEF MarkStarted
  <2>2. CASE a = b
    <3>1. /\ pc[b] = "mark" /\ pc'[b] = "run"
          /\ sa'[b] = IF b \in agents THEN [sa[b] EXCEPT !.started = TRUE] ELSE sa[b]
      BY <1>6, <2>2 DEF MarkStarted, Goto, TypeOK
    <3>2. /\ sa'[b].status = sa[b].status /\ sa'[b].done = sa[b].done
          /\ sa'[b].result = sa[b].result /\ (b \in agents => sa'[b].started)
      BY <1>0, <3>1 DEF SubAgent
    <3> QED BY <1>0, <2>1, <3>1, <3>2 DEF Good, Before, Kept, Delivered, Producing, Ending
  <2>3. CASE a # b
    BY <1>1, <1>6, <2>1, <2>3 DEF MarkStarted, Goto, TypeOK
  <2> QED BY <2>2, <2>3
<1>7. ASSUME NEW a \in Agent, Event(a) PROVE Good(b)'
  <2>1. UNCHANGED <<agents, pc, outcome, completed, early>>
    BY <1>7 DEF Event
  <2>2. CASE a = b
    <3>1. sa'[b] = [sa[b] EXCEPT !.tool = ~sa[b].tool]
      BY <1>7, <2>2 DEF Event, TypeOK
    <3>2. /\ sa'[b].status = sa[b].status /\ sa'[b].done = sa[b].done
          /\ sa'[b].result = sa[b].result /\ sa'[b].started = sa[b].started
      BY <1>0, <3>1 DEF SubAgent
    <3> QED BY <1>0, <2>1, <3>2 DEF Good, Before, Kept, Delivered, Producing, Ending
  <2>3. CASE a # b
    BY <1>1, <1>7, <2>1, <2>3 DEF Event, TypeOK
  <2> QED BY <2>2, <2>3
<1>8. ASSUME NEW a \in Agent, Hang(a) \/ Return(a) PROVE Good(b)'
  <2>1. UNCHANGED <<agents, sa, completed, early>>
    BY <1>8 DEF Hang, Return
  <2>2. CASE a = b
    <3>1. \/ pc[b] = "run" /\ pc'[b] = "stuck" /\ outcome' = outcome
          \/ pc[b] \in {"run", "stuck"} /\ pc'[b] = "finish"
      BY <1>8, <2>2 DEF Hang, Return, Goto, TypeOK
    <3> QED BY <1>0, <2>1, <3>1 DEF Good, Before, Kept, Delivered, Producing, Ending
  <2>3. CASE a # b
    <3>1. outcome'[b] = outcome[b] /\ pc'[b] = pc[b]
      BY <1>8, <2>3 DEF Hang, Return, Goto, TypeOK
    <3> QED BY <1>1, <2>1, <3>1
  <2> QED BY <2>2, <2>3
<1>9. ASSUME NEW a \in Agent, Finish(a) PROVE Good(b)'
  <2>1. PICK err \in BOOLEAN : Complete(a, outcome[a], err)
    BY <1>9 DEF Finish
  <2>2. UNCHANGED <<agents, outcome, early>> /\ outcome[a] \in BOOLEAN
    BY <1>9 DEF Finish, TypeOK
  <2>3. CASE a = b
    <3>1. pc[b] = "finish" /\ pc'[b] = "release"
      BY <1>9, <2>3 DEF Finish, Goto, TypeOK
    <3>2. completed[b] = 0 /\ ~sa[b].result
      BY <1>0, <3>1 DEF Good, Before, Ending
    <3>3. outcome[b] => b \in early \/ b \in agents
      BY <1>0, <3>1 DEF Good, Kept, Producing
    <3>4. /\ completed'[b] \in {0, 1}
          /\ b \in agents /\ outcome[b] => completed'[b] = 1 /\ sa'[b].result
      BY <2>1, <2>2, <2>3, <3>2, CompleteEffect
    <3> QED BY <2>2, <3>1, <3>3, <3>4 DEF Good, Before, Kept, Delivered, Producing, Ending
  <2>4. CASE a # b
    <3>1. sa'[b] = sa[b] /\ completed'[b] = completed[b]
      BY <2>1, <2>2, <2>4, CompleteEffect
    <3> QED BY <1>1, <1>9, <2>2, <2>4, <3>1 DEF Finish, Goto, TypeOK
  <2> QED BY <2>3, <2>4
<1>10. ASSUME NEW a \in Agent, Cancel(a), UNCHANGED <<agents, pc, outcome, completed>>
       PROVE  Good(b)'
  <2>1. early \subseteq early'
    BY <1>10, CancelEffect
  <2>2. CASE a = b /\ b \in agents
    <3>1. /\ sa'[b].status \in {"completed", "failed", "cancelled"}
          /\ sa'[b].result = sa[b].result /\ sa'[b].started = sa[b].started
          /\ sa[b].started => sa'[b].done = sa[b].done
          /\ pc[b] = "mark" => b \in early' \/ sa' = sa
      BY <1>10, <2>2, CancelEffect
    <3>2. Before(b)'
      BY <1>0, <1>10, <3>1 DEF Good, Before, Ending
    <3>3. Kept(b)'
      BY <1>0, <1>10, <2>1, <2>2, <3>1 DEF Good, Kept, Producing
    <3>4. Delivered(b)'
      BY <1>0, <1>10, <2>1, <3>1 DEF Good, Delivered, Ending
    <3> QED BY <3>2, <3>3, <3>4 DEF Good
  <2>3. CASE a # b \/ b \notin agents
    <3>1. sa'[b] = sa[b]
      BY <1>10, <2>3, CancelEffect
    <3> QED BY <1>1, <1>10, <2>1, <3>1
  <2> QED BY <2>2, <2>3
<1>11. CASE WatchdogFail
  <2>1. PICK a \in watchdog.pending :
            sa' = IF a \in agents /\ sa[a].status = "pending" /\ ~sa[a].started
                  THEN [sa EXCEPT ![a].status = "failed", ![a].done = TRUE] ELSE sa
    BY <1>11 DEF WatchdogFail
  <2>2. UNCHANGED <<agents, pc, outcome, completed, early>>
    BY <1>11 DEF WatchdogFail
  <2>3. CASE a = b /\ sa' # sa
    <3>1. sa[b].status = "pending" /\ sa'[b] = [sa[b] EXCEPT !.status = "failed", !.done = TRUE]
      BY <2>1, <2>3 DEF TypeOK
    <3>2. /\ sa'[b].status = "failed" /\ sa'[b].result = sa[b].result
          /\ sa'[b].started = sa[b].started
      BY <1>0, <3>1 DEF SubAgent
    <3> QED BY <1>0, <2>2, <3>1, <3>2 DEF Good, Before, Kept, Delivered, Producing, Ending
  <2>4. CASE a # b \/ sa' = sa
    BY <1>1, <2>1, <2>2, <2>4 DEF TypeOK
  <2> QED BY <2>3, <2>4
<1>12. CASE WatchdogPurge
  BY <1>1, <1>12 DEF WatchdogPurge, Purgeable
<1>13. CASE CancelAllCancel
  BY <1>10, <1>13 DEF CancelAllCancel, TypeOK
<1>14. CASE WatchdogCancel
  BY <1>10, <1>14 DEF WatchdogCancel, TypeOK
<1>15. ASSUME NEW a \in Agent, UserCancel(a) PROVE Good(b)'
  BY <1>10, <1>15 DEF UserCancel
<1>16. ASSUME NEW a \in Agent, Reclaim(a)
       PROVE  UNCHANGED <<agents, sa, pc, outcome, completed, early>>
  BY <1>16 DEF Reclaim, ReclaimWait, ReclaimDrain
<1>17. CASE \/ CancelAllStart \/ CancelAllWait \/ CancelAllDrain \/ CancelAllEnd
            \/ Shutdown \/ UNCHANGED vars
            \/ \E stale, pending \in SUBSET Agent : WatchdogTick(stale, pending)
  <2> UNCHANGED <<agents, sa, pc, outcome, completed, early>>
    BY <1>17 DEF CancelAllStart, CancelAllWait, CancelAllDrain, CancelAllEnd, Shutdown, vars,
                 WatchdogTick
  <2> QED BY <1>1
<1> QED BY <1>1, <1>2, <1>3, <1>4, <1>5, <1>6, <1>7, <1>8, <1>9, <1>11, <1>12, <1>13, <1>14,
           <1>15, <1>16, <1>17
        DEF Next, Go, CancelAll, Reap

\* However an agent is cancelled, reaped, failed or purged while its run goes on,
\* onComplete is called at most once for it, and exactly once, with the output, if its
\* run produced any (unless it was cancelled just before goroutineStarted was set).
THEOREM OutputDeliveredOnce == Spec => []DeliveredOnce
<1>1. Init => TypeOK /\ Unborn /\ DeliveryInv
  BY InitType, InitSlots, InitDelivery
<1>2. TypeOK /\ Unborn /\ DeliveryInv /\ [Next]_vars => (TypeOK /\ Unborn /\ DeliveryInv)'
  BY NextType, NextUnborn, NextDelivery
<1>3. DeliveryInv => DeliveredOnce
  BY DEF DeliveryInv, Good, Delivered, DeliveredOnce, Ending
<1> QED BY <1>1, <1>2, <1>3, PTL DEF Spec
=============================================================================
