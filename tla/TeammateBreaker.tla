-------------------------- MODULE TeammateBreaker --------------------------
(***************************************************************************)
(* The circuit breaker that bars a failing teammate from claiming          *)
(* (internal/swarm/teammate_breaker.go), with the goroutines that use it.  *)
(*                                                                         *)
(* The breakers are a package variable keyed by the teammate's id, and     *)
(* every swarm.Manager numbers its teammates from one: when a process      *)
(* replaces its manager (the desktop bridge does), the old and the new     *)
(* teammate of one id share a breaker.  Runner is the set of the loops     *)
(* that ever share this one: the second starts when a manager is replaced. *)
(***************************************************************************)
EXTENDS Naturals

CONSTANTS
    Runner,
    teammateBreakerThreshold,
    teammateBreakerCooldown      \* in ticks of the clock

ASSUME BreakerAssumption ==
    /\ teammateBreakerThreshold \in Nat \ {0}
    /\ teammateBreakerCooldown \in Nat \ {0}

VARIABLES
    state,
    failures,
    age,        \* time.Since(openedAt), counted up to twice the cooldown
    at,         \* where each loop is
    streak      \* history: failed runs since the last one that was not

breakerVars == <<state, failures, age, at, streak>>

-----------------------------------------------------------------------------
\* tripped, for an open circuit
CoolingDown == age < teammateBreakerCooldown

\* Mutant: a half-open circuit waits for its probe forever.
NeverExpires == FALSE

\* A half-open circuit whose probe was never recorded.
ProbeExpired == state = "half_open" /\ age >= 2 * teammateBreakerCooldown

\* The gate lets a claim through.
Passes ==
    \/ state = "closed"
    \/ state = "open" /\ ~CoolingDown

\* Mutant: the gate itself spends the probe.
GateTakesProbe(r) ==
    /\ at[r] = "idle"
    /\ Passes
    /\ at' = [at EXCEPT ![r] = "list"]
    /\ state' = IF state = "open" THEN "half_open" ELSE state
    /\ age' = IF state = "open" THEN 0 ELSE age
    /\ UNCHANGED <<failures, streak>>

\* Mutant: nobody asks the gate.
GateForgotten(r) ==
    /\ at[r] = "idle"
    /\ at' = [at EXCEPT ![r] = "list"]
    /\ UNCHANGED <<state, failures, age, streak>>

\* tryClaimPendingTask passes teammateClaimAllowed and looks for a task.
Gate(r) ==
    /\ at[r] = "idle"
    /\ Passes
    /\ at' = [at EXCEPT ![r] = "list"]
    /\ UNCHANGED <<state, failures, age, streak>>

\* It is barred, and finds that the probe is lost: a new cooldown begins.
Expire(r) ==
    /\ at[r] = "idle"
    /\ ProbeExpired
    /\ state' = "open"
    /\ age' = 0
    /\ UNCHANGED <<failures, at, streak>>

\* No task to claim, or the claims lost.
FindNothing(r) ==
    /\ at[r] = "list"
    /\ at' = [at EXCEPT ![r] = "idle"]
    /\ UNCHANGED <<state, failures, age, streak>>

ClaimTask(r) ==
    /\ at[r] = "list"
    /\ at' = [at EXCEPT ![r] = "claimed"]
    /\ UNCHANGED <<state, failures, age, streak>>

\* teammateConsumeProbe, after the claim: the loop goes on whatever it says.
ConsumeProbe(r) ==
    /\ at[r] = "claimed"
    /\ at' = [at EXCEPT ![r] = "run"]
    /\ IF state = "open" /\ ~CoolingDown
         THEN state' = "half_open" /\ age' = 0
         ELSE UNCHANGED <<state, age>>
    /\ UNCHANGED <<failures, streak>>

\* A mail is run whether or not the circuit is open.
TakeMail(r) ==
    /\ at[r] = "idle"
    /\ at' = [at EXCEPT ![r] = "run"]
    /\ UNCHANGED <<state, failures, age, streak>>

\* Mutant: a success leaves the failures that were counted.
StreakNotReset(failed) ==
    /\ state' = IF ~failed THEN "closed"
                ELSE IF state = "half_open" \/ failures + 1 >= teammateBreakerThreshold THEN "open"
                ELSE state
    /\ failures' = IF failed /\ state = "closed" THEN failures + 1 ELSE failures
    /\ age' = IF failed /\ state' = "open" /\ state # "open" THEN 0 ELSE age

\* record: in every state a success closes the circuit and forgets the
\* failures; a failure counts when it is closed, opens it again when it is
\* half-open, and changes nothing when it is open.
record(failed) ==
    LET opens == /\ failed
                 /\ \/ state = "half_open"
                    \/ state = "closed" /\ failures + 1 >= teammateBreakerThreshold
    IN  /\ state' = IF ~failed THEN "closed" ELSE IF opens THEN "open" ELSE state
        /\ failures' = IF ~failed THEN 0
                       ELSE IF state = "closed" THEN failures + 1 ELSE failures
        /\ age' = IF opens THEN 0 ELSE age

\* The end of executeTask.
Record(r, failed) ==
    /\ at[r] = "run"
    /\ record(failed)
    /\ streak' = IF ~failed THEN 0
                 ELSE IF streak < teammateBreakerThreshold THEN streak + 1 ELSE streak
    /\ at' = [at EXCEPT ![r] = "idle"]

\* A cancelled run counts as one that did not fail, and its loop ends.
RecordCancelled(r) ==
    /\ at[r] = "run"
    /\ record(FALSE)
    /\ streak' = 0
    /\ at' = [at EXCEPT ![r] = "gone"]

\* The loop ends without a record: a panic in a callback or in the agent, or
\* a cancellation between two runs.
Vanish(r) ==
    /\ at[r] \in {"idle", "claimed", "run"}
    /\ at' = [at EXCEPT ![r] = "gone"]
    /\ UNCHANGED <<state, failures, age, streak>>

Tick ==
    /\ age < 2 * teammateBreakerCooldown
    /\ age' = age + 1
    /\ UNCHANGED <<state, failures, at, streak>>

\* SpawnTeammate starts the loop: of the first manager, or of one that has
\* replaced it while the old loop may still be running.
Join(r) ==
    /\ at[r] = "unborn"
    /\ at' = [at EXCEPT ![r] = "idle"]
    /\ UNCHANGED <<state, failures, age, streak>>

BreakerInit ==
    /\ state = "closed"
    /\ failures = 0
    /\ age = 2 * teammateBreakerCooldown    \* openedAt is the zero time
    /\ at = [r \in Runner |-> "unborn"]
    /\ streak = 0

Polls(r) == Gate(r) \/ Expire(r)

Works(r) ==
    \/ FindNothing(r) \/ ClaimTask(r) \/ ConsumeProbe(r)
    \/ \E failed \in BOOLEAN : Record(r, failed)

BreakerNext ==
    \/ \E r \in Runner :
          Join(r) \/ Polls(r) \/ Works(r) \/ TakeMail(r) \/ RecordCancelled(r) \/ Vanish(r)
    \/ Tick

BreakerSpec == BreakerInit /\ [][BreakerNext]_breakerVars

\* The clock advances, the poll ticker fires and a run that has started ends
\* (executeTask has a timeout).
BreakerFairness == WF_breakerVars(Tick) /\ \A r \in Runner : WF_breakerVars(Polls(r)) /\ WF_breakerVars(Works(r))

FairBreakerSpec == BreakerSpec /\ BreakerFairness

-----------------------------------------------------------------------------
(* Properties *)

\* Every variable has its type, and the failures never pass the threshold.
BreakerTypeOK ==
    /\ state \in {"closed", "open", "half_open"}
    /\ failures \in 0 .. teammateBreakerThreshold
    /\ age \in 0 .. 2 * teammateBreakerCooldown
    /\ at \in [Runner -> {"unborn", "idle", "list", "claimed", "run", "gone"}]
    /\ streak \in 0 .. teammateBreakerThreshold

\* The circuit is closed exactly while fewer than the threshold of runs in a
\* row have failed: late records of runs that began before it opened, of
\* mails and of lost probes neither open it early nor close it on a failure.
OpenExactlyAfterStreak ==
    /\ state = "closed" <=> streak < teammateBreakerThreshold
    /\ state = "closed" => failures = streak

\* No second manager has started a loop that shares the breaker.
Alone == \E r \in Runner : \A q \in Runner \ {r} : at[q] = "unborn"

\* With one loop per breaker, what was claimed was claimed through a gate
\* that is still open when the claim is made.
ClaimsPassTheGate == Alone => \A r \in Runner : at[r] = "claimed" => Passes

\* With one loop per breaker, a half-open circuit has its probe running (or
\* died with its loop): a poll never finds itself barred by its own gate.
HalfOpenHasProbe ==
    Alone /\ state = "half_open" => \E r \in Runner : at[r] \in {"run", "gone"}

\* One loop alone neither claims past a gate that has closed since it asked
\* nor closes the gate on itself: asking and spending the probe may be two steps.
ProbeDiscipline == ClaimsPassTheGate /\ HalfOpenHasProbe

\* The gate is open again and again while some loop still polls: not even a
\* probe that never reports keeps a teammate barred for good.
GateReopens == []<>(Passes \/ \A r \in Runner : at[r] \in {"unborn", "gone"})

=============================================================================
