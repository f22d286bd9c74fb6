-------------------------- MODULE SwarmTeamProofs --------------------------
(***************************************************************************)
(* Teams and teammates, for any number of teams, teammates and callers: no *)
(* teammate runs on out of reach, and what the manager keeps of teams,     *)
(* teammates and results stays within its limits and agrees.  The last     *)
(* parts are about the breaker that the loops of a teammate share and the  *)
(* file a team's task board is kept in.                                    *)
(***************************************************************************)
EXTENDS SwarmTeam, TeammateBreaker, BoardPersist, FiniteSetTheorems, WellFoundedInduction, TLAPS

-----------------------------------------------------------------------------
(* The inductive invariant *)

\* A call knows the team and the teammate it works on.
CallsNamed ==
    \A c \in Caller :
        /\ call[c].op \in {"create", "spawn", "start", "delete", "shutdown", "remove"}
               => call[c].team \in Team
        /\ call[c].op \in {"spawn", "start", "shutdown", "remove"} => call[c].mate \in Mate

\* A teammate is in the team it was spawned into, or in none.
AtHome == \A team \in Team : \A m \in mates[team] : home[m] = team

\* The call that spawns a teammate.
Spawns(c, m) == call[c].op \in {"spawn", "start"} /\ call[c].mate = m

\* One call spawns a teammate, and its loop is not running before that call has started it.
SpawnedOnce ==
    \A m \in Mate :
        /\ home[m] = None => loop[m] = "none"
        /\ \A c \in Caller : Spawns(c, m) => home[m] = call[c].team /\ loop[m] = "none"
        /\ \A c, d \in Caller : Spawns(c, m) /\ Spawns(d, m) => c = d

\* The loop of m is running, ended, or about to be started.
Launched(m) ==
    loop[m] # "none" \/ \E c \in Caller : call[c].op = "start" /\ call[c].mate = m

\* From the moment it is in the team's map, before its loop has even started, a teammate
\* that no one has cancelled is in a team the manager holds.
LaunchedGoverned == \A m \in Mate : Launched(m) /\ m \notin cancelled => Governed(m)

\* A teammate is taken out of its team only after it was cancelled.
RemovedCancelled == \A c \in Caller : call[c].op = "remove" => call[c].mate \in cancelled

\* Every cancelled teammate, not only one whose loop has ended, shows as shutting down; one
\* that is about to show itself as idle nevertheless was cancelled in between.
CancelledShows ==
    \A m \in cancelled :
        /\ status[m] = "shutting_down" \/ <<m, "status">> \in raced
        /\ loop[m] = "settle" => <<m, "status">> \in raced

\* Whoever is about to store a result was in a team then: that team is still held, or its
\* deletion is the race.
StoreGoverned ==
    \A m \in Mate :
        loop[m] = "store" /\ m \in mates[home[m]] =>
            home[m] \in teams \/ <<m, "result">> \in raced

\* Every result is that of a teammate that was spawned.
ResultsHomed == \A m \in results : home[m] \in Team

Inv ==
    /\ TypeOK /\ CallsNamed /\ AtHome /\ SpawnedOnce
    /\ LaunchedGoverned /\ RemovedCancelled
    /\ TeamsBounded /\ ResultsEvictable
    /\ CancelledShows /\ StoreGoverned /\ DeletedTeamHasNoResults /\ ResultsHomed

-----------------------------------------------------------------------------
(* Types *)

LEMMA SweepType ==
    ASSUME TypeOK, NEW ms, ms \subseteq Mate, Sweep(ms)
    PROVE  cancelled' \subseteq Mate /\ status' \in [Mate -> TeammateStatus]
BY DEF TypeOK, Sweep, TeammateStatus

LEMMA RacedType ==
    ASSUME NEW ms, ms \subseteq Mate
    PROVE  /\ BetweenStatus(ms) \subseteq Mate \X {"status", "result"}
           /\ BetweenResult(ms) \subseteq Mate \X {"status", "result"}
BY DEF BetweenStatus, BetweenResult

LEMMA NoCallType == NoCall \in Call
BY DEF NoCall, Call, CallOp

LEMMA BeginType ==
    ASSUME TypeOK, NEW c \in Caller, NEW k \in Call, Begin(c, k)
    PROVE  call' \in [Caller -> Call]
BY DEF TypeOK, Begin

LEMMA ReturnType ==
    ASSUME TypeOK, NEW c \in Caller, Return(c)
    PROVE  call' \in [Caller -> Call]
BY NoCallType DEF TypeOK, Return

LEMMA RequestType ==
    ASSUME TypeOK, NEW c \in Caller, Request(c)
    PROVE  TypeOK'
<1>1. ASSUME NEW team \in Team, CreateTeam(c, team)
      PROVE  TypeOK'
  <2>1. [NoCall EXCEPT !.op = "create", !.team = team] \in Call
    BY DEF NoCall, Call, CallOp
  <2>2. call' \in [Caller -> Call]
    BY <1>1, <2>1, BeginType DEF CreateTeam
  <2> QED
    BY <1>1, <2>2 DEF TypeOK, CreateTeam, mateVars, resultVars
<1>2. ASSUME NEW team \in Team, DeleteTeam(c, team)
      PROVE  TypeOK'
  <2>1. [NoCall EXCEPT !.op = "delete", !.team = team] \in Call
    BY DEF NoCall, Call, CallOp
  <2>2. call' \in [Caller -> Call]
    BY <1>2, <2>1, BeginType DEF DeleteTeam
  <2>3. mates[team] \subseteq Mate
    BY DEF TypeOK
  <2>4. cancelled' \subseteq Mate /\ status' \in [Mate -> TeammateStatus]
    BY <1>2, <2>3, SweepType DEF DeleteTeam
  <2>5. raced' \subseteq Mate \X {"status", "result"}
    BY <1>2, <2>3, RacedType DEF DeleteTeam, TypeOK
  <2> QED
    BY <1>2, <2>2, <2>4, <2>5 DEF TypeOK, DeleteTeam, teamVars
<1>3. ASSUME NEW team \in Team, NEW m \in Mate, SpawnTeammate(c, team, m)
      PROVE  TypeOK'
  <2>1. [NoCall EXCEPT !.op = "spawn", !.team = team, !.mate = m] \in Call
    BY DEF NoCall, Call, CallOp
  <2>2. call' \in [Caller -> Call]
    BY <1>3, <2>1, BeginType DEF SpawnTeammate
  <2> QED
    BY <1>3, <2>2 DEF TypeOK, SpawnTeammate, mateVars, resultVars
<1>4. ASSUME NEW team \in Team, NEW m \in Mate, ShutdownTeammate(c, team, m)
      PROVE  TypeOK'
  <2>1. [NoCall EXCEPT !.op = "shutdown", !.team = team, !.mate = m] \in Call
    BY DEF NoCall, Call, CallOp
  <2>2. call' \in [Caller -> Call]
    BY <1>4, <2>1, BeginType DEF ShutdownTeammate
  <2> QED
    BY <1>4, <2>2 DEF TypeOK, ShutdownTeammate, teamVars, mateVars, resultVars
<1>5. CASE CancelAll(c)
  <2>1. [NoCall EXCEPT !.op = "cancel", !.rest = teams] \in Call
    BY DEF NoCall, Call, CallOp, TypeOK
  <2>2. call' \in [Caller -> Call]
    BY <1>5, <2>1, BeginType DEF CancelAll
  <2> QED
    BY <1>5, <2>2 DEF TypeOK, CancelAll, teamVars, mateVars, resultVars
<1> QED
  BY <1>1, <1>2, <1>3, <1>4, <1>5 DEF Request

LEMMA ProceedType ==
    ASSUME TypeOK, CallsNamed, NEW c \in Caller, Proceed(c)
    PROVE  TypeOK'
<1>1. CASE PutTeam(c)
  <2>1. call[c].team \in Team
    BY <1>1 DEF PutTeam, CallsNamed
  <2> QED
    BY <1>1, <2>1, ReturnType DEF TypeOK, PutTeam, mateVars, resultVars
<1>2. CASE Enlist(c)
  <2>1. call[c].team \in Team /\ call[c].mate \in Mate
    BY <1>2 DEF Enlist, CallsNamed
  <2>2. mates' \in [Team -> SUBSET Mate]
    BY <1>2, <2>1 DEF Enlist, TypeOK
  <2>3. call' \in [Caller -> Call]
    <3>1. CASE Return(c)
      BY <3>1, ReturnType
    <3>2. CASE call' = [call EXCEPT ![c].op = "start"]
      BY <3>2 DEF TypeOK, Call, CallOp
    <3> QED
      BY <1>2, <3>1, <3>2 DEF Enlist
  <2> QED
    BY <1>2, <2>2, <2>3 DEF Enlist, TypeOK, mateVars, resultVars
<1>3. CASE StartLoop(c)
  <2>1. loop' \in [Mate -> Loop]
    BY <1>3 DEF StartLoop, TypeOK, Loop
  <2> QED
    BY <1>3, <2>1, ReturnType DEF TypeOK, StartLoop, teamVars, resultVars
<1>4. CASE FinishDelete(c)
  <2>1. call[c].team \in Team
    BY <1>4 DEF FinishDelete, CallsNamed
  <2>2. mates[call[c].team] \subseteq Mate
    BY <2>1 DEF TypeOK
  <2>3. cancelled' \subseteq Mate /\ status' \in [Mate -> TeammateStatus]
    BY <1>4, <2>2, SweepType DEF FinishDelete, TypeOK
  <2>4. raced' \subseteq Mate \X {"status", "result"}
    BY <1>4, <2>2, RacedType DEF FinishDelete, TypeOK
  <2>5. call' \in [Caller -> Call]
    BY <1>4, ReturnType DEF FinishDelete
  <2> QED
    BY <1>4, <2>3, <2>4, <2>5 DEF TypeOK, FinishDelete
<1>5. CASE CancelMate(c)
  <2>1. {call[c].mate} \subseteq Mate
    BY <1>5 DEF CancelMate, CallsNamed
  <2>2. cancelled' \subseteq Mate /\ status' \in [Mate -> TeammateStatus]
    BY <1>5, <2>1, SweepType DEF CancelMate
  <2>3. raced' \subseteq Mate \X {"status", "result"}
    BY <1>5, <2>1, RacedType DEF CancelMate, TypeOK
  <2>4. call' \in [Caller -> Call]
    BY <1>5 DEF CancelMate, TypeOK, Call, CallOp
  <2> QED
    BY <1>5, <2>2, <2>3, <2>4 DEF TypeOK, CancelMate, teamVars, resultVars
<1>6. CASE RemoveMate(c)
  BY <1>6, ReturnType DEF TypeOK, RemoveMate, mateVars, resultVars
<1>7. ASSUME NEW team \in Team, CancelTeam(c, team)
      PROVE  TypeOK'
  <2>1. mates[team] \subseteq Mate
    BY DEF TypeOK
  <2>2. {m \in mates[team] : status[m] # "shutting_down"} \subseteq Mate
    BY <2>1
  <2>3. cancelled' \subseteq Mate /\ status' \in [Mate -> TeammateStatus]
    BY <1>7, <2>2, SweepType DEF CancelTeam
  <2>4. raced' \subseteq Mate \X {"status", "result"}
    BY <1>7, <2>1, RacedType DEF CancelTeam, TypeOK
  <2>5. call' \in [Caller -> Call]
    BY <1>7 DEF CancelTeam, TypeOK, Call
  <2> QED
    BY <1>7, <2>3, <2>4, <2>5 DEF TypeOK, CancelTeam, teamVars, resultVars
<1>8. CASE ReturnCancelAll(c)
  BY <1>8, ReturnType DEF TypeOK, ReturnCancelAll, teamVars, mateVars, resultVars
<1> QED
  BY <1>1, <1>2, <1>3, <1>4, <1>5, <1>6, <1>7, <1>8 DEF Proceed

LEMMA ShutdownType ==
    ASSUME TypeOK, Shutdown
    PROVE  TypeOK'
<1>1. PICK ms : ms = UNION {mates[team] : team \in teams}
  OBVIOUS
<1>2. ms \subseteq Mate
  BY <1>1 DEF TypeOK
<1>3. cancelled' \subseteq Mate /\ status' \in [Mate -> TeammateStatus]
  BY <1>1, <1>2, SweepType DEF Shutdown
<1>4. raced' \subseteq Mate \X {"status", "result"}
  BY <1>1, <1>2, RacedType DEF Shutdown, TypeOK
<1> QED
  BY <1>3, <1>4 DEF TypeOK, Shutdown, teamVars, resultVars

-----------------------------------------------------------------------------
(* The results *)

\* A non-empty set of natural numbers has a least one.
LEMMA Least ==
    ASSUME NEW S \in SUBSET Nat, S # {}
    PROVE  \E n \in S : \A k \in S : n <= k
<1>1. PICK n \in S : \A k \in S : ~ (<<k, n>> \in OpToRel(<, Nat))
  BY NatLessThanWellFounded, WFMin
<1>2. \A k \in S : ~ (k < n)
  BY <1>1 DEF OpToRel
<1> QED
  BY <1>2

\* Evicting one entry drops the order up to the oldest entry that still has a result, and
\* no other result.
LEMMA EvictOne ==
    ASSUME NEW order \in Seq(Mate), NEW stored \in SUBSET Mate, stored # {},
           \A m \in stored : \E i \in 1 .. Len(order) : order[i] = m
    PROVE  /\ Evicted(order, stored, 1) \in 1 .. Len(order)
           /\ \E x \in stored : {order[j] : j \in 1 .. Evicted(order, stored, 1)} \cap stored = {x}
<1> DEFINE Upto(i) == {order[j] : j \in 1 .. i} \cap stored
           Stock(i) == Cardinality(Upto(i))
<1>1. \A i : IsFiniteSet(Upto(i))
  BY TeamAssumption, FS_Subset
<1>2. PICK i \in 1 .. Len(order) : order[i] \in stored /\ \A j \in 1 .. (i - 1) : order[j] \notin stored
  <2> DEFINE S == {i \in 1 .. Len(order) : order[i] \in stored}
  <2>1. S \in SUBSET Nat /\ S # {}
    OBVIOUS
  <2>2. PICK i \in S : \A k \in S : i <= k
    BY <2>1, Least
  <2> QED
    BY <2>2
<1>3. Upto(i) = {order[i]}
  BY <1>2
<1>4. \A j \in 1 .. (i - 1) : Upto(j) = {}
  BY <1>2
<1>5. Stock(i) = 1 /\ \A j \in 1 .. (i - 1) : Stock(j) < 1
  <2>1. Stock(i) = 1
    BY <1>3, FS_Singleton
  <2>2. \A j \in 1 .. (i - 1) : Stock(j) = 0
    BY <1>4, FS_EmptySet
  <2> QED
    BY <2>1, <2>2
<1>6. Evicted(order, stored, 1) =
          CHOOSE k \in 1 .. Len(order) : Stock(k) = 1 /\ \A j \in 1 .. (k - 1) : Stock(j) < 1
  BY DEF Evicted
<1> HIDE DEF Stock
<1>7. /\ Evicted(order, stored, 1) \in 1 .. Len(order)
      /\ Stock(Evicted(order, stored, 1)) = 1
  BY <1>5, <1>6
<1>8. \E x : Upto(Evicted(order, stored, 1)) = {x}
  BY <1>1, <1>7, FS_Singleton DEF Stock
<1> QED
  BY <1>7, <1>8

\* What storeResultLocked keeps: no more results than the limit, each in the order, none
\* but those it had and the new one.
LEMMA StoredBounded ==
    ASSUME NEW m \in Mate, TypeOK, ResultsEvictable
    PROVE  /\ Stored(m).results \subseteq results \cup {m}
           /\ Stored(m).order \in Seq(Mate)
           /\ Cardinality(Stored(m).results) <= maxStoredResults
           /\ \A x \in Stored(m).results :
                  \E i \in 1 .. Len(Stored(m).order) : Stored(m).order[i] = x
<1>1. PICK order : order = IF m \in results THEN resultsOrder ELSE Append(resultsOrder, m)
  OBVIOUS
<1>2. PICK stored : stored = results \cup {m}
  OBVIOUS
<1>3. order \in Seq(Mate) /\ stored \in SUBSET Mate /\ stored # {}
  BY <1>1, <1>2 DEF TypeOK
<1>4. \A x \in stored : \E i \in 1 .. Len(order) : order[i] = x
  <2>1. \A x \in results : \E i \in 1 .. Len(order) : order[i] = x
    BY <1>1 DEF TypeOK, ResultsEvictable
  <2>2. \E i \in 1 .. Len(order) : order[i] = m
    BY <1>1, <2>1 DEF TypeOK
  <2> QED
    BY <1>2, <2>1, <2>2
<1>5. IsFiniteSet(stored) /\ Cardinality(stored) \in Nat /\ IsFiniteSet(results) /\ Cardinality(results) \in Nat
  BY <1>2, <1>3, TeamAssumption, FS_Subset, FS_CardinalityType DEF TypeOK
<1>6. Cardinality(stored) <= maxStoredResults + 1
  BY <1>2, <1>5, FS_AddElement, TeamAssumption DEF ResultsEvictable
<1>7. CASE Cardinality(stored) <= maxStoredResults
  <2>1. Evicted(order, stored, 0) = 0
    BY DEF Evicted
  <2>2. Stored(m) = [results |-> stored \ {order[j] : j \in 1 .. 0}, order |-> SubSeq(order, 0 + 1, Len(order))]
    <3>1. (IF Cardinality(stored) > maxStoredResults
             THEN Cardinality(stored) - maxStoredResults ELSE 0) = 0
      BY <1>5, <1>7, TeamAssumption
    <3> QED
      BY <1>1, <1>2, <2>1, <3>1 DEF Stored
  <2>3. Stored(m).results = stored
    BY <2>2
  <2>4. Stored(m).order = order
    BY <1>3, <2>2
  <2> QED
    BY <1>2, <1>3, <1>4, <1>7, <2>3, <2>4
<1>8. CASE Cardinality(stored) = maxStoredResults + 1
  <2>1. PICK last : last = Evicted(order, stored, 1)
    OBVIOUS
  <2>2. last \in 1 .. Len(order)
    BY <1>3, <1>4, <2>1, EvictOne
  <2>3. PICK x \in stored : {order[j] : j \in 1 .. last} \cap stored = {x}
    BY <1>3, <1>4, <2>1, EvictOne
  <2>4. Stored(m) = [results |-> stored \ {order[j] : j \in 1 .. last}, order |-> SubSeq(order, last + 1, Len(order))]
    <3>1. (IF Cardinality(stored) > maxStoredResults
             THEN Cardinality(stored) - maxStoredResults ELSE 0) = 1
      BY <1>8, TeamAssumption
    <3> QED
      BY <1>1, <1>2, <2>1, <3>1 DEF Stored
  <2>5. Stored(m).results = stored \ {x}
    BY <2>3, <2>4
  <2>6. Cardinality(stored \ {x}) = maxStoredResults
    <3>1. Cardinality(stored \ {x}) = Cardinality(stored) - 1
      BY <1>5, <2>3, FS_RemoveElement
    <3> QED
      BY <1>8, <3>1, TeamAssumption
  <2>7. PICK rest : rest = SubSeq(order, last + 1, Len(order))
    OBVIOUS
  <2>8. rest \in Seq(Mate) /\ Len(rest) = Len(order) - last
    BY <1>3, <2>2, <2>7
  <2>9. \A i \in 1 .. Len(rest) : rest[i] = order[i + last]
    BY <1>3, <2>2, <2>7
  <2>10. ASSUME NEW y \in stored \ {x}
         PROVE  \E i \in 1 .. Len(rest) : rest[i] = y
    <3>1. PICK k \in 1 .. Len(order) : order[k] = y
      BY <1>4
    <3>2. ~ (k <= last)
      BY <2>2, <2>3, <3>1
    <3>3. k - last \in 1 .. Len(rest) /\ rest[k - last] = order[k]
      BY <1>3, <2>2, <2>8, <2>9, <3>1, <3>2
    <3> QED
      BY <3>1, <3>3
  <2>11. Stored(m).order = rest
    <3>1. PICK kept : kept = stored \ {order[j] : j \in 1 .. last}
      OBVIOUS
    <3>2. Stored(m) = [results |-> kept, order |-> rest]
      BY <2>4, <2>7, <3>1
    <3> QED
      BY <3>2
  <2>12. Cardinality(Stored(m).results) <= maxStoredResults
    BY <2>5, <2>6, TeamAssumption
  <2>13. Stored(m).results \subseteq results \cup {m}
    BY <1>2, <2>5
  <2> QED
    BY <2>5, <2>8, <2>10, <2>11, <2>12, <2>13
<1> QED
  BY <1>5, <1>6, <1>7, <1>8, TeamAssumption

-----------------------------------------------------------------------------
(* What the loop of a teammate does *)

MateStep(m) == Work(m) \/ Run(m) \/ Panic(m)

\* It moves on, from a state that is not the first one and never back to it ...
Moves(m) ==
    /\ loop[m] # "none"
    /\ loop' \in [Mate -> Loop]
    /\ \A x \in Mate \ {m} : loop'[x] = loop[x]
    /\ loop'[m] # "none"
    /\ loop'[m] = "settle" => ~Cancelled(m)
    /\ loop'[m] = "store" => Governed(m)
    /\ UNCHANGED <<teams, born, mates, home, cancelled, rootCancelled, call, raced>>

\* ... sets its status, to something else than shutting down only if it is not cancelled
\* or was about to ...
Shows(m) ==
    /\ status' \in [Mate -> TeammateStatus]
    /\ \A x \in Mate \ {m} : status'[x] = status[x]
    /\ status'[m] \in {status[m], "shutting_down"} \/ loop[m] = "settle" \/ ~Cancelled(m)

\* ... and stores a result.
Stores(m) ==
    \/ UNCHANGED resultVars
    \/ loop[m] = "store" /\ results' = Stored(m).results /\ resultsOrder' = Stored(m).order

LEMMA MateEffect ==
    ASSUME TypeOK, NEW m \in Mate, MateStep(m)
    PROVE  Moves(m) /\ Shows(m) /\ Stores(m)
<1>t. /\ loop \in [Mate -> {"none", "idle", "work", "settle", "emit", "store", "done"}]
      /\ status \in [Mate -> TeammateStatus]
  BY DEF TypeOK, Loop
<1>s. {"idle", "working", "shutting_down"} \subseteq TeammateStatus
  BY DEF TeammateStatus
<1>1. CASE Work(m)
  <2>1. Moves(m)
    BY <1>1, <1>t DEF Work, Moves, Loop, teamVars
  <2>2. Shows(m)
    BY <1>1, <1>t, <1>s DEF Work, Shows
  <2>3. Stores(m)
    BY <1>1 DEF Work, Stores
  <2> QED
    BY <2>1, <2>2, <2>3
<1>2. CASE FinishWork(m)
  <2>1. Moves(m)
    BY <1>2, <1>t DEF FinishWork, Moves, Loop, teamVars
  <2>2. Shows(m)
    BY <1>2, <1>t, <1>s DEF FinishWork, Shows
  <2>3. Stores(m)
    BY <1>2 DEF FinishWork, Stores
  <2> QED
    BY <2>1, <2>2, <2>3
<1>3. CASE Settle(m)
  <2>1. Moves(m)
    BY <1>3, <1>t DEF Settle, Moves, Loop, teamVars
  <2>2. Shows(m)
    BY <1>3, <1>t, <1>s DEF Settle, Shows
  <2>3. Stores(m)
    BY <1>3 DEF Settle, Stores
  <2> QED
    BY <2>1, <2>2, <2>3
<1>4. ASSUME NEW empty \in BOOLEAN, Emit(m, empty)
      PROVE  Moves(m) /\ Shows(m) /\ Stores(m)
  <2>1. Moves(m)
    BY <1>4, <1>t DEF Emit, Moves, Loop, teamVars
  <2>2. Shows(m)
    BY <1>4, <1>t, <1>s DEF Emit, Shows
  <2>3. Stores(m)
    BY <1>4 DEF Emit, Stores
  <2> QED
    BY <2>1, <2>2, <2>3
<1>5. CASE Store(m)
  <2>1. Moves(m)
    BY <1>5, <1>t DEF Store, Moves, Loop, teamVars
  <2>2. Shows(m)
    BY <1>5, <1>t, <1>s DEF Store, Shows
  <2>3. Stores(m)
    BY <1>5 DEF Store, Stores
  <2> QED
    BY <2>1, <2>2, <2>3
<1>6. CASE Leave(m)
  <2>1. Moves(m)
    BY <1>6, <1>t DEF Leave, Moves, Loop, teamVars
  <2>2. Shows(m)
    BY <1>6, <1>t, <1>s DEF Leave, Shows
  <2>3. Stores(m)
    BY <1>6 DEF Leave, Stores
  <2> QED
    BY <2>1, <2>2, <2>3
<1>7. CASE Panic(m)
  <2>1. Moves(m)
    BY <1>7, <1>t DEF Panic, Moves, Loop, teamVars
  <2>2. Shows(m)
    BY <1>7, <1>t, <1>s DEF Panic, Shows
  <2>3. Stores(m)
    BY <1>7 DEF Panic, Stores
  <2> QED
    BY <2>1, <2>2, <2>3
<1> QED
  BY <1>1, <1>2, <1>3, <1>4, <1>5, <1>6, <1>7 DEF MateStep, Run

LEMMA MateType ==
    ASSUME TypeOK, ResultsEvictable, NEW m \in Mate, Moves(m), Shows(m), Stores(m)
    PROVE  TypeOK'
<1>1. loop' \in [Mate -> Loop]
  BY DEF TypeOK, Moves
<1>2. results' \subseteq Mate /\ resultsOrder' \in Seq(Mate)
  <2>1. CASE UNCHANGED resultVars
    BY <2>1 DEF resultVars, TypeOK
  <2>2. CASE results' = Stored(m).results /\ resultsOrder' = Stored(m).order
    BY <2>2, StoredBounded DEF TypeOK
  <2> QED
    BY <2>1, <2>2 DEF Stores
<1>3. status' \in [Mate -> TeammateStatus]
  BY DEF Shows
<1> QED
  BY <1>1, <1>2, <1>3 DEF TypeOK, Moves

-----------------------------------------------------------------------------
(* From the spawn to the end of the loop *)

SpawnInv == CallsNamed /\ AtHome /\ SpawnedOnce /\ LaunchedGoverned /\ RemovedCancelled

LEMMA MateSpawn ==
    ASSUME TypeOK, SpawnInv, NEW m \in Mate, Moves(m)
    PROVE  SpawnInv'
<1>1. CallsNamed' /\ AtHome' /\ RemovedCancelled'
  BY DEF SpawnInv, CallsNamed, AtHome, RemovedCancelled, Moves
<1>2. \A x \in Mate : (loop'[x] = "none") = (loop[x] = "none")
  BY DEF Moves, TypeOK
<1>3. SpawnedOnce'
  BY <1>2 DEF SpawnInv, SpawnedOnce, Spawns, Moves
<1>4. LaunchedGoverned'
  BY <1>2 DEF SpawnInv, LaunchedGoverned, Launched, Governed, Moves
<1> QED
  BY <1>1, <1>3, <1>4 DEF SpawnInv

\* A step that starts and spawns nobody, takes teammates at most out of their teams, and
\* lets go only of cancelled ones.
Released ==
    /\ UNCHANGED <<home, loop>>
    /\ mates' \in [Team -> SUBSET Mate]
    /\ \A team \in Team : mates'[team] \subseteq mates[team]
    /\ cancelled \subseteq cancelled'
    /\ \A m \in Mate : Governed(m) /\ m \notin cancelled' => Governed(m)'

\* The call of c goes on to k, which spawns nobody.
Turns(c, k) ==
    /\ call' = [call EXCEPT ![c] = k]
    /\ k.op \notin {"spawn", "start"}
    /\ k.op \in {"create", "delete", "shutdown", "remove"} => k.team \in Team
    /\ k.op \in {"shutdown", "remove"} => k.mate \in Mate
    /\ k.op = "remove" => k.mate \in cancelled'

LEMMA ReleasedSpawn ==
    ASSUME TypeOK, SpawnInv, Released,
           \/ UNCHANGED call
           \/ \E c \in Caller, k \in Call : Turns(c, k)
    PROVE  SpawnInv'
<1>1. ASSUME NEW d \in Caller
      PROVE  \/ call'[d] = call[d]
             \/ /\ call'[d].op \notin {"spawn", "start"}
                /\ call'[d].op \in {"create", "delete", "shutdown", "remove"} => call'[d].team \in Team
                /\ call'[d].op \in {"shutdown", "remove"} => call'[d].mate \in Mate
                /\ call'[d].op = "remove" => call'[d].mate \in cancelled'
  <2>1. CASE UNCHANGED call
    BY <2>1
  <2>2. ASSUME NEW c \in Caller, NEW k \in Call, Turns(c, k)
        PROVE  call'[d] = IF d = c THEN k ELSE call[d]
    BY <2>2 DEF Turns, TypeOK
  <2> QED
    BY <2>1, <2>2 DEF Turns
<1>2. CallsNamed'
  BY <1>1 DEF SpawnInv, CallsNamed
<1>3. RemovedCancelled'
  BY <1>1 DEF SpawnInv, RemovedCancelled, Released
<1>4. AtHome'
  BY DEF SpawnInv, AtHome, Released
<1>5. \A d \in Caller, m \in Mate : Spawns(d, m)' => Spawns(d, m) /\ call'[d] = call[d]
  BY <1>1 DEF Spawns
<1>6. SpawnedOnce'
  BY <1>5 DEF SpawnInv, SpawnedOnce, Released
<1>7. \A m \in Mate : Launched(m)' => Launched(m)
  BY <1>1 DEF Launched, Released
<1>8. LaunchedGoverned'
  BY <1>7 DEF SpawnInv, LaunchedGoverned, Released
<1> QED
  BY <1>2, <1>3, <1>4, <1>6, <1>8 DEF SpawnInv

\* SpawnTeammate gives out an id nobody has, ...
LEMMA SpawnTeammateSpawn ==
    ASSUME TypeOK, SpawnInv, NEW c \in Caller, NEW team \in Team, NEW m \in Mate,
           SpawnTeammate(c, team, m)
    PROVE  SpawnInv'
<1>1. PICK k : k = [NoCall EXCEPT !.op = "spawn", !.team = team, !.mate = m]
  OBVIOUS
<1>2. k.op = "spawn" /\ k.team = team /\ k.mate = m
  BY <1>1 DEF NoCall
<1>3. call'[c] = k /\ \A d \in Caller \ {c} : call'[d] = call[d]
  BY <1>1 DEF SpawnTeammate, Begin, TypeOK
<1>4. call[c].op = "none"
  BY DEF SpawnTeammate, Begin, NoCall
<1>5. home[m] = None /\ home'[m] = team /\ \A x \in Mate \ {m} : home'[x] = home[x]
  BY DEF SpawnTeammate, TypeOK
<1>6. UNCHANGED <<teams, mates, status, loop, cancelled>>
  BY DEF SpawnTeammate, mateVars
<1>7. CallsNamed' /\ RemovedCancelled'
  BY <1>2, <1>3, <1>6 DEF SpawnInv, CallsNamed, RemovedCancelled
<1>8. AtHome'
  <2>1. \A t \in Team : m \notin mates[t]
    BY <1>5, TeamAssumption DEF SpawnInv, AtHome
  <2> QED
    BY <1>5, <1>6, <2>1 DEF SpawnInv, AtHome, TypeOK
<1>9. SpawnedOnce'
  <2>1. loop[m] = "none"
    BY <1>5 DEF SpawnInv, SpawnedOnce
  <2>2. \A d \in Caller : ~Spawns(d, m)
    <3>1. \A d \in Caller : Spawns(d, m) => call[d].team \in Team /\ home[m] = call[d].team
      BY DEF SpawnInv, SpawnedOnce, CallsNamed, Spawns
    <3> QED
      BY <1>5, <3>1, TeamAssumption
  <2>3. \A d \in Caller, x \in Mate :
            Spawns(d, x)' => (d = c /\ x = m) \/ (d # c /\ x # m /\ Spawns(d, x))
    <3> SUFFICES ASSUME NEW d \in Caller, NEW x \in Mate, Spawns(d, x)'
                 PROVE  (d = c /\ x = m) \/ (d # c /\ x # m /\ Spawns(d, x))
      OBVIOUS
    <3>1. CASE d = c
      BY <1>2, <1>3, <3>1 DEF Spawns
    <3>2. CASE d # c
      BY <1>3, <2>2, <3>2 DEF Spawns
    <3> QED
      BY <3>1, <3>2
  <2>4. ASSUME NEW x \in Mate
        PROVE  /\ home'[x] = None => loop'[x] = "none"
               /\ \A d \in Caller : Spawns(d, x)' => home'[x] = call'[d].team /\ loop'[x] = "none"
    BY <1>2, <1>3, <1>5, <1>6, <2>1, <2>3 DEF SpawnInv, SpawnedOnce
  <2>5. \A x \in Mate : \A d, e \in Caller : Spawns(d, x)' /\ Spawns(e, x)' => d = e
    BY <2>3 DEF SpawnInv, SpawnedOnce
  <2> QED
    BY <2>4, <2>5 DEF SpawnedOnce
<1>10. LaunchedGoverned'
  BY <1>2, <1>3, <1>6 DEF SpawnInv, LaunchedGoverned, Launched, Governed
<1> QED
  BY <1>7, <1>8, <1>9, <1>10 DEF SpawnInv

\* ... the teammate is put in a team the manager holds, or nowhere, ...
LEMMA EnlistSpawn ==
    ASSUME TypeOK, SpawnInv, NEW c \in Caller, Enlist(c)
    PROVE  SpawnInv'
<1>1. PICK m \in Mate, team \in Team : call[c].op = "spawn" /\ call[c].mate = m /\ call[c].team = team
  BY DEF Enlist, SpawnInv, CallsNamed
<1>2. UNCHANGED <<teams, home, loop, cancelled>>
  BY DEF Enlist, mateVars
<1>3. CASE Admits(team)
  <2>1. /\ team \in teams
        /\ m \in mates'[team]
        /\ mates'[team] = mates[team] \cup {m}
        /\ \A t \in Team \ {team} : mates'[t] = mates[t]
    BY <1>1, <1>3 DEF Enlist, Admits, TypeOK
  <2>2. /\ call'[c].op = "start" /\ call'[c].mate = m /\ call'[c].team = team
        /\ \A d \in Caller \ {c} : call'[d] = call[d]
    BY <1>1, <1>3 DEF Enlist, TypeOK, Call
  <2>3. CallsNamed' /\ RemovedCancelled'
    BY <1>1, <1>2, <2>2 DEF SpawnInv, CallsNamed, RemovedCancelled
  <2>4. home[m] = team
    BY <1>1 DEF SpawnInv, SpawnedOnce, Spawns
  <2>5. AtHome'
    BY <1>2, <2>1, <2>4 DEF SpawnInv, AtHome
  <2>6. \A d \in Caller, x \in Mate : Spawns(d, x)' <=> Spawns(d, x)
    BY <1>1, <2>2 DEF Spawns
  <2>7. \A d \in Caller : call'[d].team = call[d].team
    BY <1>1, <2>2
  <2>8. SpawnedOnce'
    BY <1>2, <2>6, <2>7 DEF SpawnInv, SpawnedOnce
  <2>9. Governed(m)' /\ \A x \in Mate : Governed(x) => Governed(x)'
    BY <1>2, <2>1 DEF Governed, TypeOK
  <2>10. \A x \in Mate : Launched(x)' => Launched(x) \/ x = m
    BY <1>2, <2>2 DEF Launched
  <2>11. LaunchedGoverned'
    BY <1>2, <2>9, <2>10 DEF SpawnInv, LaunchedGoverned
  <2> QED
    BY <2>3, <2>5, <2>8, <2>11 DEF SpawnInv
<1>4. CASE ~Admits(team)
  <2>1. Turns(c, NoCall)
    BY <1>1, <1>4 DEF Enlist, Return, Turns, NoCall
  <2>2. Released
    BY <1>1, <1>2, <1>4 DEF Enlist, Released, Governed, TypeOK
  <2> QED
    BY <2>1, <2>2, NoCallType, ReleasedSpawn
<1> QED
  BY <1>3, <1>4

\* ... and its loop is started, once.
LEMMA StartLoopSpawn ==
    ASSUME TypeOK, SpawnInv, NEW c \in Caller, StartLoop(c)
    PROVE  SpawnInv'
<1>1. PICK m \in Mate, team \in Team : call[c].op = "start" /\ call[c].mate = m /\ call[c].team = team
  BY DEF StartLoop, SpawnInv, CallsNamed
<1>2. UNCHANGED <<teams, mates, home, cancelled>>
  BY DEF StartLoop, teamVars
<1>3. loop'[m] = "idle" /\ \A x \in Mate \ {m} : loop'[x] = loop[x]
  BY <1>1 DEF StartLoop, TypeOK
<1>4. call'[c].op = "none" /\ \A d \in Caller \ {c} : call'[d] = call[d]
  BY DEF StartLoop, Return, NoCall, TypeOK
<1>5. CallsNamed' /\ RemovedCancelled' /\ AtHome'
  BY <1>2, <1>4 DEF SpawnInv, CallsNamed, RemovedCancelled, AtHome
<1>6. home[m] = team
  BY <1>1 DEF SpawnInv, SpawnedOnce, Spawns
<1>7. \A d \in Caller, x \in Mate : Spawns(d, x)' => d # c /\ x # m /\ Spawns(d, x)
  BY <1>1, <1>4 DEF Spawns, SpawnInv, SpawnedOnce
<1>8. SpawnedOnce'
  <2>1. \A x \in Mate : home'[x] = None => loop'[x] = "none"
    BY <1>2, <1>3, <1>6, TeamAssumption DEF SpawnInv, SpawnedOnce
  <2>2. \A x \in Mate, d \in Caller : Spawns(d, x)' => home'[x] = call'[d].team /\ loop'[x] = "none"
    BY <1>2, <1>3, <1>4, <1>7 DEF SpawnInv, SpawnedOnce
  <2>3. \A x \in Mate : \A d, e \in Caller : Spawns(d, x)' /\ Spawns(e, x)' => d = e
    BY <1>7 DEF SpawnInv, SpawnedOnce
  <2> QED
    BY <2>1, <2>2, <2>3 DEF SpawnedOnce
<1>9. \A x \in Mate : Launched(x)' => Launched(x)
  BY <1>1, <1>3, <1>4 DEF Launched
<1>10. LaunchedGoverned'
  BY <1>2, <1>9 DEF SpawnInv, LaunchedGoverned, Governed
<1> QED
  BY <1>5, <1>8, <1>10 DEF SpawnInv

-----------------------------------------------------------------------------
(* What a call does to the teammates and to their results *)

\* It cancels and marks some teammates, notes those it caught on their way to a status, and
\* brings no teammate near a status or a result.
Marks ==
    /\ \E ms \in SUBSET Mate : Sweep(ms) /\ BetweenStatus(ms) \subseteq raced'
    /\ raced \subseteq raced'
    /\ \A m \in Mate : loop'[m] \in {"settle", "store"} => loop'[m] = loop[m]

\* It forgets results at most, and a teammate that stays in a team which is taken out of the
\* map keeps none, nor stores one without being noted.
Forgets ==
    /\ results' \subseteq results /\ resultsOrder' = resultsOrder
    /\ \A m \in Mate : home[m] \in Team => home'[m] = home[m]
    /\ \A m \in Mate :
           home[m] \in Team /\ m \in mates'[home[m]] =>
               \/ home[m] \in teams'
               \/ m \in mates[home[m]] /\ home[m] \notin teams
               \/ m \notin results' /\ (loop[m] = "store" => <<m, "result">> \in raced')

LEMMA NoSweep ==
    ASSUME TypeOK, UNCHANGED <<status, cancelled>>
    PROVE  Sweep({}) /\ BetweenStatus({}) = {}
BY DEF Sweep, TypeOK, BetweenStatus

\* A step that only moves calls, or puts a team in the map.
LEMMA Quiet ==
    ASSUME TypeOK, UNCHANGED <<mates, home, status, loop, cancelled, results, resultsOrder, raced>>,
           teams \subseteq teams'
    PROVE  Released /\ Marks /\ Forgets
<1>1. Sweep({}) /\ BetweenStatus({}) = {}
  BY NoSweep
<1>2. Marks
  BY <1>1 DEF Marks
<1>3. Released
  BY DEF Released, Governed, TypeOK
<1>4. Forgets
  BY DEF Forgets
<1> QED
  BY <1>2, <1>3, <1>4

\* A step that sweeps some teammates, and takes no team out of the map.
LEMMA SweptTeams ==
    ASSUME TypeOK, NEW ms \in SUBSET Mate, Sweep(ms), raced' = raced \cup BetweenStatus(ms),
           UNCHANGED <<teams, mates, home, loop, resultsOrder>>, results' \subseteq results
    PROVE  Released /\ Marks /\ Forgets
<1>1. Marks
  BY DEF Marks
<1>2. Released
  BY DEF Released, Governed, TypeOK, Sweep
<1>3. Forgets
  BY DEF Forgets
<1> QED
  BY <1>1, <1>2, <1>3

LEMMA RequestEffect ==
    ASSUME TypeOK, SpawnInv, NEW c \in Caller, Request(c)
    PROVE  Marks /\ Forgets /\ SpawnInv'
<1>1. ASSUME NEW team \in Team, CreateTeam(c, team)
      PROVE  Marks /\ Forgets /\ SpawnInv'
  <2>1. PICK k : k = [NoCall EXCEPT !.op = "create", !.team = team]
    OBVIOUS
  <2>2. k \in Call /\ k.op = "create" /\ k.team = team
    BY <2>1 DEF NoCall, Call, CallOp
  <2>3. Turns(c, k)
    BY <1>1, <2>1, <2>2 DEF CreateTeam, Begin, Turns
  <2>4. Released /\ Marks /\ Forgets
    BY <1>1, Quiet DEF CreateTeam, mateVars, resultVars
  <2> QED
    BY <2>2, <2>3, <2>4, ReleasedSpawn
<1>2. ASSUME NEW team \in Team, DeleteTeam(c, team)
      PROVE  Marks /\ Forgets /\ SpawnInv'
  <2>1. PICK k : k = [NoCall EXCEPT !.op = "delete", !.team = team]
    OBVIOUS
  <2>2. k \in Call /\ k.op = "delete" /\ k.team = team
    BY <2>1 DEF NoCall, Call, CallOp
  <2>3. Turns(c, k)
    BY <1>2, <2>1, <2>2 DEF DeleteTeam, Begin, Turns
  <2>4. mates[team] \in SUBSET Mate
    BY DEF TypeOK
  <2>5. Released /\ Marks /\ Forgets
    BY <1>2, <2>4, SweptTeams DEF DeleteTeam, teamVars
  <2> QED
    BY <2>2, <2>3, <2>5, ReleasedSpawn
<1>3. ASSUME NEW team \in Team, NEW m \in Mate, SpawnTeammate(c, team, m)
      PROVE  Marks /\ Forgets /\ SpawnInv'
  <2>1. SpawnInv'
    BY <1>3, SpawnTeammateSpawn
  <2>2. UNCHANGED <<teams, mates, status, loop, cancelled, results, resultsOrder, raced>>
    BY <1>3 DEF SpawnTeammate, mateVars, resultVars
  <2>3. Sweep({}) /\ BetweenStatus({}) = {}
    BY <2>2, NoSweep
  <2>4. Marks
    BY <2>2, <2>3 DEF Marks
  <2>5. \A x \in Mate : home[x] \in Team => home'[x] = home[x]
    BY <1>3, TeamAssumption DEF SpawnTeammate, TypeOK
  <2>6. Forgets
    BY <2>2, <2>5 DEF Forgets
  <2> QED
    BY <2>1, <2>4, <2>6
<1>4. ASSUME NEW team \in Team, NEW m \in Mate, ShutdownTeammate(c, team, m)
      PROVE  Marks /\ Forgets /\ SpawnInv'
  <2>1. PICK k : k = [NoCall EXCEPT !.op = "shutdown", !.team = team, !.mate = m]
    OBVIOUS
  <2>2. k \in Call /\ k.op = "shutdown" /\ k.team = team /\ k.mate = m
    BY <2>1 DEF NoCall, Call, CallOp
  <2>3. Turns(c, k)
    BY <1>4, <2>1, <2>2 DEF ShutdownTeammate, Begin, Turns
  <2>4. Released /\ Marks /\ Forgets
    BY <1>4, Quiet DEF ShutdownTeammate, teamVars, mateVars, resultVars
  <2> QED
    BY <2>2, <2>3, <2>4, ReleasedSpawn
<1>5. CASE CancelAll(c)
  <2>1. PICK k : k = [NoCall EXCEPT !.op = "cancel", !.rest = teams]
    OBVIOUS
  <2>2. k \in Call /\ k.op = "cancel"
    BY <2>1 DEF NoCall, Call, CallOp, TypeOK
  <2>3. Turns(c, k)
    BY <1>5, <2>1, <2>2 DEF CancelAll, Begin, Turns
  <2>4. Released /\ Marks /\ Forgets
    BY <1>5, Quiet DEF CancelAll, teamVars, mateVars, resultVars
  <2> QED
    BY <2>2, <2>3, <2>4, ReleasedSpawn
<1> QED
  BY <1>1, <1>2, <1>3, <1>4, <1>5 DEF Request

LEMMA ProceedEffect ==
    ASSUME TypeOK, SpawnInv, NEW c \in Caller, Proceed(c)
    PROVE  Marks /\ Forgets /\ SpawnInv'
<1>r. ASSUME Return(c)
      PROVE  Turns(c, NoCall)
  BY <1>r DEF Return, Turns, NoCall
<1>1. CASE PutTeam(c)
  <2>1. Released /\ Marks /\ Forgets
    BY <1>1, Quiet DEF PutTeam, mateVars, resultVars
  <2> QED
    BY <1>1, <1>r, <2>1, NoCallType, ReleasedSpawn DEF PutTeam
<1>2. CASE Enlist(c)
  <2>1. UNCHANGED <<teams, home, status, loop, cancelled, results, resultsOrder, raced>>
    BY <1>2 DEF Enlist, mateVars, resultVars
  <2>2. Sweep({}) /\ BetweenStatus({}) = {}
    BY <2>1, NoSweep
  <2>3. Marks
    BY <2>1, <2>2 DEF Marks
  <2>4. call[c].team \in Team
    BY <1>2 DEF Enlist, SpawnInv, CallsNamed
  <2>5. \A t \in Team : t \in teams \/ mates'[t] = mates[t]
    BY <1>2, <2>4 DEF Enlist, Admits, TypeOK
  <2>6. Forgets
    BY <2>1, <2>5 DEF Forgets
  <2> QED
    BY <1>2, <2>3, <2>6, EnlistSpawn
<1>3. CASE StartLoop(c)
  <2>1. UNCHANGED <<teams, mates, home, status, cancelled, results, resultsOrder, raced>>
    BY <1>3 DEF StartLoop, teamVars, resultVars
  <2>2. Sweep({}) /\ BetweenStatus({}) = {}
    BY <2>1, NoSweep
  <2>3. \A m \in Mate : loop'[m] \in {"settle", "store"} => loop'[m] = loop[m]
    BY <1>3 DEF StartLoop, TypeOK
  <2>4. Marks
    BY <2>1, <2>2, <2>3 DEF Marks
  <2>5. Forgets
    BY <2>1 DEF Forgets
  <2> QED
    BY <1>3, <2>4, <2>5, StartLoopSpawn
<1>4. CASE FinishDelete(c)
  <2>1. PICK team \in Team : call[c].op = "delete" /\ call[c].team = team
    BY <1>4 DEF FinishDelete, SpawnInv, CallsNamed
  <2>2. Turns(c, NoCall)
    BY <1>4, <1>r DEF FinishDelete
  <2>3. CASE team \notin teams
    <3>1. Released /\ Marks /\ Forgets
      BY <1>4, <2>1, <2>3, Quiet DEF FinishDelete
    <3> QED
      BY <2>2, <3>1, NoCallType, ReleasedSpawn
  <2>4. CASE team \in teams
    <3>1. /\ Sweep(mates[team])
          /\ raced' = raced \cup BetweenStatus(mates[team]) \cup BetweenResult(mates[team])
          /\ results' = results \ mates[team]
          /\ teams' = teams \ {team}
          /\ UNCHANGED <<mates, home, loop, resultsOrder>>
      BY <1>4, <2>1, <2>4 DEF FinishDelete
    <3>2. mates[team] \in SUBSET Mate
      BY DEF TypeOK
    <3>3. Marks
      BY <3>1, <3>2 DEF Marks
    <3>4. \A m \in Mate : Governed(m) /\ m \notin cancelled' => Governed(m)'
      BY <3>1 DEF Governed, Sweep
    <3>5. Released
      BY <3>1, <3>4 DEF Released, Sweep, TypeOK
    <3>6. \A m \in mates[team] : loop[m] = "store" => <<m, "result">> \in raced'
      BY <3>1 DEF BetweenResult
    <3>7. Forgets
      BY <3>1, <3>6 DEF Forgets
    <3> QED
      BY <2>2, <3>3, <3>5, <3>7, NoCallType, ReleasedSpawn
  <2> QED
    BY <2>3, <2>4
<1>5. CASE CancelMate(c)
  <2>1. PICK m \in Mate, team \in Team :
            call[c].op = "shutdown" /\ call[c].mate = m /\ call[c].team = team
    BY <1>5 DEF CancelMate, SpawnInv, CallsNamed
  <2>2. PICK k : k = [call[c] EXCEPT !.op = "remove"]
    OBVIOUS
  <2>3. k \in Call /\ k.op = "remove" /\ k.mate = m /\ k.team = team
    BY <2>1, <2>2 DEF TypeOK, Call, CallOp
  <2>4. call' = [call EXCEPT ![c] = k]
    BY <1>5, <2>2 DEF CancelMate
  <2>5. m \in cancelled'
    BY <1>5, <2>1 DEF CancelMate, Sweep
  <2>6. Turns(c, k)
    BY <2>3, <2>4, <2>5 DEF Turns
  <2>7. Released /\ Marks /\ Forgets
    <3>1. {m} \in SUBSET Mate /\ Sweep({m}) /\ raced' = raced \cup BetweenStatus({m})
      BY <1>5, <2>1 DEF CancelMate
    <3>2. UNCHANGED <<teams, mates, home, loop, results, resultsOrder>>
      BY <1>5 DEF CancelMate, teamVars, resultVars
    <3> QED
      BY <3>1, <3>2, SweptTeams
  <2> QED
    BY <2>3, <2>6, <2>7, ReleasedSpawn
<1>6. CASE RemoveMate(c)
  <2>1. PICK m \in Mate, team \in Team :
            call[c].op = "remove" /\ call[c].mate = m /\ call[c].team = team
    BY <1>6 DEF RemoveMate, SpawnInv, CallsNamed
  <2>2. m \in cancelled
    BY <2>1 DEF SpawnInv, RemovedCancelled
  <2>3. UNCHANGED <<teams, home, status, loop, cancelled, results, resultsOrder, raced>>
    BY <1>6 DEF RemoveMate, mateVars, resultVars
  <2>4. /\ mates' \in [Team -> SUBSET Mate]
        /\ \A t \in Team : mates'[t] = IF t = team THEN mates[t] \ {m} ELSE mates[t]
    BY <1>6, <2>1 DEF RemoveMate, TypeOK
  <2>5. \A x \in Mate : Governed(x) /\ x \notin cancelled' => Governed(x)'
    BY <2>2, <2>3, <2>4 DEF Governed, TypeOK
  <2>6. Released
    BY <2>3, <2>4, <2>5 DEF Released
  <2>7. Sweep({}) /\ BetweenStatus({}) = {}
    BY <2>3, NoSweep
  <2>8. Marks
    BY <2>3, <2>7 DEF Marks
  <2>9. Forgets
    BY <2>3, <2>4 DEF Forgets
  <2> QED
    BY <1>6, <1>r, <2>6, <2>8, <2>9, NoCallType, ReleasedSpawn DEF RemoveMate
<1>7. ASSUME NEW team \in Team, CancelTeam(c, team)
      PROVE  Marks /\ Forgets /\ SpawnInv'
  <2>1. PICK k : k = [call[c] EXCEPT !.rest = @ \ {team}]
    OBVIOUS
  <2>2. k \in Call /\ k.op = "cancel"
    BY <1>7, <2>1 DEF CancelTeam, TypeOK, Call
  <2>3. call' = [call EXCEPT ![c] = k]
    BY <1>7, <2>1 DEF CancelTeam
  <2>4. Turns(c, k)
    BY <2>2, <2>3 DEF Turns
  <2>5. PICK ms : ms = {m \in mates[team] : status[m] # "shutting_down"}
    OBVIOUS
  <2>6. ms \in SUBSET Mate /\ ms \subseteq mates[team] /\ Sweep(ms)
    BY <1>7, <2>5 DEF CancelTeam, TypeOK
  <2>7. raced \subseteq raced' /\ BetweenStatus(ms) \subseteq raced'
    BY <1>7, <2>6 DEF CancelTeam, BetweenStatus
  <2>8. UNCHANGED <<teams, mates, home, loop, results, resultsOrder>>
    BY <1>7 DEF CancelTeam, teamVars, resultVars
  <2>9. Marks
    BY <2>6, <2>7, <2>8 DEF Marks
  <2>10. Released
    BY <2>6, <2>8 DEF Released, Governed, TypeOK, Sweep
  <2>11. Forgets
    BY <2>8 DEF Forgets
  <2> QED
    BY <2>2, <2>4, <2>9, <2>10, <2>11, ReleasedSpawn
<1>8. CASE ReturnCancelAll(c)
  <2>1. Released /\ Marks /\ Forgets
    BY <1>8, Quiet DEF ReturnCancelAll, teamVars, mateVars, resultVars
  <2> QED
    BY <1>8, <1>r, <2>1, NoCallType, ReleasedSpawn DEF ReturnCancelAll
<1> QED
  BY <1>1, <1>2, <1>3, <1>4, <1>5, <1>6, <1>7, <1>8 DEF Proceed

LEMMA ShutdownEffect ==
    ASSUME TypeOK, SpawnInv, Shutdown
    PROVE  Marks /\ Forgets /\ SpawnInv'
<1>1. PICK ms : ms = UNION {mates[team] : team \in teams}
  OBVIOUS
<1>2. ms \in SUBSET Mate
  BY <1>1 DEF TypeOK
<1>3. Released /\ Marks /\ Forgets
  BY <1>1, <1>2, SweptTeams DEF Shutdown, teamVars, resultVars
<1> QED
  BY <1>3, ReleasedSpawn DEF Shutdown

-----------------------------------------------------------------------------
(* Statuses, results and limits *)

LEMMA MarksShow ==
    ASSUME TypeOK, CancelledShows, Marks
    PROVE  CancelledShows'
<1>1. PICK ms \in SUBSET Mate : Sweep(ms) /\ BetweenStatus(ms) \subseteq raced'
  BY DEF Marks
<1>2. raced \subseteq raced' /\ \A m \in Mate : loop'[m] = "settle" => loop[m] = "settle"
  BY DEF Marks
<1> SUFFICES ASSUME NEW m \in cancelled'
             PROVE  /\ status'[m] = "shutting_down" \/ <<m, "status">> \in raced'
                    /\ loop'[m] = "settle" => <<m, "status">> \in raced'
  BY DEF CancelledShows
<1>3. m \in Mate
  BY <1>1 DEF Sweep, TypeOK
<1>4. CASE m \in ms
  <2>1. status'[m] = "shutting_down"
    BY <1>1, <1>4 DEF Sweep
  <2>2. loop[m] = "settle" => <<m, "status">> \in BetweenStatus(ms)
    BY <1>4 DEF BetweenStatus
  <2> QED
    BY <1>1, <1>2, <1>3, <2>1, <2>2
<1>5. CASE m \notin ms
  <2>1. m \in cancelled /\ status'[m] = status[m]
    BY <1>1, <1>3, <1>5 DEF Sweep
  <2> QED
    BY <1>2, <1>3, <2>1 DEF CancelledShows
<1> QED
  BY <1>4, <1>5

LEMMA MateShow ==
    ASSUME TypeOK, CancelledShows, NEW m \in Mate, Moves(m), Shows(m)
    PROVE  CancelledShows'
<1> SUFFICES ASSUME NEW x \in cancelled'
             PROVE  /\ status'[x] = "shutting_down" \/ <<x, "status">> \in raced'
                    /\ loop'[x] = "settle" => <<x, "status">> \in raced'
  BY DEF CancelledShows
<1>1. x \in cancelled /\ x \in Mate /\ raced' = raced
  BY DEF Moves, TypeOK
<1>2. CASE x = m
  <2>1. Cancelled(m)
    BY <1>1, <1>2 DEF Cancelled
  <2> QED
    BY <1>1, <1>2, <2>1 DEF CancelledShows, Moves, Shows
<1>3. CASE x # m
  BY <1>1, <1>3 DEF CancelledShows, Moves, Shows
<1> QED
  BY <1>2, <1>3

ResultInv == ResultsEvictable /\ StoreGoverned /\ DeletedTeamHasNoResults /\ ResultsHomed

LEMMA ForgetsResult ==
    ASSUME TypeOK, SpawnedOnce, ResultInv, Marks, Forgets
    PROVE  ResultInv'
<1>1. results' \subseteq results /\ resultsOrder' = resultsOrder
  BY DEF Forgets
<1>2. ResultsEvictable'
  <2>1. IsFiniteSet(results) /\ Cardinality(results') <= Cardinality(results)
    BY <1>1, TeamAssumption, FS_Subset DEF TypeOK
  <2>2. Cardinality(results) \in Nat /\ Cardinality(results') \in Nat
    BY <1>1, <2>1, FS_Subset, FS_CardinalityType
  <2>3. Cardinality(results') <= maxStoredResults
    BY <2>1, <2>2, TeamAssumption DEF ResultInv, ResultsEvictable
  <2> QED
    BY <1>1, <2>3 DEF ResultInv, ResultsEvictable
<1>3. raced \subseteq raced' /\ \A m \in Mate : loop'[m] = "store" => loop[m] = "store"
  BY DEF Marks
<1>4. ASSUME NEW m \in Mate, loop'[m] = "store", m \in mates'[home'[m]]
      PROVE  home'[m] \in teams' \/ <<m, "result">> \in raced'
  <2>1. loop[m] = "store"
    BY <1>3, <1>4
  <2>2. home[m] \in Team
    BY <2>1 DEF SpawnedOnce, TypeOK
  <2>3. home'[m] = home[m]
    BY <2>2 DEF Forgets
  <2>4. m \in mates[home[m]] => home[m] \in teams \/ <<m, "result">> \in raced
    BY <2>1 DEF ResultInv, StoreGoverned
  <2> QED
    BY <1>3, <1>4, <2>1, <2>2, <2>3, <2>4 DEF Forgets
<1>5. StoreGoverned'
  BY <1>4 DEF StoreGoverned
<1>6. ASSUME NEW m \in results', m \in mates'[home'[m]]
      PROVE  home'[m] \in teams' \/ <<m, "result">> \in raced'
  <2>1. m \in results /\ m \in Mate
    BY <1>1 DEF TypeOK
  <2>2. home[m] \in Team
    BY <2>1 DEF ResultInv, ResultsHomed
  <2>3. home'[m] = home[m]
    BY <2>1, <2>2 DEF Forgets
  <2>4. m \in mates[home[m]] => home[m] \in teams \/ <<m, "result">> \in raced
    BY <2>1 DEF ResultInv, DeletedTeamHasNoResults
  <2> QED
    BY <1>3, <1>6, <2>1, <2>2, <2>3, <2>4 DEF Forgets
<1>7. DeletedTeamHasNoResults'
  BY <1>6 DEF DeletedTeamHasNoResults
<1>8. ResultsHomed'
  BY <1>1 DEF ResultInv, ResultsHomed, Forgets, TypeOK
<1> QED
  BY <1>2, <1>5, <1>7, <1>8 DEF ResultInv

LEMMA MateResult ==
    ASSUME TypeOK, AtHome, SpawnedOnce, ResultInv, NEW m \in Mate, Moves(m), Stores(m)
    PROVE  ResultInv'
<1>1. UNCHANGED <<teams, mates, home, raced>> /\ \A x \in Mate \ {m} : loop'[x] = loop[x]
  BY DEF Moves
<1>2. \/ UNCHANGED <<results, resultsOrder>>
      \/ /\ loop[m] = "store" /\ results' \subseteq results \cup {m}
         /\ Cardinality(results') <= maxStoredResults
         /\ \A x \in results' : \E i \in 1 .. Len(resultsOrder') : resultsOrder'[i] = x
  BY StoredBounded DEF Stores, resultVars, ResultInv
<1>3. ResultsEvictable'
  BY <1>2 DEF ResultInv, ResultsEvictable
<1>4. StoreGoverned'
  <2> SUFFICES ASSUME NEW x \in Mate, loop'[x] = "store", x \in mates[home[x]]
               PROVE  home[x] \in teams \/ <<x, "result">> \in raced
    BY <1>1 DEF StoreGoverned
  <2>1. CASE x = m
    <3>1. Governed(m)
      BY <2>1 DEF Moves
    <3>2. PICK team \in teams : m \in mates[team]
      BY <3>1 DEF Governed
    <3>3. home[m] = team
      BY <3>2 DEF AtHome, TypeOK
    <3> QED
      BY <2>1, <3>2, <3>3
  <2>2. CASE x # m
    BY <1>1, <2>2 DEF ResultInv, StoreGoverned
  <2> QED
    BY <2>1, <2>2
<1>5. DeletedTeamHasNoResults'
  BY <1>1, <1>2 DEF ResultInv, StoreGoverned, DeletedTeamHasNoResults
<1>6. ResultsHomed'
  BY <1>1, <1>2 DEF ResultInv, ResultsHomed, SpawnedOnce, TypeOK
<1> QED
  BY <1>3, <1>4, <1>5, <1>6 DEF ResultInv

\* Enlist looks at the room and takes it in one critical section.
LEMMA EnlistBounded ==
    ASSUME TypeOK, CallsNamed, TeamsBounded, NEW c \in Caller, Enlist(c)
    PROVE  TeamsBounded'
<1>1. PICK m \in Mate, team \in Team : call[c].op = "spawn" /\ call[c].mate = m /\ call[c].team = team
  BY DEF Enlist, CallsNamed
<1>2. CASE Admits(team)
  <2>1. IsFiniteSet(mates[team]) /\ Cardinality(mates[team]) \in Nat
    BY TeamAssumption, FS_Subset, FS_CardinalityType DEF TypeOK
  <2>2. mates'[team] = mates[team] \cup {m} /\ \A t \in Team \ {team} : mates'[t] = mates[t]
    BY <1>1, <1>2 DEF Enlist, TypeOK
  <2>3. Cardinality(mates'[team]) <= Cardinality(mates[team]) + 1
    <3>1. Cardinality(mates[team] \cup {m}) =
              IF m \in mates[team] THEN Cardinality(mates[team]) ELSE Cardinality(mates[team]) + 1
      BY <2>1, FS_AddElement
    <3> QED
      BY <2>1, <2>2, <3>1
  <2>4. Cardinality(mates[team]) < MaxTeammatesPerTeam
    BY <1>2 DEF Admits, HasRoom
  <2>5. Cardinality(mates'[team]) \in Nat
    BY <2>1, <2>2, FS_AddElement, FS_CardinalityType
  <2>6. Cardinality(mates'[team]) <= MaxTeammatesPerTeam
    BY <2>1, <2>3, <2>4, <2>5, TeamAssumption
  <2> QED
    BY <2>2, <2>6 DEF TeamsBounded
<1>3. CASE ~Admits(team)
  BY <1>1, <1>3 DEF Enlist, TeamsBounded
<1> QED
  BY <1>2, <1>3

LEMMA ShrunkBounded ==
    ASSUME TypeOK, TeamsBounded, \A team \in Team : mates'[team] \subseteq mates[team]
    PROVE  TeamsBounded'
<1> SUFFICES ASSUME NEW team \in Team
             PROVE  Cardinality(mates'[team]) <= MaxTeammatesPerTeam
  BY DEF TeamsBounded
<1>1. IsFiniteSet(mates[team])
  BY TeamAssumption, FS_Subset DEF TypeOK
<1>2. /\ IsFiniteSet(mates'[team]) /\ Cardinality(mates'[team]) <= Cardinality(mates[team])
      /\ Cardinality(mates[team]) \in Nat /\ Cardinality(mates'[team]) \in Nat
  BY <1>1, FS_Subset, FS_CardinalityType
<1>3. Cardinality(mates[team]) <= MaxTeammatesPerTeam
  BY DEF TeamsBounded
<1> QED
  BY <1>2, <1>3, TeamAssumption

LEMMA NextBounded ==
    ASSUME TypeOK, CallsNamed, TeamsBounded, Next
    PROVE  TeamsBounded'
<1>1. CASE UNCHANGED mates
  BY <1>1, ShrunkBounded
<1>2. ASSUME NEW c \in Caller, Enlist(c)
      PROVE  TeamsBounded'
  BY <1>2, EnlistBounded
<1>3. ASSUME NEW c \in Caller, RemoveMate(c)
      PROVE  TeamsBounded'
  <2>1. \A team \in Team : mates'[team] \subseteq mates[team]
    BY <1>3 DEF RemoveMate, TypeOK
  <2> QED
    BY <2>1, ShrunkBounded
<1>4. ASSUME NEW c \in Caller, Request(c)
      PROVE  UNCHANGED mates
  BY <1>4 DEF Request, CreateTeam, DeleteTeam, SpawnTeammate, ShutdownTeammate, CancelAll, teamVars
<1>5. ASSUME NEW c \in Caller, Proceed(c), ~Enlist(c), ~RemoveMate(c)
      PROVE  UNCHANGED mates
  BY <1>5 DEF Proceed, PutTeam, StartLoop, FinishDelete, CancelMate, CancelTeam, ReturnCancelAll, teamVars
<1>6. ASSUME Shutdown
      PROVE  UNCHANGED mates
  BY <1>6 DEF Shutdown, teamVars
<1>7. ASSUME NEW m \in Mate, MateStep(m)
      PROVE  UNCHANGED mates
  BY <1>7, MateEffect DEF Moves
<1> QED
  BY <1>1, <1>2, <1>3, <1>4, <1>5, <1>6, <1>7 DEF Next, MateStep

-----------------------------------------------------------------------------
(* The theorems *)

LEMMA InitInv == Init => Inv
<1> SUFFICES ASSUME Init
             PROVE  Inv
  OBVIOUS
<1>1. TypeOK
  <2>1. call \in [Caller -> Call]
    BY NoCallType DEF Init
  <2>2. resultsOrder \in Seq(Mate)
    BY DEF Init
  <2>3. home \in [Mate -> Team \cup {None}] /\ mates \in [Team -> SUBSET Mate]
    BY DEF Init
  <2>4. status \in [Mate -> TeammateStatus] /\ loop \in [Mate -> Loop]
    BY DEF Init, TeammateStatus, Loop
  <2> QED
    BY <2>1, <2>2, <2>3, <2>4 DEF Init, TypeOK
<1>2. CallsNamed /\ AtHome /\ SpawnedOnce /\ LaunchedGoverned /\ RemovedCancelled
  <2>1. \A c \in Caller : call[c].op = "none"
    BY DEF Init, NoCall
  <2> QED
    BY <2>1 DEF Init, CallsNamed, AtHome, SpawnedOnce, Spawns, LaunchedGoverned, Launched,
                RemovedCancelled
<1>3. TeamsBounded /\ ResultsEvictable
  BY FS_EmptySet, TeamAssumption DEF Init, TeamsBounded, ResultsEvictable
<1>4. CancelledShows /\ StoreGoverned /\ DeletedTeamHasNoResults /\ ResultsHomed
  BY DEF Init, CancelledShows, StoreGoverned, DeletedTeamHasNoResults, ResultsHomed
<1> QED
  BY <1>1, <1>2, <1>3, <1>4 DEF Inv

LEMMA StepInv ==
    ASSUME Inv, [Next]_vars
    PROVE  Inv'
<1>i. /\ TypeOK /\ SpawnInv /\ TeamsBounded /\ CancelledShows /\ ResultInv
      /\ CallsNamed /\ AtHome /\ SpawnedOnce /\ ResultsEvictable
  BY DEF Inv, SpawnInv, ResultInv
<1>1. ASSUME Marks, Forgets, SpawnInv', TypeOK', TeamsBounded'
      PROVE  Inv'
  BY <1>i, <1>1, MarksShow, ForgetsResult DEF Inv, SpawnInv, ResultInv
<1>2. ASSUME NEW c \in Caller, Request(c)
      PROVE  Inv'
  BY <1>i, <1>1, <1>2, RequestEffect, RequestType, NextBounded DEF Next
<1>3. ASSUME NEW c \in Caller, Proceed(c)
      PROVE  Inv'
  BY <1>i, <1>1, <1>3, ProceedEffect, ProceedType, NextBounded DEF Next
<1>4. CASE Shutdown
  BY <1>i, <1>1, <1>4, ShutdownEffect, ShutdownType, NextBounded DEF Next
<1>5. ASSUME NEW m \in Mate, MateStep(m)
      PROVE  Inv'
  <2>1. Moves(m) /\ Shows(m) /\ Stores(m)
    BY <1>i, <1>5, MateEffect
  <2>2. TypeOK' /\ SpawnInv' /\ CancelledShows' /\ ResultInv'
    BY <1>i, <2>1, MateType, MateSpawn, MateShow, MateResult
  <2>3. TeamsBounded'
    BY <1>i, <1>5, NextBounded DEF Next, MateStep
  <2> QED
    BY <2>2, <2>3 DEF Inv, SpawnInv, ResultInv
<1>6. CASE UNCHANGED vars
  BY <1>6 DEF Inv, TypeOK, CallsNamed, AtHome, SpawnedOnce, Spawns, LaunchedGoverned, Launched,
              Governed, RemovedCancelled, TeamsBounded, ResultsEvictable, CancelledShows,
              StoreGoverned, DeletedTeamHasNoResults, ResultsHomed, vars
<1> QED
  BY <1>2, <1>3, <1>4, <1>5, <1>6 DEF Next, MateStep

LEMMA TeamInvariant == Spec => []Inv
BY InitInv, StepInv, PTL DEF Spec

\* No teammate runs on out of reach: whatever deletions, shutdowns and cancellations overtook
\* its spawn, a loop whose context is not cancelled belongs to a team the manager holds.
THEOREM NobodyRunsUngoverned == Spec => []NoOrphan
<1>1. Inv => NoOrphan
  BY DEF Inv, LaunchedGoverned, Launched, NoOrphan, Cancelled
<1> QED
  BY <1>1, TeamInvariant, PTL

\* The manager's records agree: concurrent spawns do not overfill a team, storeResultLocked
\* keeps a bounded number of results and can evict each, a deleted team leaves no result and
\* a cancelled teammate that has ended no other status behind, but in the two recorded races.
THEOREM RecordsAgree == Spec => []TeamConsistent
<1>1. Inv => TeamConsistent
  BY DEF Inv, TeamConsistent, CancelledShows, StoppedShowsShuttingDown
<1> QED
  BY <1>1, TeamInvariant, PTL

-----------------------------------------------------------------------------
(* The breaker a teammate's loops share (TeammateBreaker) *)

\* The inductive invariant: a circuit that is not closed has counted up to
\* the threshold.
BreakerInv == BreakerTypeOK /\ OpenExactlyAfterStreak

LEMMA StartsSound == BreakerInit => BreakerInv
BY BreakerAssumption DEF BreakerInit, BreakerInv, BreakerTypeOK, OpenExactlyAfterStreak

\* record keeps the state and the failures in step with the streak, when the
\* streak is counted along.
LEMMA RecordKeeps ==
    ASSUME BreakerInv, NEW failed \in BOOLEAN, record(failed),
           streak' = IF ~failed THEN 0
                     ELSE IF streak < teammateBreakerThreshold THEN streak + 1 ELSE streak,
           at' \in [Runner -> {"unborn", "idle", "list", "claimed", "run", "gone"}]
    PROVE  BreakerInv'
<1> USE BreakerAssumption
<1>1. CASE ~failed
  BY <1>1 DEF BreakerInv, BreakerTypeOK, OpenExactlyAfterStreak, record
<1>2. CASE failed /\ state = "closed"
  BY <1>2 DEF BreakerInv, BreakerTypeOK, OpenExactlyAfterStreak, record
<1>3. CASE failed /\ state # "closed"
  BY <1>3 DEF BreakerInv, BreakerTypeOK, OpenExactlyAfterStreak, record
<1> QED BY <1>1, <1>2, <1>3

LEMMA StepSound == BreakerInv /\ [BreakerNext]_breakerVars => BreakerInv'
<1> SUFFICES ASSUME BreakerInv, [BreakerNext]_breakerVars PROVE BreakerInv'
  OBVIOUS
<1> USE BreakerAssumption
<1>1. ASSUME NEW r \in Runner, Polls(r) PROVE BreakerInv'
  BY <1>1 DEF Polls, Gate, Expire, ProbeExpired, BreakerInv,
              BreakerTypeOK, OpenExactlyAfterStreak
<1>2. ASSUME NEW r \in Runner, Works(r) PROVE BreakerInv'
  <2>1. CASE FindNothing(r) \/ ClaimTask(r)
    BY <2>1 DEF FindNothing, ClaimTask, BreakerInv, BreakerTypeOK,
                OpenExactlyAfterStreak
  <2>2. CASE ConsumeProbe(r)
    BY <2>2 DEF ConsumeProbe, BreakerInv, BreakerTypeOK, OpenExactlyAfterStreak
  <2>3. ASSUME NEW failed \in BOOLEAN, Record(r, failed) PROVE BreakerInv'
    <3>1. at' \in [Runner -> {"unborn", "idle", "list", "claimed", "run", "gone"}]
      BY <2>3 DEF Record, BreakerInv, BreakerTypeOK
    <3> QED BY <2>3, <3>1, RecordKeeps DEF Record
  <2> QED BY <1>2, <2>1, <2>2, <2>3 DEF Works
<1>3. ASSUME NEW r \in Runner, Join(r) \/ TakeMail(r) \/ Vanish(r) PROVE BreakerInv'
  BY <1>3 DEF Join, TakeMail, Vanish, BreakerInv, BreakerTypeOK,
              OpenExactlyAfterStreak
<1>4. ASSUME NEW r \in Runner, RecordCancelled(r) PROVE BreakerInv'
  <2>1. at' \in [Runner -> {"unborn", "idle", "list", "claimed", "run", "gone"}]
    BY <1>4 DEF RecordCancelled, BreakerInv, BreakerTypeOK
  <2>2. record(FALSE) /\ streak' = 0
    BY <1>4 DEF RecordCancelled
  <2> QED BY <2>1, <2>2, RecordKeeps
<1>5. CASE Tick
  BY <1>5 DEF Tick, BreakerInv, BreakerTypeOK, OpenExactlyAfterStreak
<1>6. CASE UNCHANGED breakerVars
  BY <1>6 DEF breakerVars, BreakerInv, BreakerTypeOK, OpenExactlyAfterStreak
<1> QED BY <1>1, <1>2, <1>3, <1>4, <1>5, <1>6 DEF BreakerNext

\* However the runs of the loops that share a breaker are interleaved, mailed,
\* cancelled or lost, the circuit is closed exactly while the last runs that
\* were recorded hold fewer failures in a row than the threshold.
THEOREM BreakerFollowsStreak == BreakerSpec => []OpenExactlyAfterStreak
<1>1. BreakerSpec => []BreakerInv
  BY StartsSound, StepSound, PTL DEF BreakerSpec
<1>2. BreakerInv => OpenExactlyAfterStreak
  BY DEF BreakerInv
<1> QED BY <1>1, <1>2, PTL

-----------------------------------------------------------------------------
(* One loop alone *)

OnlyLoop(r) == \A q \in Runner \ {r} : at[q] = "unborn"

\* The inductive invariant for a loop that shares its breaker with nobody: the gate it
\* has passed stays open until its claim is made (only its own records can close it),
\* and a half-open circuit finds it at its probe, or gone.
LoopInv ==
    \A r \in Runner : OnlyLoop(r) =>
        /\ at[r] \in {"list", "claimed"} => Passes
        /\ state = "half_open" => at[r] \in {"run", "gone"}

LEMMA InitLoop == BreakerInit => LoopInv
BY DEF BreakerInit, LoopInv

\* A step of one loop can only disturb what is claimed of that loop: for every other
\* one, this loop is a second that has been started.
LEMMA LoopStep ==
    ASSUME BreakerTypeOK, LoopInv, NEW r \in Runner, NEW l,
           at' = [at EXCEPT ![r] = l], l # "unborn",
           OnlyLoop(r) => /\ l \in {"list", "claimed"} => Passes'
                          /\ state' = "half_open" => l \in {"run", "gone"}
    PROVE  LoopInv'
<1> SUFFICES ASSUME NEW p \in Runner, OnlyLoop(p)'
             PROVE  /\ at'[p] \in {"list", "claimed"} => Passes'
                    /\ state' = "half_open" => at'[p] \in {"run", "gone"}
  BY DEF LoopInv
<1>1. p = r
  BY DEF OnlyLoop, BreakerTypeOK
<1>2. OnlyLoop(r)
  BY <1>1 DEF OnlyLoop, BreakerTypeOK
<1> QED BY <1>1, <1>2 DEF BreakerTypeOK

LEMMA NextLoop == BreakerTypeOK /\ LoopInv /\ [BreakerNext]_breakerVars => LoopInv'
<1> SUFFICES ASSUME BreakerTypeOK, LoopInv, [BreakerNext]_breakerVars PROVE LoopInv'
  OBVIOUS
<1> USE BreakerAssumption
<1>1. ASSUME NEW r \in Runner, Gate(r) PROVE LoopInv'
  BY <1>1, LoopStep DEF Gate, LoopInv, Passes, CoolingDown
<1>2. ASSUME NEW r \in Runner, Expire(r) PROVE LoopInv'
  <2>1. state = "half_open" /\ state' = "open" /\ at' = at /\ at[r] = "idle"
    BY <1>2 DEF Expire, ProbeExpired
  <2>2. \A p \in Runner : ~OnlyLoop(p)
    BY <2>1 DEF LoopInv, OnlyLoop
  <2> QED BY <2>1, <2>2 DEF LoopInv, OnlyLoop
<1>3. ASSUME NEW r \in Runner, FindNothing(r) PROVE LoopInv'
  BY <1>3, LoopStep DEF FindNothing, LoopInv, Passes, CoolingDown
<1>4. ASSUME NEW r \in Runner, ClaimTask(r) PROVE LoopInv'
  BY <1>4, LoopStep DEF ClaimTask, LoopInv, Passes, CoolingDown
<1>5. ASSUME NEW r \in Runner, ConsumeProbe(r) PROVE LoopInv'
  BY <1>5, LoopStep DEF ConsumeProbe
<1>6. ASSUME NEW r \in Runner, TakeMail(r) \/ Vanish(r) PROVE LoopInv'
  BY <1>6, LoopStep DEF TakeMail, Vanish
<1>7. ASSUME NEW r \in Runner, Join(r) PROVE LoopInv'
  BY <1>7, LoopStep DEF Join, LoopInv
<1>8. ASSUME NEW r \in Runner, NEW failed \in BOOLEAN, Record(r, failed) PROVE LoopInv'
  <2>1. state' # "half_open"
    BY <1>8 DEF Record, record
  <2> QED BY <1>8, <2>1, LoopStep DEF Record
<1>9. ASSUME NEW r \in Runner, RecordCancelled(r) PROVE LoopInv'
  BY <1>9, LoopStep DEF RecordCancelled
<1>10. CASE Tick
  BY <1>10 DEF Tick, LoopInv, OnlyLoop, Passes, CoolingDown, BreakerTypeOK
<1>11. CASE UNCHANGED breakerVars
  BY <1>11 DEF breakerVars, LoopInv, OnlyLoop, Passes, CoolingDown
<1> QED BY <1>1, <1>2, <1>3, <1>4, <1>5, <1>6, <1>7, <1>8, <1>9, <1>10, <1>11
        DEF BreakerNext, Polls, Works

\* While one manager serves the process, its teammate's loop asks the gate and spends
\* the probe in two steps, with a claim between them: it never claims past a gate that
\* has closed since it asked, and the gate is never half-open with the probe nowhere.
THEOREM OneLoopKeepsTheProbe == BreakerSpec => []ProbeDiscipline
<1>1. BreakerSpec => [](BreakerInv /\ LoopInv)
  <2>1. BreakerInit => BreakerInv /\ LoopInv
    BY StartsSound, InitLoop
  <2>2. BreakerInv /\ LoopInv /\ [BreakerNext]_breakerVars => (BreakerInv /\ LoopInv)'
    BY StepSound, NextLoop DEF BreakerInv
  <2> QED BY <2>1, <2>2, PTL DEF BreakerSpec
<1>2. LoopInv => ProbeDiscipline
  <2> SUFFICES ASSUME LoopInv, NEW r \in Runner, OnlyLoop(r), Alone
               PROVE  /\ \A q \in Runner : at[q] = "claimed" => Passes
                      /\ state = "half_open" => \E q \in Runner : at[q] \in {"run", "gone"}
    BY DEF ProbeDiscipline, ClaimsPassTheGate, HalfOpenHasProbe,
           Alone, OnlyLoop
  <2> QED BY DEF LoopInv, OnlyLoop
<1> QED BY <1>1, <1>2, PTL

-----------------------------------------------------------------------------
(* The file a team's board is kept in (BoardPersist) *)

\* The claim that holds the lock knows what it claims, in a seat that has the board.
ClaimNamed ==
    claim.pc # "none" =>
        /\ claim.seat \in Seat /\ claim.id \in TaskID /\ claim.owner \in Owner
        /\ mem[claim.seat] # Unloaded

\* A seat without the board has nothing to save and saves nothing.
SeatsLoaded ==
    /\ \A s \in Seat : mem[s] = Unloaded => queued[s] = 0 /\ s \notin unsaved /\ writer[s] = Idle
    /\ claim.pc = "none" => claim = NoClaim
    /\ \A w \in Writer : writer[w].pc = "none" => writer[w] = Idle
    /\ writer[Claimer] # Idle => claim.pc = "written"
    /\ ClaimNamed

\* The inductive invariant for any number of seats.
SeatInv == PersistTypeOK /\ SeatsLoaded

\* Boards and what a file can hold have their types.
LEMMA BoardTypes ==
    /\ Empty \in Board
    /\ Nothing \in Bytes /\ Mixture \in Bytes
    /\ \A b \in Board : Whole(b) \in Bytes /\ RolledBack(b) \in Board
BY DEF Empty, Board, Nothing, Mixture, Bytes, Whole, RolledBack

\* What is read is a board.
LEMMA ReadIsBoard == PersistTypeOK => Read \in Board
BY BoardTypes DEF PersistTypeOK, Read, Bytes

\* A file that some name or descriptor leads to keeps its content.
LEMMA SweptKeeps ==
    ASSUME NEW d, NEW w, NEW c, NEW f \in File, f \in {d.board, d.tmp}
    PROVE  Swept(d, w, c)[f] = c[f]
BY DEF Swept, Referenced

\* Sweeping keeps the type of the contents.
LEMMA SweptType ==
    ASSUME NEW d, NEW w, NEW c, \A f \in File : c[f] \in Bytes
    PROVE  Swept(d, w, c) \in [File -> Bytes]
BY BoardTypes DEF Swept

\* 0 stands for no file.
LEMMA ZeroIsNoFile == 0 \notin File
BY DEF File

\* A writer that creates board.json.tmp finds a free file.
LEMMA FreshFile ==
    ASSUME PersistTypeOK, dir.tmp = 0
    PROVE  (CHOOSE x \in File : x \notin Referenced(dir, writer)) \in File \ Referenced(dir, writer)
<1> DEFINE fds == {writer[x].fd : x \in Writer}
<1> DEFINE g == [x \in Writer |-> writer[x].fd]
<1>1. IsFiniteSet(Writer) /\ Cardinality(Writer) \in Nat
  BY SeatAssumption, FS_AddElement, FS_CardinalityType DEF Writer
<1>2. g \in Surjection(Writer, fds)
  BY DEF Surjection
<1>3. IsFiniteSet(fds) /\ Cardinality(fds) <= Cardinality(Writer) /\ Cardinality(fds) \in Nat
  <2> HIDE DEF fds, g
  <2> QED BY <1>1, <1>2, FS_Surjection, FS_CardinalityType
<1>4. IsFiniteSet(fds \cup {dir.board}) /\ Cardinality(fds \cup {dir.board}) <= Cardinality(Writer) + 1
      /\ Cardinality(fds \cup {dir.board}) \in Nat
  <2> HIDE DEF fds
  <2> QED BY <1>1, <1>3, FS_AddElement, FS_CardinalityType
<1>5. Cardinality(File) = Cardinality(Writer) + 2
  BY <1>1, FS_Interval DEF File
<1>6. ASSUME File \subseteq fds \cup {dir.board} PROVE FALSE
  <2> HIDE DEF fds
  <2>1. Cardinality(File) <= Cardinality(fds \cup {dir.board})
    BY <1>4, <1>6, FS_Subset
  <2> QED BY <2>1, <1>1, <1>4, <1>5
<1>7. \E x \in File : x \notin Referenced(dir, writer)
  BY <1>6, ZeroIsNoFile DEF Referenced
<1> QED BY <1>7

\* The three facts about SeatInv: initially, by each operation, by each step.
LEMMA SeatsStart == PersistInit => SeatInv
BY BoardTypes, SeatAssumption DEF PersistInit, SeatInv, PersistTypeOK, SeatsLoaded, ClaimNamed, Idle, NoClaim, File, Writer

\* Each operation keeps what every seat, save and claim relies on.
LEMMA SeatsLoad ==
    ASSUME SeatInv, NEW s \in Seat, Load(s)
    PROVE  SeatInv'
<1> USE DEF SeatInv, PersistTypeOK, SeatsLoaded, ClaimNamed, Load
<1>1. RolledBack(Read) \in Board
  BY BoardTypes, ReadIsBoard
<1>2. mem' \in [Seat -> Board \cup {Unloaded}] /\ loading' \subseteq Seat
  BY <1>1
<1>3. \A t \in Seat : mem'[t] = Unloaded => mem[t] = Unloaded /\ (t = s => s \notin unsaved')
  BY <1>1, UnloadedAssumption
<1>4. unsaved' \subseteq unsaved \cup {s}
  OBVIOUS
<1> QED BY <1>2, <1>3, <1>4

LEMMA SeatsQuarantine ==
    ASSUME SeatInv, NEW s \in Seat, Quarantine(s)
    PROVE  SeatInv'
<1> USE DEF SeatInv, PersistTypeOK, SeatsLoaded, ClaimNamed, Quarantine, MoveAway
<1>1. content' \in [File -> Bytes]
  BY SweptType
<1>2. mem' \in [Seat -> Board \cup {Unloaded}] /\ \A t \in Seat : mem'[t] = Unloaded => mem[t] = Unloaded
  BY BoardTypes, UnloadedAssumption
<1> QED BY <1>1, <1>2

LEMMA SeatsStartSave ==
    ASSUME SeatInv, NEW s \in Seat, StartSave(s)
    PROVE  SeatInv'
<1> USE DEF SeatInv, PersistTypeOK, SeatsLoaded, ClaimNamed, StartSave
<1>1. mem[s] \in Board
  OBVIOUS
<1>2. queued' \in [Seat -> Nat]
  OBVIOUS
<1>3. writer' \in [Writer -> [pc : {"none", "open", "put", "rename"}, fd : File \cup {0}, snap : Board]]
  BY <1>1 DEF Writer, Idle
<1>4. \A t \in Seat : mem[t] = Unloaded => t # s
  OBVIOUS
<1>5. s \in Writer /\ s # Claimer
  BY SeatAssumption DEF Writer
<1> QED BY <1>2, <1>3, <1>4, <1>5

LEMMA SeatsWrite ==
    ASSUME SeatInv, NEW w \in Writer, Write(w)
    PROVE  SeatInv'
<1> USE DEF SeatInv, PersistTypeOK
<1> DEFINE Place == [pc : {"none", "open", "put", "rename"}, fd : File \cup {0}, snap : Board]
<1>1. ASSUME writer' \in [Writer -> Place], content' \in [File -> Bytes],
             dir' \in [board : File \cup {0}, tmp : File \cup {0}],
             writer[w].pc # "none", writer'[w].pc = "none" => writer'[w] = Idle, \A x \in Writer \ {w} : writer'[x] = writer[x],
             UNCHANGED <<mem, queued, unsaved, claim, loading, winners, made>>
      PROVE  SeatInv'
  <2>1. writer[w] # Idle
    BY <1>1 DEF Idle
  <2>2. SeatsLoaded'
    BY <1>1, <2>1 DEF SeatsLoaded, ClaimNamed, Writer
  <2> QED BY <1>1, <2>2
<1>2. CASE OpenTmp(w)
  <2> DEFINE f == IF dir.tmp # 0 THEN dir.tmp ELSE CHOOSE x \in File : x \notin Referenced(dir, writer)
  <2>1. f \in File
    BY FreshFile
  <2>2. /\ writer[w].pc = "open"
        /\ dir' = [dir EXCEPT !.tmp = f]
        /\ content' = [content EXCEPT ![f] = Nothing]
        /\ writer' = [writer EXCEPT ![w].pc = "put", ![w].fd = f]
        /\ UNCHANGED <<mem, queued, unsaved, claim, loading, winners, made>>
    BY <1>2 DEF OpenTmp
  <2> HIDE DEF f
  <2> QED BY <1>1, <2>1, <2>2, BoardTypes
<1>3. CASE Put(w)
  <2>1. PICK c \in {Whole(writer[w].snap), Mixture} :
           content' = Swept(dir, writer', [content EXCEPT ![writer[w].fd] = c])
    BY <1>3 DEF Put
  <2>2. c \in Bytes
    BY <2>1, BoardTypes
  <2>3. content' \in [File -> Bytes]
    BY <2>1, <2>2, SweptType
  <2>4. /\ writer[w].pc = "put"
        /\ writer' = [writer EXCEPT ![w].pc = "rename", ![w].fd = 0]
        /\ UNCHANGED <<mem, queued, unsaved, dir, claim, loading, winners, made>>
    BY <1>3 DEF Put
  <2> QED BY <1>1, <2>3, <2>4
<1>4. CASE Rename(w)
  <2>1. content' \in [File -> Bytes]
    BY <1>4, SweptType DEF Rename
  <2> QED BY <1>1, <1>4, <2>1, BoardTypes DEF Rename, Idle
<1> QED BY <1>2, <1>3, <1>4 DEF Write

LEMMA SeatsTools ==
    ASSUME SeatInv, NEW s \in Seat, NEW id \in TaskID,
           \/ CreateTask(s, id) \/ CompleteTask(s, id)
           \/ \E v \in {"pending", "completed", "teammate"} : ChangeQuietly(s, id, v)
    PROVE  SeatInv'
<1> USE DEF SeatInv
<1>1. PICK v \in {"pending", "completed", "teammate"} : mem' = [mem EXCEPT ![s][id] = v]
  BY DEF CreateTask, CompleteTask, ChangeQuietly
<1>2. mem[s] # Unloaded /\ mem[s] \in Board
  BY DEF CreateTask, CompleteTask, ChangeQuietly, PersistTypeOK
<1>3. [mem[s] EXCEPT ![id] = v] \in Board
  BY <1>1, <1>2 DEF Board, InProgress
<1>4. mem' = [mem EXCEPT ![s] = [mem[s] EXCEPT ![id] = v]]
  BY <1>1
<1>5. mem' \in [Seat -> Board \cup {Unloaded}] /\ \A t \in Seat : mem'[t] = Unloaded => mem[t] = Unloaded /\ t # s
  BY <1>3, <1>4, UnloadedAssumption DEF PersistTypeOK
<1>6. queued' \in [Seat -> Nat] /\ unsaved' \subseteq Seat
      /\ \A t \in Seat \ {s} : queued'[t] = queued[t] /\ (t \in unsaved' => t \in unsaved)
  BY DEF CreateTask, CompleteTask, ChangeQuietly, EmitBoardUpdated, PersistTypeOK
<1>7. winners' \in [TaskID -> SUBSET (Owner \X Seat)]
  BY DEF CreateTask, CompleteTask, ChangeQuietly, PersistTypeOK
<1>8. made' \in [calls : Nat, claims : Nat, quiet : Nat, crashes : Nat]
  BY DEF CreateTask, CompleteTask, ChangeQuietly, Count, PersistTypeOK
<1>9. UNCHANGED <<dir, content, writer, claim, loading>>
  BY DEF CreateTask, CompleteTask, ChangeQuietly
<1> QED BY <1>2, <1>5, <1>6, <1>7, <1>8, <1>9 DEF PersistTypeOK, SeatsLoaded, ClaimNamed

LEMMA SeatsClaim ==
    ASSUME SeatInv,
           ClaimStep \/ \E s \in Seat, id \in TaskID, o \in Owner : LockBoard(s, id, o)
    PROVE  SeatInv'
<1> USE DEF SeatInv
<1> DEFINE Held(c, m) == c.seat \in Seat /\ c.id \in TaskID /\ c.owner \in Owner /\ m[c.seat] # Unloaded
<1>1. CASE \E s \in Seat, id \in TaskID, o \in Owner : LockBoard(s, id, o)
  BY <1>1 DEF LockBoard, Count, PersistTypeOK, SeatsLoaded, ClaimNamed
<1>2. ASSUME NEW won, Unlock(won), Held(claim, mem), writer[Claimer] = Idle,
             UNCHANGED <<mem, unsaved, dir, content, writer, loading, made>>
      PROVE  SeatInv'
  <2>1. claim' = NoClaim
    BY <1>2 DEF Unlock
  <2>2. queued' \in [Seat -> Nat] /\ \A t \in Seat : mem[t] = Unloaded => queued'[t] = queued[t]
    BY <1>2 DEF Unlock, EmitBoardUpdated, PersistTypeOK
  <2>3. winners' \in [TaskID -> SUBSET (Owner \X Seat)]
    BY <1>2 DEF Unlock, PersistTypeOK
  <2> QED BY <1>2, <2>1, <2>2, <2>3 DEF PersistTypeOK, SeatsLoaded, ClaimNamed, NoClaim
<1>3. CASE ReadClaim
  <2>1. Held(claim, mem) /\ writer[Claimer] = Idle
    BY <1>3 DEF ReadClaim, SeatsLoaded, ClaimNamed
  <2>2. CASE \E won \in BOOLEAN : Unlock(won)
    BY <1>2, <1>3, <2>1, <2>2 DEF ReadClaim
  <2>3. CASE /\ \/ claim' = [claim EXCEPT !.pc = "quarantine"]
                \/ claim' = [claim EXCEPT !.pc = "update"]
             /\ UNCHANGED <<queued, winners>>
    BY <1>3, <2>1, <2>3 DEF ReadClaim, PersistTypeOK, SeatsLoaded, ClaimNamed
  <2> QED BY <1>3, <2>2, <2>3 DEF ReadClaim
<1>4. CASE QuarantineClaim
  <2>1. content' \in [File -> Bytes]
    BY <1>4, SweptType DEF QuarantineClaim, MoveAway, PersistTypeOK
  <2> QED BY <1>4, <2>1 DEF QuarantineClaim, MoveAway, PersistTypeOK, SeatsLoaded, ClaimNamed
<1>5. CASE UpdateClaim
  <2>1. Held(claim, mem) /\ writer[Claimer] = Idle
    BY <1>5 DEF UpdateClaim, SeatsLoaded, ClaimNamed
  <2>2. CASE Pending(claim.seat, claim.id)
    <3>1. [mem[claim.seat] EXCEPT ![claim.id] = claim.owner] \in Board
      BY <2>1 DEF PersistTypeOK, Board, InProgress
    <3>2. mem' = [mem EXCEPT ![claim.seat] = [mem[claim.seat] EXCEPT ![claim.id] = claim.owner]]
      BY <1>5, <2>2 DEF UpdateClaim
    <3>3. mem' \in [Seat -> Board \cup {Unloaded}]
          /\ \A t \in Seat : mem'[t] = Unloaded <=> mem[t] = Unloaded
      BY <2>1, <3>1, <3>2, UnloadedAssumption DEF PersistTypeOK
    <3> QED BY <1>5, <2>1, <2>2, <3>3 DEF UpdateClaim, PersistTypeOK, SeatsLoaded, ClaimNamed
  <2>3. CASE ~Pending(claim.seat, claim.id)
    BY <1>2, <1>5, <2>1, <2>3 DEF UpdateClaim
  <2> QED BY <2>2, <2>3
<1>6. CASE CopyClaim
  <2>1. Held(claim, mem) /\ claim.pc = "copy"
    BY <1>6 DEF CopyClaim, SeatsLoaded, ClaimNamed
  <2>2. mem[claim.seat] \in Board
    BY <2>1 DEF PersistTypeOK
  <2>3. writer' \in [Writer -> [pc : {"none", "open", "put", "rename"}, fd : File \cup {0}, snap : Board]]
    BY <1>6, <2>2 DEF CopyClaim, Idle, PersistTypeOK
  <2>4. \A t \in Seat : writer'[t] = writer[t]
    BY <1>6, SeatAssumption DEF CopyClaim, PersistTypeOK, Writer
  <2> QED BY <1>6, <2>1, <2>3, <2>4 DEF CopyClaim, PersistTypeOK, SeatsLoaded, ClaimNamed
<1>7. CASE EndClaim
  <2>1. Held(claim, mem)
    BY <1>7 DEF EndClaim, SeatsLoaded, ClaimNamed
  <2>2. writer[Claimer] = Idle
    BY <1>7 DEF EndClaim, SeatsLoaded, Writer
  <2> QED BY <1>2, <1>7, <2>1, <2>2 DEF EndClaim
<1> QED BY <1>1, <1>3, <1>4, <1>5, <1>6, <1>7 DEF ClaimStep

LEMMA SeatsCrash ==
    ASSUME SeatInv, NEW s \in Seat, Crash(s)
    PROVE  SeatInv'
<1> USE DEF SeatInv
<1>1. content' \in [File -> Bytes]
  BY SweptType DEF Crash, PersistTypeOK
<1>2. writer' \in [Writer -> [pc : {"none", "open", "put", "rename"}, fd : File \cup {0}, snap : Board]]
  BY BoardTypes DEF Crash, Idle, PersistTypeOK
<1>3. claim' \in {NoClaim, claim} /\ (claim' = claim => claim.seat # s) /\ (claim' # claim => writer'[Claimer] = Idle)
  BY SeatAssumption DEF Crash, NoClaim, Writer
<1>4. winners' \in [TaskID -> SUBSET (Owner \X Seat)]
  BY DEF Crash, PersistTypeOK
<1>5. /\ mem' \in [Seat -> Board \cup {Unloaded}] /\ queued' \in [Seat -> Nat]
      /\ unsaved' \subseteq Seat /\ loading' \subseteq Seat
      /\ claim' \in [pc : {"none", "read", "quarantine", "update", "copy", "written"},
                     seat : Seat \cup {Claimer}, id : TaskID \cup {0}, owner : Owner \cup {Claimer}]
      /\ made' \in [calls : Nat, claims : Nat, quiet : Nat, crashes : Nat]
  BY <1>3 DEF Crash, Count, NoClaim, PersistTypeOK
<1>6. \A t \in Seat : \/ t = s /\ queued'[t] = 0 /\ writer'[t] = Idle /\ t \notin unsaved'
                      \/ t # s /\ mem'[t] = mem[t] /\ queued'[t] = queued[t] /\ (t \in unsaved' => t \in unsaved)
                            /\ writer'[t] = writer[t]
  BY SeatAssumption DEF Crash, PersistTypeOK, Writer
<1>7. \A w \in Writer : writer'[w] \in {Idle, writer[w]}
  BY DEF Crash, Writer
<1>8. SeatsLoaded'
  BY <1>3, <1>6, <1>7 DEF SeatsLoaded, ClaimNamed, NoClaim, Writer
<1> QED BY <1>1, <1>2, <1>4, <1>5, <1>8 DEF PersistTypeOK, Crash

LEMMA SeatsNext == SeatInv /\ [PersistNext]_persistVars => SeatInv'
<1>1. ASSUME SeatInv, UNCHANGED persistVars PROVE SeatInv'
  BY <1>1 DEF persistVars, SeatInv, PersistTypeOK, SeatsLoaded, ClaimNamed
<1> QED BY <1>1, SeatsLoad, SeatsQuarantine, SeatsStartSave, SeatsWrite, SeatsTools, SeatsClaim, SeatsCrash
        DEF PersistNext

\* For any number of processes that share the file: seats, saves, claims and files have
\* their types, a save or a claim under way belongs to a seat that has the board, and a
\* save that creates the file finds one that no name and no descriptor leads to.
THEOREM SeatsAlwaysSound == PersistSpec => []SeatInv
BY SeatsStart, SeatsNext, PTL DEF PersistSpec

-----------------------------------------------------------------------------
(* One seat that saves, and no claim *)

\* One process uses the board: the claims about the file do not hold for several.
OneSeat == \A s, t \in Seat : s = t

\* Between its steps a save owns what board.json.tmp stands for.
Saving(s) ==
    /\ writer[s].pc \in {"none", "open"} => writer[s].fd = 0
    /\ writer[s].pc = "put" => /\ writer[s].fd = dir.tmp
                              /\ dir.tmp # 0 /\ content[dir.tmp] = Nothing
    /\ writer[s].pc = "rename" => dir.tmp # 0 /\ content[dir.tmp] = Whole(writer[s].snap)

\* With nothing left to start, the file or the save under way has the seat's board.
Latest(s) ==
    mem[s] # Unloaded /\ queued[s] = 0 /\ s \notin unsaved =>
        IF writer[s].pc = "none" THEN Read = mem[s] ELSE writer[s].snap = mem[s]

\* The inductive invariant of a seat that saves while no claim writes beside it.
SavedAlone ==
    made.claims = 0 =>
        /\ claim = NoClaim /\ writer[Claimer] = Idle /\ loading = {}
        /\ dir.board # 0 => dir.board # dir.tmp /\ content[dir.board].kind = "whole"
        /\ \A s \in Seat : Saving(s) /\ Latest(s)

\* Before the first save nothing is under way.
LEMMA AloneStart == PersistInit => SavedAlone
BY SeatAssumption DEF PersistInit, SavedAlone, Saving, Latest, Idle, Writer

\* Writing: of the seat's save alone.
LEMMA AloneWrites ==
    ASSUME OneSeat, SeatInv, SavedAlone, made.claims = 0, NEW w \in Writer, Write(w)
    PROVE  SavedAlone'
<1> USE DEF SeatInv
<1>1. w \in Seat /\ \A t \in Seat : t = w
  BY DEF OneSeat, SavedAlone, Write, OpenTmp, Put, Rename, Idle, Writer
<1>2. /\ claim' = NoClaim /\ writer'[Claimer] = Idle /\ loading' = {}
      /\ UNCHANGED <<mem, queued, unsaved>>
  <2>1. claim = NoClaim /\ writer[Claimer] = Idle /\ loading = {} /\ Claimer # w
    BY <1>1, SeatAssumption DEF SavedAlone
  <2>2. UNCHANGED <<claim, loading, mem, queued, unsaved>>
    BY DEF Write, OpenTmp, Put, Rename
  <2>3. \A x \in Writer \ {w} : writer'[x] = writer[x]
    BY DEF Write, OpenTmp, Put, Rename, PersistTypeOK
  <2> QED BY <2>1, <2>2, <2>3 DEF Writer
<1>3. dir.board \in File \cup {0} /\ dir.tmp \in File \cup {0} /\ 0 \notin File
  BY ZeroIsNoFile DEF PersistTypeOK
<1>4. CASE OpenTmp(w)
  <2> DEFINE f == IF dir.tmp # 0 THEN dir.tmp ELSE CHOOSE x \in File : x \notin Referenced(dir, writer)
  <2>1. f \in File /\ f # dir.board
    BY FreshFile, <1>3 DEF SavedAlone, Referenced
  <2>2. /\ writer[w].pc = "open"
        /\ dir' = [dir EXCEPT !.tmp = f]
        /\ content' = [content EXCEPT ![f] = Nothing]
        /\ writer' = [writer EXCEPT ![w].pc = "put", ![w].fd = f]
    BY <1>4 DEF OpenTmp
  <2> HIDE DEF f
  <2>3. dir'.tmp = f /\ dir'.board = dir.board /\ writer'[w].pc = "put" /\ writer'[w].fd = f
        /\ writer'[w].snap = writer[w].snap
    BY <2>2 DEF PersistTypeOK
  <2>4. content'[f] = Nothing /\ (dir.board # 0 => content'[dir.board] = content[dir.board])
    BY <1>3, <2>1, <2>2 DEF PersistTypeOK
  <2>5. Saving(w)'
    BY <1>3, <2>1, <2>3, <2>4 DEF Saving
  <2>6. Latest(w)'
    BY <1>1, <1>2, <2>2, <2>3 DEF Latest, SavedAlone
  <2> QED BY <1>1, <1>2, <2>1, <2>3, <2>4, <2>5, <2>6 DEF SavedAlone
<1>5. CASE Put(w)
  <2>1. writer[w].pc = "put" /\ writer[w].fd = dir.tmp /\ dir.tmp \in File /\ content[dir.tmp] = Nothing
    BY <1>1, <1>3, <1>5 DEF Put, SavedAlone, Saving
  <2>2. content' = Swept(dir, writer', [content EXCEPT ![dir.tmp] = Whole(writer[w].snap)])
    BY <1>5, <2>1 DEF Put
  <2>3. writer' = [writer EXCEPT ![w].pc = "rename", ![w].fd = 0] /\ dir' = dir
    BY <1>5 DEF Put
  <2>4. writer'[w].pc = "rename" /\ writer'[w].snap = writer[w].snap
    BY <2>3 DEF PersistTypeOK
  <2> DEFINE c == [content EXCEPT ![dir.tmp] = Whole(writer[w].snap)]
  <2>9. content' = Swept(dir, writer', c)
    BY <2>2
  <2>10. c[dir.tmp] = Whole(writer[w].snap) /\ \A f \in File \ {dir.tmp} : c[f] = content[f]
    BY <2>1 DEF PersistTypeOK
  <2> HIDE DEF c
  <2>11. \A f \in File : f \in {dir.board, dir.tmp} => content'[f] = c[f]
    BY <2>9, SweptKeeps
  <2>5. content'[dir.tmp] = Whole(writer[w].snap)
    BY <2>1, <2>10, <2>11
  <2>6. dir.board # 0 => dir.board # dir.tmp /\ content'[dir.board] = content[dir.board]
    BY <1>3, <2>10, <2>11 DEF SavedAlone
  <2>7. Saving(w)'
    BY <1>3, <2>1, <2>3, <2>4, <2>5 DEF Saving
  <2>8. Latest(w)'
    BY <1>1, <1>2, <2>1, <2>4 DEF Latest, SavedAlone
  <2> QED BY <1>1, <1>2, <2>3, <2>6, <2>7, <2>8 DEF SavedAlone
<1>6. CASE Rename(w)
  <2>1. writer[w].pc = "rename" /\ dir.tmp \in File /\ content[dir.tmp] = Whole(writer[w].snap)
    BY <1>1, <1>3, <1>6 DEF Rename, SavedAlone, Saving
  <2>7. dir' = [board |-> dir.tmp, tmp |-> 0]
    BY <1>3, <1>6, <2>1 DEF Rename
  <2>8. writer'[w] = Idle
    BY <1>6 DEF Rename, PersistTypeOK
  <2>2. dir'.board = dir.tmp /\ dir'.tmp = 0 /\ writer'[w] = Idle
    BY <2>7, <2>8
  <2>3. content'[dir.tmp] = Whole(writer[w].snap)
    BY <1>6, <2>1, <2>2, SweptKeeps DEF Rename
  <2>4. Read' = writer[w].snap
    BY <1>3, <2>1, <2>2, <2>3 DEF Read, Whole
  <2>5. Latest(w)'
    BY <1>1, <1>2, <2>1, <2>2, <2>4 DEF Latest, SavedAlone, Idle
  <2>6. Saving(w)'
    BY <2>2 DEF Saving, Idle
  <2> QED BY <1>1, <1>2, <1>3, <2>1, <2>2, <2>3, <2>5, <2>6 DEF SavedAlone, Whole
<1> QED BY <1>4, <1>5, <1>6 DEF Write

\* The board changes in memory, or is read, while the files stay.
LEMMA AloneSeats ==
    ASSUME OneSeat, SeatInv, SavedAlone, made.claims = 0, NEW s \in Seat,
           \/ Load(s) \/ StartSave(s) \/ Crash(s)
           \/ \E id \in TaskID :
                 \/ CreateTask(s, id) \/ CompleteTask(s, id)
                 \/ \E v \in {"pending", "completed", "teammate"} : ChangeQuietly(s, id, v)
    PROVE  SavedAlone'
<1> USE DEF SeatInv
<1>1. s # Claimer /\ s \in Writer /\ \A t \in Seat : t = s
  BY SeatAssumption DEF OneSeat, Writer
<1>2. /\ claim = NoClaim /\ writer[Claimer] = Idle /\ loading = {} /\ Saving(s) /\ Latest(s)
      /\ dir.board # 0 => dir.board # dir.tmp /\ content[dir.board].kind = "whole"
  BY DEF SavedAlone
<1>3. CASE Load(s)
  <2>1. ~Torn /\ writer[s] = Idle
    BY <1>2, <1>3 DEF Torn, Load, SeatsLoaded
  <2>2. mem'[s] = RolledBack(Read) /\ (s \notin unsaved' => RolledBack(Read) = Read)
    BY <1>3, <2>1 DEF Load, PersistTypeOK
  <2>3. UNCHANGED <<queued, dir, content, writer, claim, loading>>
    BY <1>3, <2>1 DEF Load
  <2>4. Saving(s)' /\ Latest(s)'
    BY <1>2, <2>1, <2>2, <2>3 DEF Saving, Latest, Read, Idle
  <2> QED BY <1>1, <1>2, <2>3, <2>4 DEF SavedAlone
<1>4. CASE StartSave(s)
  <2>1. writer' = [writer EXCEPT ![s] = [Idle EXCEPT !.pc = "open", !.snap = mem[s]]]
        /\ UNCHANGED <<mem, dir, content, claim, loading>>
    BY <1>4 DEF StartSave
  <2>2. writer'[s].pc = "open" /\ writer'[s].fd = 0 /\ writer'[s].snap = mem[s] /\ writer'[Claimer] = writer[Claimer]
    BY <1>1, <2>1 DEF Idle, PersistTypeOK, Writer
  <2>3. Saving(s)' /\ Latest(s)'
    BY <2>1, <2>2 DEF Saving, Latest
  <2> QED BY <1>1, <1>2, <2>1, <2>2, <2>3 DEF SavedAlone
<1>5. CASE Crash(s)
  <2>1. claim' = NoClaim /\ writer'[s] = Idle /\ writer'[Claimer] = Idle /\ loading' = {} /\ dir' = dir
        /\ mem'[s] = Unloaded
    BY <1>1, <1>2, <1>5 DEF Crash, NoClaim, PersistTypeOK, Writer
  <2>2. dir.board # 0 => content'[dir.board] = content[dir.board]
    BY <1>5, SweptKeeps DEF Crash, PersistTypeOK
  <2>3. Saving(s)' /\ Latest(s)'
    BY <2>1 DEF Saving, Latest, Idle
  <2> QED BY <1>1, <1>2, <2>1, <2>2, <2>3 DEF SavedAlone
<1>6. ASSUME NEW id \in TaskID, NEW v \in {"pending", "completed", "teammate"},
             CreateTask(s, id) \/ CompleteTask(s, id) \/ ChangeQuietly(s, id, v)
      PROVE  SavedAlone'
  <2>1. UNCHANGED <<dir, content, writer, claim, loading>>
    BY <1>6 DEF CreateTask, CompleteTask, ChangeQuietly
  <2>2. queued'[s] # 0 \/ s \in unsaved'
    BY <1>6 DEF CreateTask, CompleteTask, ChangeQuietly, EmitBoardUpdated, PersistTypeOK
  <2>3. Saving(s)' /\ Latest(s)'
    BY <1>2, <2>1, <2>2 DEF Saving, Latest
  <2> QED BY <1>1, <1>2, <2>1, <2>3 DEF SavedAlone
<1> QED BY <1>3, <1>4, <1>5, <1>6

\* A claim, a silent change or a crash is on record.
LEMMA Recorded ==
    ASSUME SeatInv
    PROVE  /\ made.claims \in Nat /\ made.quiet \in Nat /\ made.crashes \in Nat
           /\ Count("calls") => UNCHANGED <<made.claims, made.quiet, made.crashes>>
           /\ Count("claims") => made'.claims = made.claims + 1 /\ UNCHANGED <<made.quiet, made.crashes>>
           /\ Count("quiet") => made'.quiet = made.quiet + 1 /\ UNCHANGED <<made.claims, made.crashes>>
           /\ Count("crashes") => made'.crashes = made.crashes + 1 /\ UNCHANGED <<made.claims, made.quiet>>
<1>1. made \in [calls : Nat, claims : Nat, quiet : Nat, crashes : Nat]
  BY DEF SeatInv, PersistTypeOK
<1> QED BY <1>1 DEF Count

\* No other step counts a claim, a silent change or a crash.
LEMMA RecordGrows ==
    ASSUME SeatInv, PersistNext
    PROVE  /\ \/ UNCHANGED made
              \/ Count("calls") \/ Count("claims") \/ Count("quiet") \/ Count("crashes")
           /\ \A s \in Seat, id \in TaskID, o \in Owner : LockBoard(s, id, o) => Count("claims")
           /\ \A s \in Seat : Crash(s) => Count("crashes")
           /\ \A s \in Seat, id \in TaskID : \A v : ChangeQuietly(s, id, v) => Count("quiet")
BY DEF PersistNext, Load, Quarantine, StartSave, Crash, Write, OpenTmp, Put, Rename, CreateTask, CompleteTask,
       ChangeQuietly, LockBoard, ClaimStep, ReadClaim, QuarantineClaim, UpdateClaim, CopyClaim, EndClaim

\* With no claim a step is one of the two kinds above.
LEMMA AloneNext ==
    ASSUME OneSeat
    PROVE  SeatInv /\ SavedAlone /\ [PersistNext]_persistVars => SavedAlone'
<1> SUFFICES ASSUME SeatInv, SavedAlone, [PersistNext]_persistVars, made'.claims = 0 PROVE SavedAlone'
  BY DEF SavedAlone
<1>1. CASE UNCHANGED persistVars
  BY <1>1 DEF persistVars, SavedAlone, Saving, Latest, Read
<1>2. CASE PersistNext
  <2>1. made.claims = 0 /\ ~\E s \in Seat, id \in TaskID, o \in Owner : LockBoard(s, id, o)
    BY <1>2, Recorded, RecordGrows
  <2>2. ~ClaimStep
    <3>1. claim.pc = "none"
      BY <2>1 DEF SavedAlone, NoClaim
    <3> QED BY <3>1 DEF ClaimStep, ReadClaim, QuarantineClaim, UpdateClaim, CopyClaim, EndClaim
  <2>3. ~\E s \in Seat : Quarantine(s)
    BY <2>1 DEF SavedAlone, Quarantine
  <2> QED BY <1>2, <2>1, <2>2, <2>3, AloneWrites, AloneSeats DEF PersistNext
<1> QED BY <1>1, <1>2

LEMMA PersistAlone ==
    ASSUME OneSeat
    PROVE  PersistSpec => [](SeatInv /\ SavedAlone)
BY SeatsStart, SeatsNext, AloneStart, AloneNext, PTL DEF PersistSpec

\* While one seat saves and no claim writes beside it, persistTeamBoardNow leaves a whole
\* snapshot under board.json at every point where the process can die: what it writes in
\* place is always the other name's file.
THEOREM BoardFileIsWhole == OneSeat => (PersistSpec => []FileIsWhole)
<1> SUFFICES ASSUME OneSeat PROVE PersistSpec => []FileIsWhole
  OBVIOUS
<1>1. SeatInv /\ SavedAlone => FileIsWhole
  BY DEF SeatInv, SavedAlone, FileIsWhole
<1> QED BY <1>1, PersistAlone, PTL

\* The saves persistTeamBoardAsync starts may run in any order, and late: when they have
\* run, the file is the seat's board, unless a change of memory asked for no save.
THEOREM LastSaveWins == OneSeat => (PersistSpec => []RestingFileIsCurrent)
<1> SUFFICES ASSUME OneSeat PROVE PersistSpec => []RestingFileIsCurrent
  OBVIOUS
<1>1. SavedAlone => RestingFileIsCurrent
  BY DEF SavedAlone, Latest, RestingFileIsCurrent, Resting, Idle
<1> QED BY <1>1, PersistAlone, PTL

-----------------------------------------------------------------------------
(* One seat that has not restarted, and claims *)

\* Every copy of the board: in memory, in a save under way, in a file.
Copies ==
    {mem[s] : s \in {t \in Seat : mem[t] # Unloaded}}
        \cup {writer[w].snap : w \in Writer} \cup {content[f].board : f \in File}

\* The claim has written the task's owner into memory.
Claims(id) == claim.pc \in {"copy", "written"} /\ claim.id = id

\* Whatever copy or winner there is of a task in progress, o has it.
Settled(id, o) ==
    /\ \A b \in Copies : b[id] \in InProgress => b[id] = o
    /\ \A w \in winners[id] : w[1] = o
    /\ Claims(id) => claim.owner = o

\* Nobody ever had the task.
Untouched(id) ==
    /\ \A b \in Copies : b[id] \notin InProgress
    /\ winners[id] = {}
    /\ ~Claims(id)

\* The inductive invariant: a task has one owner for good, and none while the seat's own
\* board says that it is pending.
OwnerSettled ==
    made.crashes = 0 /\ made.quiet = 0 =>
        /\ loading = {}
        /\ \A s \in Seat : mem[s] = Unloaded => dir.board = 0
        /\ \A id \in TaskID :
              /\ \E o \in InProgress : Settled(id, o)
              /\ \A s \in Seat : mem[s] = Unloaded \/ mem[s][id] \in {"none", "pending"} => Untouched(id)

\* At first nobody has a task.
LEMMA OwnersStart == PersistInit => OwnerSettled
<1> SUFFICES ASSUME PersistInit PROVE OwnerSettled
  OBVIOUS
<1>1. \A b \in Copies : b = Empty
  BY DEF PersistInit, Copies, Idle, Nothing
<1>2. \A id \in TaskID : Untouched(id)
  BY <1>1, SeatAssumption DEF PersistInit, Untouched, Claims, NoClaim, Empty, InProgress
<1>3. \A id \in TaskID : Settled(id, "teammate")
  BY <1>2 DEF Settled, Untouched
<1> QED BY <1>2, <1>3 DEF PersistInit, OwnerSettled, InProgress

\* The copies that reading, saving and renaming leave are old ones, or empty.
LEMMA CopiesMoved ==
    ASSUME SeatInv, mem' = mem,
           \/ \E w \in Writer : Write(w)
           \/ \E s \in Seat : StartSave(s)
           \/ ReadClaim \/ QuarantineClaim \/ CopyClaim \/ EndClaim
           \/ \E s \in Seat, id \in TaskID, o \in Owner : LockBoard(s, id, o)
    PROVE  Copies' \subseteq Copies \cup {Empty}
<1> USE DEF SeatInv
<1>1. ASSUME \A w \in Writer : writer'[w].snap \in Copies \cup {Empty},
             \A f \in File : content'[f].board \in Copies \cup {Empty}
      PROVE  Copies' \subseteq Copies \cup {Empty}
  BY <1>1 DEF Copies
<1>2. /\ \A w \in Writer : writer[w].snap \in Copies
      /\ \A f \in File : content[f].board \in Copies
      /\ \A s \in Seat : mem[s] # Unloaded => mem[s] \in Copies
  BY DEF Copies
<1>3. ASSUME NEW d, NEW v, NEW c, \A f \in File : c[f].board \in Copies \cup {Empty}, NEW f \in File
      PROVE  Swept(d, v, c)[f].board \in Copies \cup {Empty}
  BY <1>3 DEF Swept, Nothing
<1> HIDE DEF Copies
<1>4. ASSUME NEW w \in Writer, OpenTmp(w) PROVE Copies' \subseteq Copies \cup {Empty}
  <2>1. \A x \in Writer : writer'[x].snap = writer[x].snap
    BY <1>4 DEF OpenTmp, PersistTypeOK
  <2>2. \A f \in File : content'[f] \in {Nothing, content[f]}
    BY <1>4 DEF OpenTmp, PersistTypeOK
  <2> QED BY <1>1, <1>2, <2>1, <2>2 DEF Nothing
<1>5. ASSUME NEW w \in Writer, Put(w) PROVE Copies' \subseteq Copies \cup {Empty}
  <2>1. \A x \in Writer : writer'[x].snap = writer[x].snap
    BY <1>5 DEF Put, PersistTypeOK
  <2>2. PICK c \in {Whole(writer[w].snap), Mixture} :
           content' = Swept(dir, writer', [content EXCEPT ![writer[w].fd] = c])
    BY <1>5 DEF Put
  <2>3. c.board \in Copies \cup {Empty}
    BY <1>2, <2>2 DEF Whole, Mixture
  <2>4. \A f \in File : [content EXCEPT ![writer[w].fd] = c][f] \in {c, content[f]}
    BY DEF PersistTypeOK
  <2>5. \A f \in File : [content EXCEPT ![writer[w].fd] = c][f].board \in Copies \cup {Empty}
    BY <1>2, <2>3, <2>4
  <2>6. \A f \in File : content'[f].board \in Copies \cup {Empty}
    BY <1>3, <2>2, <2>5
  <2> QED BY <1>1, <1>2, <2>1, <2>6
<1>6. ASSUME NEW w \in Writer, Rename(w) PROVE Copies' \subseteq Copies \cup {Empty}
  <2>1. \A x \in Writer : writer'[x] \in {Idle, writer[x]}
    BY <1>6 DEF Rename, PersistTypeOK
  <2>3. content' = Swept(dir', writer', content)
    BY <1>6 DEF Rename
  <2>4. \A f \in File : content[f].board \in Copies \cup {Empty}
    BY <1>2
  <2>2. \A f \in File : content'[f].board \in Copies \cup {Empty}
    BY <1>3, <2>3, <2>4
  <2>5. \A x \in Writer : writer'[x].snap \in Copies \cup {Empty}
    BY <1>2, <2>1 DEF Idle
  <2> QED BY <1>1, <2>2, <2>5
<1>7. ASSUME NEW s \in Seat, StartSave(s) PROVE Copies' \subseteq Copies \cup {Empty}
  <2>3. queued[s] > 0
    BY <1>7 DEF StartSave
  <2>1. mem[s] # Unloaded
    BY <2>3 DEF SeatsLoaded
  <2>2. \A x \in Writer : writer'[x].snap \in {mem[s], writer[x].snap}
    BY <1>7 DEF StartSave, PersistTypeOK, Idle
  <2> QED BY <1>1, <1>2, <1>7, <2>1, <2>2 DEF StartSave
<1>8. CASE CopyClaim
  <2>1. mem[claim.seat] # Unloaded /\ claim.seat \in Seat
    BY <1>8 DEF CopyClaim, SeatsLoaded, ClaimNamed
  <2>2. \A x \in Writer : writer'[x].snap \in {mem[claim.seat], writer[x].snap}
    BY <1>8 DEF CopyClaim, PersistTypeOK, Idle
  <2> QED BY <1>1, <1>2, <1>8, <2>1, <2>2 DEF CopyClaim
<1>9. CASE QuarantineClaim
  <2>2. content' = Swept(dir', writer, content)
    BY <1>9 DEF QuarantineClaim, MoveAway
  <2>3. \A f \in File : content[f].board \in Copies \cup {Empty}
    BY <1>2
  <2>1. \A f \in File : content'[f].board \in Copies \cup {Empty}
    BY <1>3, <2>2, <2>3
  <2> QED BY <1>1, <1>2, <1>9, <2>1 DEF QuarantineClaim
<1>10. CASE UNCHANGED <<writer, content>>
  BY <1>1, <1>2, <1>10
<1> QED BY <1>4, <1>5, <1>6, <1>7, <1>8, <1>9, <1>10 DEF Write, ReadClaim, EndClaim, LockBoard

\* A copy that was read or written again adds no owner.
LEMMA SettledMoves ==
    ASSUME Copies' \subseteq Copies \cup {Empty}, NEW id \in TaskID
    PROVE  /\ \A o : /\ Settled(id, o)
                     /\ \A w \in winners'[id] : w \in winners[id] \/ w[1] = o
                     /\ Claims(id)' => claim'.owner = o
                     => Settled(id, o)'
           /\ Untouched(id) /\ winners'[id] = winners[id] /\ ~Claims(id)' => Untouched(id)'
<1>1. Empty[id] \notin InProgress
  BY SeatAssumption DEF Empty, InProgress
<1> HIDE DEF Copies
<1> QED BY <1>1 DEF Settled, Untouched

\* Saves, and the steps of a claim that leave memory alone, move copies about; and a claim is
\* told that it won by what it has written or by a copy.
LEMMA OwnersMove ==
    ASSUME OneSeat, SeatInv, OwnerSettled, made.crashes = 0, made.quiet = 0, mem' = mem,
           \/ \E w \in Writer : Write(w)
           \/ \E s \in Seat : StartSave(s)
           \/ ReadClaim \/ QuarantineClaim \/ CopyClaim \/ EndClaim
           \/ \E s \in Seat, id \in TaskID, o \in Owner : LockBoard(s, id, o)
    PROVE  OwnerSettled'
<1> USE DEF SeatInv
<1>1. Copies' \subseteq Copies \cup {Empty}
  BY CopiesMoved
<1>2. loading' = {}
  BY DEF OwnerSettled, Write, OpenTmp, Put, Rename, StartSave, ReadClaim, QuarantineClaim, CopyClaim, EndClaim,
         LockBoard
<1>3. \A s \in Seat : mem[s] = Unloaded => dir'.board = 0
  <2> SUFFICES ASSUME NEW s \in Seat, mem[s] = Unloaded PROVE dir'.board = 0
    OBVIOUS
  <2>1. claim.pc = "none"
    BY DEF SeatsLoaded, ClaimNamed, OneSeat
  <2>2. \A w \in Writer : writer[w] = Idle
    BY <2>1 DEF SeatsLoaded, OneSeat, Writer
  <2>3. ~\E w \in Writer : Write(w)
    <3>1. \A w \in Writer : writer[w].pc = "none"
      BY <2>2 DEF Idle
    <3> QED BY <3>1 DEF Write, OpenTmp, Put, Rename
  <2>4. dir' = dir \/ QuarantineClaim
    BY <2>3 DEF StartSave, ReadClaim, CopyClaim, EndClaim, LockBoard
  <2> QED BY <2>1, <2>4 DEF OwnerSettled, QuarantineClaim
\* A claim wins what it has written, or what a copy says it has.
<1>4. ASSUME NEW id \in TaskID, NEW o, Settled(id, o)
      PROVE  /\ \A w \in winners'[id] : w \in winners[id] \/ w[1] = o
             /\ Claims(id)' => claim'.owner = o
             /\ Untouched(id) => winners'[id] = winners[id] /\ ~Claims(id)'
  <2>1. ASSUME NEW won \in BOOLEAN, Unlock(won), won /\ claim.id = id => claim.owner = o /\ ~Untouched(id)
        PROVE  /\ \A w \in winners'[id] : w \in winners[id] \/ w[1] = o
               /\ Claims(id)' => claim'.owner = o
               /\ Untouched(id) => winners'[id] = winners[id] /\ ~Claims(id)'
    <3>1. claim'.pc = "none"
      BY <2>1 DEF Unlock, NoClaim
    <3>2. \A w \in winners'[id] : w \in winners[id] \/ (won /\ claim.id = id /\ w = <<claim.owner, claim.seat>>)
      BY <2>1 DEF Unlock, PersistTypeOK
    <3>3. (won /\ claim.id = id) \/ winners'[id] = winners[id]
      BY <2>1 DEF Unlock, PersistTypeOK
    <3> QED BY <2>1, <3>1, <3>2, <3>3 DEF Claims
  <2>2. CASE EndClaim
    <3>1. Unlock(TRUE) /\ claim.pc = "written"
      BY <2>2 DEF EndClaim
    <3> QED BY <1>4, <2>1, <3>1 DEF Settled, Claims, Untouched
  <2>3. CASE ReadClaim
    <3>1. CASE Unlock(Read[claim.id] = claim.owner) /\ Read[claim.id] \in InProgress
      <4>1. Read \in Copies \cup {Empty}
        BY DEF Read, Copies, PersistTypeOK
      <4>2. claim.id \in TaskID
        BY <2>3 DEF ReadClaim, SeatsLoaded, ClaimNamed
      <4>3. Read \in Copies
        BY <3>1, <4>1, <4>2, SeatAssumption DEF Empty, InProgress
      <4> HIDE DEF Read, Copies
      <4>4. Read[claim.id] = claim.owner /\ claim.id = id => claim.owner = o /\ ~Untouched(id)
        BY <1>4, <3>1, <4>3 DEF Settled, Untouched
      <4> QED BY <2>1, <3>1, <4>4
    <3>2. CASE claim'.pc \notin {"copy", "written"} /\ winners' = winners
      BY <3>2 DEF Claims
    <3>3. \/ Unlock(Read[claim.id] = claim.owner) /\ Read[claim.id] \in InProgress
          \/ /\ \/ claim' = [claim EXCEPT !.pc = "quarantine"]
                \/ claim' = [claim EXCEPT !.pc = "update"]
             /\ winners' = winners
      BY <2>3 DEF ReadClaim
    <3> QED BY <3>1, <3>2, <3>3 DEF PersistTypeOK
  <2>4. CASE CopyClaim
    <3>1. claim.pc = "copy" /\ claim' = [claim EXCEPT !.pc = "written"] /\ winners' = winners
      BY <2>4 DEF CopyClaim
    <3>2. claim'.id = claim.id /\ claim'.owner = claim.owner
      BY <3>1 DEF PersistTypeOK
    <3> QED BY <1>4, <3>1, <3>2 DEF Settled, Claims, Untouched
  <2>5. CASE QuarantineClaim \/ \E s \in Seat, i \in TaskID, p \in Owner : LockBoard(s, i, p)
    <3>1. claim'.pc \in {"update", "read"} /\ winners' = winners
      BY <2>5 DEF QuarantineClaim, LockBoard, PersistTypeOK
    <3> QED BY <3>1 DEF Claims
  <2>6. CASE (\E w \in Writer : Write(w)) \/ \E s \in Seat : StartSave(s)
    <3>1. UNCHANGED <<claim, winners>>
      BY <2>6 DEF Write, OpenTmp, Put, Rename, StartSave
    <3> QED BY <1>4, <3>1 DEF Settled, Claims, Untouched
  <2> QED BY <2>2, <2>3, <2>4, <2>5, <2>6
<1>5. ASSUME NEW id \in TaskID
      PROVE  /\ \E o \in InProgress : Settled(id, o)'
             /\ Untouched(id) => Untouched(id)'
  <2>1. PICK o \in InProgress : Settled(id, o)
    BY DEF OwnerSettled
  <2> QED BY <1>1, <1>4, <2>1, SettledMoves
<1> QED BY <1>2, <1>3, <1>5 DEF OwnerSettled

\* The only seat changes one task of its board.
LEMMA CopiesChanged ==
    ASSUME OneSeat, SeatInv, NEW s \in Seat, mem[s] # Unloaded, NEW id \in TaskID, NEW v,
           mem' = [mem EXCEPT ![s][id] = v], UNCHANGED <<writer, content>>, mem'[s] # Unloaded
    PROVE  /\ mem'[s][id] = v /\ \A x \in TaskID \ {id} : mem'[s][x] = mem[s][x]
           /\ \A b \in Copies' : b \in Copies \/ b = mem'[s]
           /\ mem[s] \in Copies
<1>1. mem[s] \in Board
  BY DEF SeatInv, PersistTypeOK
<1>2. mem'[s] = [mem[s] EXCEPT ![id] = v]
  BY DEF SeatInv, PersistTypeOK
<1>3. mem'[s][id] = v /\ \A x \in TaskID \ {id} : mem'[s][x] = mem[s][x]
  BY <1>1, <1>2 DEF Board
<1> QED BY <1>3 DEF Copies, OneSeat

\* A task is created, completed or claimed in memory.
LEMMA OwnersChange ==
    ASSUME OneSeat, SeatInv, SeatInv', OwnerSettled, made.crashes = 0, made.quiet = 0,
           \/ \E s \in Seat, id \in TaskID : CreateTask(s, id) \/ CompleteTask(s, id)
           \/ UpdateClaim
    PROVE  OwnerSettled'
<1> USE DEF SeatInv
<1>1. CASE mem' = mem
  <2>1. UpdateClaim /\ ~Pending(claim.seat, claim.id)
    <3>1. ASSUME NEW s \in Seat, NEW id \in TaskID, NEW v, mem[s] # Unloaded, mem[s][id] # v,
                 mem' = [mem EXCEPT ![s][id] = v]
          PROVE  FALSE
      <4>1. mem[s] \in Board
        BY <3>1 DEF PersistTypeOK
      <4>2. mem'[s][id] = v
        BY <3>1, <4>1 DEF PersistTypeOK, Board
      <4> QED BY <1>1, <3>1, <4>2
    <3>2. ~\E s \in Seat, id \in TaskID : CreateTask(s, id) \/ CompleteTask(s, id)
      BY <3>1 DEF CreateTask, CompleteTask
    <3>3. UpdateClaim
      BY <3>2
    <3>4. claim.seat \in Seat /\ claim.id \in TaskID /\ claim.owner \in Owner /\ mem[claim.seat] # Unloaded
      BY <3>3 DEF UpdateClaim, SeatsLoaded, ClaimNamed
    <3>5. ASSUME Pending(claim.seat, claim.id) PROVE FALSE
      <4>1. mem[claim.seat][claim.id] # claim.owner
        BY <3>4, <3>5, SeatAssumption DEF Pending
      <4>2. mem' = [mem EXCEPT ![claim.seat][claim.id] = claim.owner]
        BY <3>3, <3>5 DEF UpdateClaim
      <4> QED BY <3>1, <3>4, <4>1, <4>2
    <3> QED BY <3>3, <3>5
  <2>2. claim' = NoClaim /\ UNCHANGED <<winners, dir, content, writer, loading>>
    BY <2>1 DEF UpdateClaim, Unlock
  <2>3. Copies' = Copies
    BY <1>1, <2>2 DEF Copies
  <2>4. \A id \in TaskID : ~Claims(id)'
    BY <2>2 DEF Claims, NoClaim
  <2> HIDE DEF Copies
  <2>5. \A id \in TaskID : \A o : (Settled(id, o) => Settled(id, o)') /\ (Untouched(id) => Untouched(id)')
    BY <2>2, <2>3, <2>4 DEF Settled, Untouched
  <2> QED BY <1>1, <2>2, <2>5 DEF OwnerSettled
\* One task changes: nobody has it before it is taken, and it stays settled.
<1>2. ASSUME NEW s \in Seat, NEW id \in TaskID, NEW v, mem[s] # Unloaded,
             mem' = [mem EXCEPT ![s][id] = v], UNCHANGED <<dir, content, writer, loading>>,
             \A x \in TaskID \ {id} : winners'[x] = winners[x] /\ (Claims(x)' => Claims(x)),
             \/ v = "pending" /\ mem[s][id] = "none" /\ winners'[id] = winners[id] /\ claim' = claim
             \/ v = "completed" /\ winners'[id] = {} /\ claim' = claim
             \/ /\ v \in Owner /\ v = claim'.owner /\ mem[s][id] = "pending"
                /\ winners'[id] = winners[id] /\ claim'.owner = claim.owner
      PROVE  OwnerSettled'
  <2>1. mem'[s] # Unloaded /\ \A t \in Seat : t = s
    <3>1. [mem[s] EXCEPT ![id] = v] \in Board
      BY <1>2 DEF PersistTypeOK, Board, InProgress
    <3> QED BY <1>2, <3>1, UnloadedAssumption DEF OneSeat, PersistTypeOK
  <2>2. /\ mem'[s][id] = v /\ \A x \in TaskID \ {id} : mem'[s][x] = mem[s][x]
        /\ \A b \in Copies' : b \in Copies \/ b = mem'[s]
        /\ mem[s] \in Copies
    BY <1>2, <2>1, CopiesChanged
  <2> HIDE DEF Copies
  <2>3. ASSUME NEW x \in TaskID \ {id}, NEW o, Settled(x, o)
        PROVE  Settled(x, o)' /\ (Untouched(x) => Untouched(x)')
    <3>1. \A b \in Copies' : b[x] = mem[s][x] \/ b \in Copies
      BY <2>2
    <3>2. Claims(x)' => claim'.owner = claim.owner
      BY <1>2
    <3> QED BY <1>2, <2>2, <2>3, <3>1, <3>2 DEF Settled, Untouched
  <2>4. \E o \in InProgress : Settled(id, o)'
    <3>1. CASE v \in {"pending", "completed"} /\ claim' = claim
      <4>1. PICK o \in InProgress : Settled(id, o)
        BY DEF OwnerSettled
      <4>2. v \notin InProgress
        BY <3>1, SeatAssumption DEF InProgress
      <4>3. Claims(id)' => claim'.owner = o
        BY <3>1, <4>1 DEF Settled, Claims
      <4>4. \A w \in winners'[id] : w[1] = o
        BY <1>2, <4>1 DEF Settled
      <4>5. \A b \in Copies' : b[id] \in InProgress => b[id] = o
        BY <2>2, <4>1, <4>2 DEF Settled
      <4> QED BY <4>1, <4>3, <4>4, <4>5 DEF Settled
    <3>2. CASE v \in Owner /\ v = claim'.owner /\ mem[s][id] = "pending" /\ winners'[id] = winners[id]
      <4>1. Untouched(id)
        BY <3>2 DEF OwnerSettled
      <4>2. v \in InProgress
        BY <3>2 DEF InProgress
      <4>3. Settled(id, v)'
        BY <2>2, <3>2, <4>1 DEF Settled, Untouched
      <4> QED BY <4>2, <4>3
    <3> QED BY <1>2, <3>1, <3>2
  <2>5. v \in {"none", "pending"} => Untouched(id)'
    <3>1. CASE v = "pending" /\ mem[s][id] = "none" /\ winners'[id] = winners[id] /\ claim' = claim
      <4>1. Untouched(id)
        BY <3>1 DEF OwnerSettled
      <4> QED BY <2>2, <3>1, <4>1, SeatAssumption DEF Untouched, Claims, InProgress
    <3> QED BY <1>2, <3>1, SeatAssumption
  <2>6. ASSUME NEW x \in TaskID
        PROVE  /\ \E o \in InProgress : Settled(x, o)'
               /\ mem'[s] = Unloaded \/ mem'[s][x] \in {"none", "pending"} => Untouched(x)'
    <3>1. CASE x = id
      BY <2>1, <2>2, <2>4, <2>5, <3>1
    <3>2. CASE x # id
      <4>1. PICK o \in InProgress : Settled(x, o)
        BY DEF OwnerSettled
      <4>2. mem[s][x] \in {"none", "pending"} => Untouched(x)
        BY DEF OwnerSettled
      <4> QED BY <2>1, <2>2, <2>3, <3>2, <4>1, <4>2
    <3> QED BY <3>1, <3>2
  <2> QED BY <1>2, <2>1, <2>6 DEF OwnerSettled
<1>3. ASSUME NEW s \in Seat, NEW id \in TaskID, CreateTask(s, id) PROVE OwnerSettled'
  <2>1. UNCHANGED <<claim, winners, dir, content, writer, loading>> /\ mem[s] # Unloaded /\ mem[s][id] = "none"
        /\ mem' = [mem EXCEPT ![s][id] = "pending"]
    BY <1>3 DEF CreateTask
  <2> QED BY <1>2, <2>1 DEF Claims
<1>4. ASSUME NEW s \in Seat, NEW id \in TaskID, CompleteTask(s, id) PROVE OwnerSettled'
  <2>1. UNCHANGED <<claim, dir, content, writer, loading>> /\ mem[s] # Unloaded
        /\ mem' = [mem EXCEPT ![s][id] = "completed"]
    BY <1>4 DEF CompleteTask
  <2>2. winners'[id] = {} /\ \A x \in TaskID \ {id} : winners'[x] = winners[x]
    BY <1>4 DEF CompleteTask, PersistTypeOK
  <2> QED BY <1>2, <2>1, <2>2 DEF Claims
<1>5. CASE UpdateClaim /\ mem' # mem
  <2>1. claim.seat \in Seat /\ claim.id \in TaskID /\ claim.owner \in Owner /\ mem[claim.seat] # Unloaded
    BY <1>5 DEF UpdateClaim, SeatsLoaded, ClaimNamed
  <2>2. /\ mem' = [mem EXCEPT ![claim.seat][claim.id] = claim.owner]
        /\ mem[claim.seat][claim.id] = "pending"
        /\ claim' = [claim EXCEPT !.pc = "copy"]
        /\ UNCHANGED <<winners, dir, content, writer, loading>>
    BY <1>5 DEF UpdateClaim, Pending
  <2>3. claim'.owner = claim.owner /\ claim'.id = claim.id
    BY <2>2 DEF PersistTypeOK
  <2>4. \A x \in TaskID \ {claim.id} : ~Claims(x)'
    BY <2>3 DEF Claims
  <2> QED BY <1>2, <2>1, <2>2, <2>3, <2>4
<1> QED BY <1>1, <1>3, <1>4, <1>5

\* Every step keeps the owners settled.
LEMMA OwnersNext ==
    ASSUME OneSeat
    PROVE  SeatInv /\ OwnerSettled /\ [PersistNext]_persistVars => OwnerSettled'
<1> SUFFICES ASSUME SeatInv, OwnerSettled, [PersistNext]_persistVars, made'.crashes = 0, made'.quiet = 0
             PROVE  OwnerSettled'
  BY DEF OwnerSettled
<1>1. CASE UNCHANGED persistVars
  BY <1>1 DEF persistVars, OwnerSettled, Settled, Untouched, Copies, Claims
<1>2. CASE PersistNext
  <2>1. /\ made.crashes = 0 /\ made.quiet = 0
        /\ ~\E s \in Seat : Crash(s)
        /\ ~\E s \in Seat, id \in TaskID : \E v \in {"pending", "completed", "teammate"} : ChangeQuietly(s, id, v)
    BY <1>2, Recorded, RecordGrows
  <2>2. SeatInv'
    BY <1>2, SeatsNext
  <2>3. ~\E s \in Seat : Quarantine(s)
    BY <2>1 DEF OwnerSettled, Quarantine
  <2>4. ASSUME NEW s \in Seat, Load(s) PROVE OwnerSettled'
    <3>1. dir.board = 0 /\ mem[s] = Unloaded /\ \A t \in Seat : t = s
      BY <2>1, <2>4 DEF Load, OwnerSettled, OneSeat
    <3>2. ~Torn /\ RolledBack(Read) = Empty
      BY <3>1, SeatAssumption DEF Torn, Read, RolledBack, Empty, InProgress
    <3>3. mem'[s] = Empty /\ UNCHANGED <<loading, dir, content, writer, claim, winners>>
      BY <2>4, <3>2 DEF Load, SeatInv, PersistTypeOK
    <3>4. Copies' \subseteq Copies \cup {Empty}
      BY <3>1, <3>3 DEF Copies
    <3>5. \A id \in TaskID : Untouched(id)
      BY <2>1, <3>1 DEF OwnerSettled
    <3>6. \A id \in TaskID : ~Claims(id)'
      BY <3>3, <3>5 DEF Claims, Untouched
    <3>7. \A id \in TaskID : Untouched(id)'
      BY <3>3, <3>4, <3>5, <3>6, SettledMoves
    <3>8. \A id \in TaskID : Settled(id, "teammate")'
      BY <3>7 DEF Settled, Untouched
    <3> QED BY <2>1, <3>1, <3>3, <3>7, <3>8, BoardTypes DEF OwnerSettled, InProgress
  <2>5. CASE \E w \in Writer : Write(w)
    <3>1. mem' = mem
      BY <2>5 DEF Write, OpenTmp, Put, Rename
    <3> QED BY <2>1, <2>5, <3>1, OwnersMove
  <2>6. CASE (\E s \in Seat : StartSave(s)) \/ \E s \in Seat, id \in TaskID, o \in Owner : LockBoard(s, id, o)
    <3>1. mem' = mem
      BY <2>6 DEF StartSave, LockBoard
    <3> QED BY <2>1, <2>6, <3>1, OwnersMove
  <2>7. CASE ClaimStep
    <3>1. UpdateClaim \/ mem' = mem
      BY <2>7 DEF ClaimStep, ReadClaim, QuarantineClaim, CopyClaim, EndClaim
    <3> QED BY <2>1, <2>2, <2>7, <3>1, OwnersMove, OwnersChange DEF ClaimStep
  <2>8. CASE \E s \in Seat, id \in TaskID : CreateTask(s, id) \/ CompleteTask(s, id)
    BY <2>1, <2>2, <2>8, OwnersChange
  <2> QED BY <1>2, <2>1, <2>3, <2>4, <2>5, <2>6, <2>7, <2>8 DEF PersistNext
<1> QED BY <1>1, <1>2

\* With one seat that has not restarted, ClaimTaskSingleWinner tells one owner at most that
\* it has a task: through saves that overlap the claim's own write, torn and quarantined
\* files, and files that are older than memory.
THEOREM OneWinnerPerTask == OneSeat => (PersistSpec => []OneWinnerUntilRestart)
<1> SUFFICES ASSUME OneSeat PROVE PersistSpec => []OneWinnerUntilRestart
  OBVIOUS
<1>1. PersistSpec => [](SeatInv /\ OwnerSettled)
  BY SeatsStart, SeatsNext, OwnersStart, OwnersNext, PTL DEF PersistSpec
<1>2. OwnerSettled => OneWinnerUntilRestart
  BY DEF OwnerSettled, Settled, OneWinnerUntilRestart
<1> QED BY <1>1, <1>2, PTL
=============================================================================
