---------------------------- MODULE BoardPersist ----------------------------
(***************************************************************************)
(* The file a team's task board is kept in (internal/swarm/board_persist): *)
(* its asynchronous saves, the single-winner claim that goes through it,   *)
(* and loading it after a restart.                                         *)
(*                                                                         *)
(* A seat is a process; the seats that have a team of the same id share    *)
(* the file board.json, the file board.json.tmp every save goes through,   *)
(* and the lock file.  Saves of one seat exclude each other (persistMu),   *)
(* claims of all seats exclude each other (the lock), but a save and a     *)
(* claim, and the saves of two seats, do not.  The file system is external:*)
(* names for files, and files that stay writable after a rename.           *)
(***************************************************************************)
EXTENDS Integers, FiniteSets

CONSTANTS
    Seat,
    TaskID,
    Owner,          \* who swarm_task_claim claims for
    Claimer,        \* the writer inside a claim
    Unloaded,       \* Team.Tasks is nil
    Creator,        \* bound: the seats that create tasks
    MaxCalls,       \* bound: tasks created and completed by tools
    MaxClaims,      \* bound: claims
    MaxQuiet,       \* bound: changes of memory alone
    MaxCrashes      \* bound: crashes

ASSUME SeatAssumption ==
    /\ IsFiniteSet(Seat) /\ Claimer \notin Seat /\ Creator \subseteq Seat
    /\ IsFiniteSet(TaskID) /\ TaskID \subseteq Nat \ {0}
    /\ {MaxCalls, MaxClaims, MaxQuiet, MaxCrashes} \subseteq Nat
    /\ Owner \cap {"none", "pending", "completed"} = {}

VARIABLES
    mem,        \* each seat's board
    queued,     \* the saves persistTeamBoardAsync has started and not yet run
    unsaved,    \* the seats with changes no save was asked for
    dir,        \* the file each of the two names stands for, 0 for none
    content,    \* what is in each file
    writer,     \* each writer's place, open file and snapshot
    claim,      \* the claim that holds the lock
    loading,    \* the seats that found a torn file and will quarantine it
    winners,    \* history: who was told, in which seat, that it claimed a task
    made        \* how many calls, claims, silent changes and crashes

persistVars == <<mem, queued, unsaved, dir, content, writer, claim, loading, winners, made>>

-----------------------------------------------------------------------------
(* Values *)

\* A task in progress is its owner; "teammate" stands for the teammates whose
\* runner claims without a tool.
InProgress == Owner \cup {"teammate"}

Board == [TaskID -> {"none", "pending", "completed"} \cup InProgress]

ASSUME UnloadedAssumption == Unloaded \notin Board

Empty == [id \in TaskID |-> "none"]

\* What a file holds: nothing yet, a snapshot, or one cut into another.
Bytes == [kind : {"empty", "whole", "torn"}, board : Board]

Nothing == [kind |-> "empty", board |-> Empty]
Mixture == [kind |-> "torn", board |-> Empty]
Whole(b) == [kind |-> "whole", board |-> b]

Writer == Seat \cup {Claimer}

File == 1 .. (Cardinality(Writer) + 2)

Idle == [pc |-> "none", fd |-> 0, snap |-> Empty]

NoClaim == [pc |-> "none", seat |-> Claimer, id |-> 0, owner |-> Claimer]

\* Files no name and no open descriptor leads to are gone.
Referenced(d, w) == {d.board, d.tmp} \cup {w[x].fd : x \in Writer}

Swept(d, w, c) == [f \in File |-> IF f \in Referenced(d, w) THEN c[f] ELSE Nothing]

Count(what) == made' = [made EXCEPT ![what] = @ + 1]

-----------------------------------------------------------------------------
(* Reading the file *)

Torn == dir.board # 0 /\ content[dir.board].kind = "torn"

\* loadTeamBoardRaw: a missing and an empty file are an empty board.
Read == IF dir.board = 0 THEN Empty ELSE content[dir.board].board

\* loadTeamBoard gives every claim back.
RolledBack(b) == [id \in TaskID |-> IF b[id] \in InProgress THEN "pending" ELSE b[id]]

\* The torn file is renamed away, or whatever has its name by now.
MoveAway ==
    /\ dir' = [dir EXCEPT !.board = 0]
    /\ content' = Swept(dir', writer, content)

\* EnsureTaskManager, the first time a seat uses the board.
Load(s) ==
    /\ mem[s] = Unloaded /\ s \notin loading
    /\ IF Torn
         THEN loading' = loading \cup {s} /\ UNCHANGED <<mem, unsaved>>
         ELSE /\ mem' = [mem EXCEPT ![s] = RolledBack(Read)]
              /\ unsaved' = IF RolledBack(Read) = Read THEN unsaved ELSE unsaved \cup {s}
              /\ UNCHANGED loading
    /\ UNCHANGED <<queued, dir, content, writer, claim, winners, made>>

Quarantine(s) ==
    /\ s \in loading
    /\ MoveAway
    /\ mem' = [mem EXCEPT ![s] = Empty]
    /\ loading' = loading \ {s}
    /\ UNCHANGED <<queued, unsaved, writer, claim, winners, made>>

-----------------------------------------------------------------------------
(* Saving: persistTeamBoardNow, step by step *)

\* The save's turn: persistMu is free, and the board is copied.
StartSave(s) ==
    /\ queued[s] > 0 /\ writer[s].pc = "none"
    /\ queued' = [queued EXCEPT ![s] = @ - 1]
    /\ writer' = [writer EXCEPT ![s] = [Idle EXCEPT !.pc = "open", !.snap = mem[s]]]
    /\ unsaved' = unsaved \ {s}
    /\ UNCHANGED <<mem, dir, content, claim, loading, winners, made>>

\* Mutant: the board is written in place.
OpenInPlace(w) ==
    /\ writer[w].pc = "open"
    /\ LET f == IF dir.board # 0 THEN dir.board ELSE CHOOSE x \in File : x \notin Referenced(dir, writer)
       IN  /\ dir' = [dir EXCEPT !.board = f]
           /\ content' = [content EXCEPT ![f] = Nothing]
           /\ writer' = [writer EXCEPT ![w].pc = "put", ![w].fd = f]
    /\ UNCHANGED <<mem, queued, unsaved, claim, loading, winners, made>>

\* os.WriteFile opens board.json.tmp and truncates it ...
OpenTmp(w) ==
    /\ writer[w].pc = "open"
    /\ LET f == IF dir.tmp # 0 THEN dir.tmp ELSE CHOOSE x \in File : x \notin Referenced(dir, writer)
       IN  /\ dir' = [dir EXCEPT !.tmp = f]
           /\ content' = [content EXCEPT ![f] = Nothing]
           /\ writer' = [writer EXCEPT ![w].pc = "put", ![w].fd = f]
    /\ UNCHANGED <<mem, queued, unsaved, claim, loading, winners, made>>

\* ... and writes: over what another writer put there since, a shorter
\* snapshot leaves the other's tail behind.
Put(w) ==
    LET f == writer[w].fd
        snap == Whole(writer[w].snap)
    IN  /\ writer[w].pc = "put"
        /\ writer' = [writer EXCEPT ![w].pc = "rename", ![w].fd = 0]
        /\ \E c \in {snap} \cup (IF content[f] \in {Nothing, snap} THEN {} ELSE {Mixture}) :
               content' = Swept(dir, writer', [content EXCEPT ![f] = c])
        /\ UNCHANGED <<mem, queued, unsaved, dir, claim, loading, winners, made>>

\* The name board.json.tmp becomes board.json; without it the save fails.
Rename(w) ==
    /\ writer[w].pc = "rename"
    /\ dir' = IF dir.tmp # 0 THEN [board |-> dir.tmp, tmp |-> 0] ELSE dir
    /\ writer' = [writer EXCEPT ![w] = Idle]
    /\ content' = Swept(dir', writer', content)
    /\ UNCHANGED <<mem, queued, unsaved, claim, loading, winners, made>>

-----------------------------------------------------------------------------
(* The tools, other than the claim *)

EmitBoardUpdated(s) == queued' = [queued EXCEPT ![s] = @ + 1]

CreateTask(s, id) ==
    /\ s \in Creator
    /\ made.calls < MaxCalls /\ Count("calls")
    /\ mem[s] # Unloaded
    /\ mem[s][id] = "none" /\ \A x \in TaskID : x < id => mem[s][x] # "none"
    /\ mem' = [mem EXCEPT ![s][id] = "pending"]
    /\ EmitBoardUpdated(s)
    /\ UNCHANGED <<unsaved, dir, content, writer, claim, loading, winners>>

\* Mutant: the completion is not announced.
CompleteSilently(s, id) ==
    /\ made.calls < MaxCalls /\ Count("calls")
    /\ mem[s] # Unloaded /\ mem[s][id] \notin {"none", "completed"}
    /\ mem' = [mem EXCEPT ![s][id] = "completed"]
    /\ winners' = [winners EXCEPT ![id] = {}]
    /\ UNCHANGED <<queued, unsaved, dir, content, writer, claim, loading>>

CompleteTask(s, id) ==
    /\ made.calls < MaxCalls /\ Count("calls")
    /\ mem[s] # Unloaded /\ mem[s][id] \notin {"none", "completed"}
    /\ mem' = [mem EXCEPT ![s][id] = "completed"]
    /\ EmitBoardUpdated(s)
    /\ winners' = [winners EXCEPT ![id] = {}]
    /\ UNCHANGED <<unsaved, dir, content, writer, claim, loading>>

\* The runners and the reviews change the board without a save: a claim, a
\* completion, a task given back or reopened.
ChangeQuietly(s, id, v) ==
    /\ made.quiet < MaxQuiet /\ Count("quiet")
    /\ mem[s] # Unloaded /\ mem[s][id] # "none"
    /\ v # mem[s][id] /\ (v = "teammate" => mem[s][id] = "pending")
    /\ mem' = [mem EXCEPT ![s][id] = v]
    /\ unsaved' = unsaved \cup {s}
    /\ winners' = [winners EXCEPT ![id] = {}]
    /\ UNCHANGED <<queued, dir, content, writer, claim, loading>>

-----------------------------------------------------------------------------
(* ClaimTaskSingleWinner *)

LockBoard(s, id, o) ==
    /\ made.claims < MaxClaims /\ Count("claims")
    /\ mem[s] # Unloaded
    /\ claim.pc = "none"
    /\ claim' = [pc |-> "read", seat |-> s, id |-> id, owner |-> o]
    /\ UNCHANGED <<mem, queued, unsaved, dir, content, writer, loading, winners>>

\* Unlocked; a claim that was won is announced by the tool.
Unlock(won) ==
    /\ claim' = NoClaim
    /\ IF won
         THEN /\ EmitBoardUpdated(claim.seat)
              /\ winners' = [winners EXCEPT ![claim.id] = @ \cup {<<claim.owner, claim.seat>>}]
         ELSE UNCHANGED <<queued, winners>>

\* What the file says decides, if it says that the task is claimed.
ReadClaim ==
    LET on == Read[claim.id]
    IN  /\ claim.pc = "read"
        /\ IF Torn
             THEN claim' = [claim EXCEPT !.pc = "quarantine"] /\ UNCHANGED <<queued, winners>>
             ELSE IF on \in InProgress
             THEN Unlock(on = claim.owner)
             ELSE claim' = [claim EXCEPT !.pc = "update"] /\ UNCHANGED <<queued, winners>>
        /\ UNCHANGED <<mem, unsaved, dir, content, writer, loading, made>>

QuarantineClaim ==
    /\ claim.pc = "quarantine"
    /\ MoveAway
    /\ claim' = [claim EXCEPT !.pc = "update"]
    /\ UNCHANGED <<mem, queued, unsaved, writer, loading, winners, made>>

\* Mutant: the update does not expect the task to be pending.
NotCompleted(s, id) == mem[s][id] \notin {"none", "completed"}

Pending(s, id) == mem[s][id] = "pending"

\* Otherwise the seat's own board does ...
UpdateClaim ==
    LET s == claim.seat
    IN  /\ claim.pc = "update"
        /\ IF Pending(s, claim.id)
             THEN /\ mem' = [mem EXCEPT ![s][claim.id] = claim.owner]
                  /\ claim' = [claim EXCEPT !.pc = "copy"]
                  /\ UNCHANGED <<queued, winners>>
             ELSE Unlock(FALSE) /\ UNCHANGED mem
        /\ UNCHANGED <<unsaved, dir, content, writer, loading, made>>

\* ... and the board is written at once.
CopyClaim ==
    /\ claim.pc = "copy"
    /\ writer' = [writer EXCEPT ![Claimer] = [Idle EXCEPT !.pc = "open", !.snap = mem[claim.seat]]]
    /\ claim' = [claim EXCEPT !.pc = "written"]
    /\ unsaved' = unsaved \ {claim.seat}
    /\ UNCHANGED <<mem, queued, dir, content, loading, winners, made>>

EndClaim ==
    /\ claim.pc = "written" /\ writer[Claimer].pc = "none"
    /\ Unlock(TRUE)
    /\ UNCHANGED <<mem, unsaved, dir, content, writer, loading, made>>

-----------------------------------------------------------------------------
\* A process dies, with its goroutines and its lock; its agents are gone.
Crash(s) ==
    LET dead == {s} \cup (IF claim.seat = s THEN {Claimer} ELSE {})
    IN  /\ made.crashes < MaxCrashes /\ Count("crashes")
        /\ mem[s] # Unloaded
        /\ mem' = [mem EXCEPT ![s] = Unloaded]
        /\ queued' = [queued EXCEPT ![s] = 0]
        /\ unsaved' = unsaved \ {s}
        /\ loading' = loading \ {s}
        /\ writer' = [w \in Writer |-> IF w \in dead THEN Idle ELSE writer[w]]
        /\ content' = Swept(dir, writer', content)
        /\ claim' = IF claim.seat = s THEN NoClaim ELSE claim
        /\ winners' = [id \in TaskID |-> {w \in winners[id] : w[2] # s}]
        /\ UNCHANGED dir

PersistInit ==
    /\ mem = [s \in Seat |-> Unloaded]
    /\ queued = [s \in Seat |-> 0]
    /\ unsaved = {}
    /\ dir = [board |-> 0, tmp |-> 0]
    /\ content = [f \in File |-> Nothing]
    /\ writer = [w \in Writer |-> Idle]
    /\ claim = NoClaim
    /\ loading = {}
    /\ winners = [id \in TaskID |-> {}]
    /\ made = [calls |-> 0, claims |-> 0, quiet |-> 0, crashes |-> 0]

Write(w) == OpenTmp(w) \/ Put(w) \/ Rename(w)

ClaimStep == ReadClaim \/ QuarantineClaim \/ UpdateClaim \/ CopyClaim \/ EndClaim

PersistNext ==
    \/ \E s \in Seat : Load(s) \/ Quarantine(s) \/ StartSave(s) \/ Crash(s)
    \/ \E w \in Writer : Write(w)
    \/ \E s \in Seat, id \in TaskID :
          \/ CreateTask(s, id) \/ CompleteTask(s, id)
          \/ \E v \in {"pending", "completed", "teammate"} : ChangeQuietly(s, id, v)
          \/ \E o \in Owner : LockBoard(s, id, o)
    \/ ClaimStep

PersistSpec == PersistInit /\ [][PersistNext]_persistVars

-----------------------------------------------------------------------------
(* Properties *)

\* Every variable has its type.
PersistTypeOK ==
    /\ mem \in [Seat -> Board \cup {Unloaded}]
    /\ queued \in [Seat -> Nat]
    /\ unsaved \subseteq Seat /\ loading \subseteq Seat
    /\ dir \in [board : File \cup {0}, tmp : File \cup {0}]
    /\ content \in [File -> Bytes]
    /\ writer \in [Writer -> [pc : {"none", "open", "put", "rename"}, fd : File \cup {0}, snap : Board]]
    /\ claim \in [pc : {"none", "read", "quarantine", "update", "copy", "written"},
                 seat : Seat \cup {Claimer}, id : TaskID \cup {0}, owner : Owner \cup {Claimer}]
    /\ winners \in [TaskID -> SUBSET (Owner \X Seat)]
    /\ made \in [calls : Nat, claims : Nat, quiet : Nat, crashes : Nat]

\* The state has its type; and while a single seat saves, and no claim writes
\* beside it, the file is never torn or empty: a crash at any point leaves a
\* whole snapshot.
FileIsWhole ==
    /\ PersistTypeOK
    /\ made.claims = 0 /\ dir.board # 0 => content[dir.board].kind = "whole"

Resting(s) ==
    /\ mem[s] # Unloaded /\ queued[s] = 0 /\ writer[s] = Idle /\ s \notin unsaved
    /\ claim = NoClaim

\* When the saves of a single seat have run, and no claim wrote beside them,
\* the file is its board: the last save to run has the last word, whatever
\* order they were started in.
RestingFileIsCurrent == made.claims = 0 => \A s \in Seat : Resting(s) => Read = mem[s]

\* Two owners are not both told that they claimed a task, as long as there is
\* one seat, it has not restarted and nobody reopened the task.
OneWinnerUntilRestart ==
    made.crashes = 0 /\ made.quiet = 0 => \A id \in TaskID : \A v, w \in winners[id] : v[1] = w[1]

-----------------------------------------------------------------------------
(* What the repository says, and the code does not do *)

\* "exactly one winner expected" and "seatB must lose the cross-seat claim
\* race" (zz_issue4781_test.go).
OneWinner == \A id \in TaskID : \A v, w \in winners[id] : v[1] = w[1]
=============================================================================
