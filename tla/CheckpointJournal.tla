------------------------- MODULE CheckpointJournal -------------------------
(***************************************************************************)
(* The undo history of file edits (internal/checkpoint/checkpoint.go) and  *)
(* the journal it is rebuilt from (internal/checkpoint/journal.go).        *)
(*                                                                         *)
(* Every operation of the Manager holds m.mu from its first read to its    *)
(* journal append, so one action is one operation; inside it the process   *)
(* can die between the change of the files and the append.  The journal is *)
(* a log that is only ever folded, event by event, into a Manager: durable *)
(* is the fold of the lines a loader reads.                                *)
(***************************************************************************)
EXTENDS Naturals, SequencesExt

CONSTANTS
    File,           \* bound: the files that are edited
    Content,        \* bound: the contents of files
    Empty,          \* the content of an empty file
    Absent,         \* what is at the path of a file that does not exist
    Initial,        \* bound: what is at the paths at first
    Written,        \* bound: what the tools write; Absent is a deletion
    MaxCheckpoints, \* Manager.maxCheckpoints
    MaxSaves,       \* bound: the checkpoints that are made
    MaxRuns,        \* bound: the agent runs that are started
    MaxCorrections, \* bound: the corrections kept
    MaxFaults       \* bound: the crashes, restarts and failed appends

ASSUME CheckpointAssumption ==
    /\ Empty \in Content
    /\ Absent \notin Content
    /\ Initial \cup Written \subseteq Content \cup {Absent}
    /\ MaxCheckpoints \in Nat \ {0}
    /\ {MaxSaves, MaxRuns, MaxCorrections, MaxFaults} \subseteq Nat

VARIABLES
    disk,       \* what is at each path
    live,       \* the Manager
    durable,    \* the Manager that replaying the journal file gives
    journal,    \* Manager.journal: "on"; "unread" if the file could not be loaded; "off"
    readable,   \* no line of the file is longer than the loader's buffer
    inRun,      \* the agent is in a run that it started
    runs,       \* how many runs were started; the last one's id
    saves,      \* how many checkpoints were made; the last one's id
    faults,
    before,     \* history: what was on disk when a run made its first edit
    skewed,     \* history: files that a crash or a failed revert left out of step
    broken      \* history: files whose checkpoints do not follow one another

vars == <<disk, live, durable, journal, readable, inRun, runs, saves, faults,
          before, skewed, broken>>

-----------------------------------------------------------------------------
(* The Manager *)

Run == 0 .. MaxRuns

Checkpoint ==
    [id : 1 .. MaxSaves, file : File, old : Content, new : Content,
     existed : BOOLEAN, run : Run]

Manager ==
    [cps : Seq(Checkpoint), redo : Seq(Checkpoint), run : Run,
     evicted : SUBSET Run, corrections : Seq([files : SUBSET File, run : Run])]

NewManager == [cps |-> <<>>, redo |-> <<>>, run |-> 0, evicted |-> {}, corrections |-> <<>>]

\* mutant: room is made one checkpoint too early
applySaveEarly(m, cp) ==
    LET cps == Append(m.cps, cp) IN
    IF Len(cps) < MaxCheckpoints THEN [m EXCEPT !.cps = cps, !.redo = <<>>]
    ELSE [m EXCEPT !.cps = Tail(cps), !.redo = <<>>, !.evicted = @ \cup {cps[1].run}]

\* append, then make room: an edit of another run goes before one of the current
applySaveLocked(m, cp) ==
    LET cps == Append(m.cps, cp)
        others == {i \in DOMAIN cps : cps[i].run # m.run}
        out == IF others = {} THEN 1 ELSE Min(others)
    IN  IF Len(cps) <= MaxCheckpoints
        THEN [m EXCEPT !.cps = cps, !.redo = <<>>]
        ELSE [m EXCEPT !.cps = RemoveAt(cps, out), !.redo = <<>>,
                       !.evicted = @ \cup {cps[out].run}]

\* where the run of checkpoints of r at the end of the history begins
runSegmentStart(cps, r) ==
    Min({i \in 1 .. Len(cps) + 1 : \A k \in i .. Len(cps) : cps[k].run = r})

FilesFrom(cps, i) == {cps[k].file : k \in i .. Len(cps)}

FirstOf(cps, i, f) == Min({k \in i .. Len(cps) : cps[k].file = f})
LastOf(cps, i, f) == Max({k \in i .. Len(cps) : cps[k].file = f})

\* restoreCheckpointState: a file that did not exist is removed again
Restored(old, existed) == IF ~existed /\ old = Empty THEN Absent ELSE old

\* mutant: the last checkpoint of a file taken for its first
BaselineLatest(cps, i, f) ==
    LET cp == cps[LastOf(cps, i, f)] IN Restored(cp.old, cp.existed)

\* the state of f before the checkpoints from i on (preRunBaselines)
Baseline(cps, i, f) ==
    LET cp == cps[FirstOf(cps, i, f)] IN Restored(cp.old, cp.existed)

\* the same for revert, which prefers what an earlier checkpoint wrote
RevertTarget(cps, i, f) ==
    LET earlier == {k \in 1 .. i - 1 : cps[k].file = f}
    IN  IF earlier = {} THEN Baseline(cps, i, f) ELSE cps[Max(earlier)].new

\* the checkpoints without those that run r made to the files F
WithoutRunFiles(cps, r, F) == SelectSeq(cps, LAMBDA c : ~(c.run = r /\ c.file \in F))

Corrected(m, F, r) == Append(m.corrections, [files |-> F, run |-> r])

-----------------------------------------------------------------------------
(* The journal: applyJournalEventLocked *)

ReplayUndo(m) ==
    IF m.cps = <<>> THEN m
    ELSE LET cp == Last(m.cps) IN
         [m EXCEPT !.cps = Front(@), !.redo = Append(@, cp),
                   !.corrections = Corrected(m, {cp.file}, cp.run)]

ReplayRedo(m) ==
    IF m.redo = <<>> THEN m
    ELSE [m EXCEPT !.cps = Append(@, Last(m.redo)), !.redo = Front(@)]

ReplayRevert(m, id, F) ==
    LET found == {i \in DOMAIN m.cps : m.cps[i].id = id}
        idx == Min(found)
    IN  IF found = {} THEN m
        ELSE [m EXCEPT !.cps = SubSeq(@, 1, idx - 1), !.redo = <<>>,
                       !.corrections = Corrected(m, F, m.cps[idx].run)]

\* mutant: the run is pushed on the redo stack in the order it was made
ReplayUndoRunForward(m, r) ==
    LET start == runSegmentStart(m.cps, r)
        removed == SubSeq(m.cps, start, Len(m.cps))
    IN  IF removed = <<>> THEN m
        ELSE [m EXCEPT !.cps = SubSeq(@, 1, start - 1), !.redo = @ \o removed,
                       !.evicted = @ \ {r},
                       !.corrections = Corrected(m, FilesFrom(m.cps, start), r)]

ReplayUndoRun(m, r) ==
    LET start == runSegmentStart(m.cps, r)
        removed == SubSeq(m.cps, start, Len(m.cps))
    IN  IF removed = <<>> THEN m
        ELSE [m EXCEPT !.cps = SubSeq(@, 1, start - 1), !.redo = @ \o Reverse(removed),
                       !.evicted = @ \ {r},
                       !.corrections = Corrected(m, FilesFrom(m.cps, start), r)]

\* the manager m after the journal event ev
Replay(m, ev) ==
    CASE ev.type = "start_run"         -> [m EXCEPT !.run = ev.run]
      [] ev.type = "save"              -> applySaveLocked(m, ev.cp)
      [] ev.type = "undo"              -> ReplayUndo(m)
      [] ev.type = "redo"              -> ReplayRedo(m)
      [] ev.type = "revert"            -> ReplayRevert(m, ev.id, ev.files)
      [] ev.type = "undo_run"          -> ReplayUndoRun(m, ev.run)
      [] ev.type = "drop_run_files"    -> [m EXCEPT !.cps = WithoutRunFiles(@, ev.run, ev.files)]
      [] ev.type = "clear"             -> [NewManager EXCEPT !.run = m.run]
      [] ev.type = "clear_corrections" -> [m EXCEPT !.corrections = <<>>]

\* journalAppendLocked; an append that fails turns the journal off for good, and a
\* line too long for the loader hides every line after it
JournalAppend(ev) ==
    \/ /\ durable' = IF journal = "off" \/ ~readable THEN durable ELSE Replay(durable, ev)
       /\ UNCHANGED <<journal, readable, faults>>
    \/ /\ journal # "off" /\ faults < MaxFaults
       /\ \/ journal' = "off" /\ UNCHANGED readable
          \/ ev.type = "save" /\ readable' = FALSE /\ UNCHANGED journal
       /\ faults' = faults + 1
       /\ UNCHANGED durable

\* openPersistentManagerAt: the journal is replayed, or it cannot be read, or not written
Reopen ==
    /\ \/ live' = durable /\ journal' = "on"
       \/ live' = NewManager /\ journal' \in {"off", "unread"}
    /\ inRun' = FALSE
    /\ faults' = faults + 1
    /\ UNCHANGED <<durable, readable, runs, before>>

HasHistory(m) == m.cps # <<>> \/ m.redo # <<>>

\* what is out of step once a process that changed the files F has died
ReopenGhosts(F) ==
    IF ~HasHistory(live') THEN skewed' = {} /\ broken' = {}
    ELSE IF live = durable /\ journal = "on" /\ readable
         THEN skewed' = skewed \cup F /\ UNCHANGED broken
         ELSE skewed' = File /\ broken' = File

-----------------------------------------------------------------------------
Init ==
    /\ disk \in [File -> Initial]
    /\ live = NewManager
    /\ durable = NewManager
    /\ journal = "on"
    /\ readable = TRUE
    /\ inRun = FALSE
    /\ runs = 0
    /\ saves = 0
    /\ faults = 0
    /\ before = [r \in Run |-> disk]
    /\ skewed = {}
    /\ broken = {}

\* the files become d, the manager m, and ev is journaled; or the process dies
\* after the files were changed
Commit(d, m, ev) ==
    /\ disk' = d
    /\ live' = m
    /\ JournalAppend(ev)
    /\ UNCHANGED inRun

Die(d) ==
    /\ faults < MaxFaults
    /\ disk' = d
    /\ Reopen
    /\ ReopenGhosts({f \in File : d[f] # disk[f]})

StartRun ==
    /\ runs < MaxRuns
    /\ runs' = runs + 1
    /\ inRun' = TRUE
    /\ live' = [live EXCEPT !.run = runs + 1]
    /\ JournalAppend([type |-> "start_run", run |-> runs + 1])
    /\ UNCHANGED <<disk, saves, before, skewed, broken>>

\* a tool writes or deletes f (content becomes c) and SaveWithExistence records it
Edit(f, c) ==
    LET cp == [id |-> saves + 1, file |-> f, run |-> live.run,
               old |-> IF disk[f] = Absent THEN Empty ELSE disk[f],
               new |-> IF c = Absent THEN Empty ELSE c,
               existed |-> disk[f] # Absent]
        d == [disk EXCEPT ![f] = c]
        first == /\ live.run \notin live.evicted
                 /\ \A i \in DOMAIN live.cps : live.cps[i].run # live.run
    IN  /\ inRun /\ saves < MaxSaves /\ c # disk[f]
        /\ \/ /\ Commit(d, applySaveLocked(live, cp), [type |-> "save", cp |-> cp])
              /\ saves' = saves + 1
              /\ before' = IF first THEN [before EXCEPT ![live.run] = disk] ELSE before
              /\ broken' = broken \cup skewed
              /\ skewed' = {}
              /\ UNCHANGED runs
           \/ Die(d) /\ UNCHANGED saves

RoomForCorrection == Len(live.corrections) < MaxCorrections

Undo ==
    LET cp == Last(live.cps)
        d == [disk EXCEPT ![cp.file] = Restored(cp.old, cp.existed)]
        m == [live EXCEPT !.cps = Front(@), !.redo = Append(@, cp),
                          !.corrections = Corrected(live, {cp.file}, cp.run)]
    IN  /\ live.cps # <<>> /\ RoomForCorrection
        /\ \/ /\ Commit(d, m, [type |-> "undo"])
              /\ skewed' = skewed \ {cp.file}
              /\ UNCHANGED <<runs, before, broken>>
           \/ Die(d)
        /\ UNCHANGED saves

Redo ==
    LET cp == Last(live.redo)
        d == [disk EXCEPT ![cp.file] = cp.new]
        m == [live EXCEPT !.cps = Append(@, cp), !.redo = Front(@)]
    IN  /\ live.redo # <<>>
        /\ \/ /\ Commit(d, m, [type |-> "redo"])
              /\ skewed' = skewed \ {cp.file}
              /\ UNCHANGED <<runs, before, broken>>
           \/ Die(d)
        /\ UNCHANGED saves

\* revertWithFiles: back to before checkpoint idx, for good.  If a file cannot be
\* written the files before it stay restored and the history is kept
Revert(idx) ==
    LET F == FilesFrom(live.cps, idx)
        After(G) == [f \in File |-> IF f \in G THEN RevertTarget(live.cps, idx, f) ELSE disk[f]]
        cp == live.cps[idx]
        m == [live EXCEPT !.cps = SubSeq(@, 1, idx - 1), !.redo = <<>>,
                          !.corrections = Corrected(live, F, cp.run)]
    IN  /\ RoomForCorrection
        /\ \/ /\ Commit(After(F), m, [type |-> "revert", id |-> cp.id, files |-> F])
              /\ skewed' = skewed \ F
              /\ UNCHANGED <<runs, before, broken>>
           \/ Die(After(F))
           \/ \E bad \in F :
                LET done == {f \in F : FirstOf(live.cps, idx, f) < FirstOf(live.cps, idx, bad)}
                IN  \/ /\ disk' = After(done)
                       /\ skewed' = skewed \cup done
                       /\ UNCHANGED <<live, durable, journal, readable, inRun, runs, faults,
                                      before, broken>>
                    \/ Die(After(done))
        /\ UNCHANGED saves

\* mutant: a run is undone although its first checkpoints were evicted
CanUndoEvictedRun(m) == m.cps # <<>>

\* the refusals of UndoRun: nothing to undo, evicted baseline, split run
CanUndoRun(m) ==
    LET r == Last(m.cps).run IN
    /\ m.cps # <<>>
    /\ r \notin m.evicted
    /\ \A i \in 1 .. runSegmentStart(m.cps, r) - 1 : m.cps[i].run # r

\* UndoRun: every file of the last run back to its baseline
UndoRun ==
    LET r == Last(live.cps).run
        start == runSegmentStart(live.cps, r)
        F == FilesFrom(live.cps, start)
        d == [f \in File |-> IF f \in F THEN Baseline(live.cps, start, f) ELSE disk[f]]
        m == [live EXCEPT !.cps = SubSeq(@, 1, start - 1),
                          !.redo = @ \o Reverse(SubSeq(live.cps, start, Len(live.cps))),
                          !.evicted = @ \ {r},
                          !.corrections = Corrected(live, F, r)]
    IN  /\ CanUndoRun(live) /\ RoomForCorrection
        /\ \/ /\ Commit(d, m, [type |-> "undo_run", run |-> r])
              /\ skewed' = skewed \ F
              /\ UNCHANGED <<runs, before, broken>>
           \/ Die(d)
        /\ UNCHANGED saves

\* UndoRun when a file cannot be written: the checkpoints of the files that were
\* restored before it are dropped from the history (or the process dies there).  A
\* redo that is still pending for such a file no longer follows on
UndoRunFails ==
    LET r == Last(live.cps).run
        start == runSegmentStart(live.cps, r)
        F == FilesFrom(live.cps, start)
        redone == {live.redo[i].file : i \in DOMAIN live.redo}
    IN  /\ CanUndoRun(live)
        /\ \E bad \in F :
             LET done == {f \in F : LastOf(live.cps, start, f) > LastOf(live.cps, start, bad)}
                 d == [f \in File |-> IF f \in done THEN Baseline(live.cps, start, f)
                                                    ELSE disk[f]]
             IN  \/ /\ Commit(d, [live EXCEPT !.cps = WithoutRunFiles(@, r, done)],
                              [type |-> "drop_run_files", run |-> r, files |-> done])
                    /\ skewed' = skewed \ done
                    /\ broken' = broken \cup (done \cap redone)
                    /\ UNCHANGED <<runs, before>>
                 \/ Die(d)
        /\ UNCHANGED saves

Clear ==
    /\ Commit(disk, [NewManager EXCEPT !.run = live.run], [type |-> "clear"])
    /\ skewed' = {}
    /\ broken' = {}
    /\ UNCHANGED <<runs, saves, before>>

ClearCorrections ==
    /\ Commit(disk, [live EXCEPT !.corrections = <<>>], [type |-> "clear_corrections"])
    /\ UNCHANGED <<runs, saves, before, skewed, broken>>

\* the process ends between two operations and another one starts
Restart == Die(disk) /\ UNCHANGED saves

Next ==
    \/ StartRun
    \/ \E f \in File, c \in Written : Edit(f, c)
    \/ Undo
    \/ Redo
    \/ \E idx \in DOMAIN live.cps : Revert(idx)
    \/ UndoRun
    \/ UndoRunFails
    \/ Clear
    \/ ClearCorrections
    \/ Restart

Spec == Init /\ [][Next]_vars

-----------------------------------------------------------------------------
(* Properties *)

\* The type of the state; the undo and redo stacks together stay within the limit
\* that applySaveLocked keeps for one of them.
TypeOK ==
    /\ disk \in [File -> Content \cup {Absent}]
    /\ \A m \in {live, durable} : m \in Manager /\ Len(m.cps) + Len(m.redo) <= MaxCheckpoints
    /\ journal \in {"on", "unread", "off"}
    /\ readable \in BOOLEAN /\ inRun \in BOOLEAN
    /\ runs \in Run /\ saves \in 0 .. MaxSaves /\ faults \in 0 .. MaxFaults
    /\ before \in [Run -> [File -> Content \cup {Absent}]]
    /\ skewed \subseteq File /\ broken \subseteq File

\* Redo writes an empty file where a tool had deleted one: the two are not told apart
Same(a, b) == {a, b} \subseteq {Empty, Absent} \/ a = b

\* the history as one line: what was done, then what can be redone
Line(m) == m.cps \o Reverse(m.redo)

\* Undo, redo, revert and their failures keep the history true to the files: along
\* the line every checkpoint of a file takes over what the one before it wrote, and
\* the cursor between undo and redo is where the file on disk is.  A file that a
\* crash or a failed revert left out of step is excused until it is written again.
HistoryMatchesDisk ==
    LET l == Line(live)
        n == Len(live.cps)
        At(f) == {i \in DOMAIN l : l[i].file = f}
    IN  \A f \in File \ broken :
            /\ \A i, k \in At(f) :
                   i < k /\ (\A j \in At(f) : j <= i \/ j >= k) => l[i].new = l[k].old
            /\ f \notin skewed =>
                \A i \in At(f) :
                    /\ i <= n /\ (\A k \in At(f) : k <= i \/ k > n) => Same(disk[f], l[i].new)
                    /\ i > n /\ (\A k \in At(f) : k >= i \/ k <= n) => Same(disk[f], l[i].old)

\* An UndoRun that goes through leaves every file of the run as it was before the
\* run's first edit, whatever evictions, undos, redos, partial failures and restarts
\* came between.
UndoRunRestores ==
    [][UndoRun /\ faults' = faults =>
        LET r == Last(live.cps).run IN
        \A f \in FilesFrom(live.cps, runSegmentStart(live.cps, r)) \ broken :
            Same(disk'[f], before[r][f])]_vars

\* The state has its type; and replaying the journal rebuilds the Manager that wrote
\* it: the stacks, the evicted runs and the corrections, after every operation and
\* every failure of one.
ReplayIsLive == TypeOK /\ (journal = "on" /\ readable => live = durable)

\* What a restart would read is an edit timeline at all times: crashes, failed
\* appends and restarts are no steps of it.
Timeline ==
    INSTANCE EditTimeline WITH
        Edits <- Checkpoint, Capacity <- MaxCheckpoints,
        line <- Line(durable), pos <- Len(durable.cps)

JournalIsTimeline == Timeline!Spec
=============================================================================
