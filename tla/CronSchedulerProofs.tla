------------------------ MODULE CronSchedulerProofs ------------------------
(***************************************************************************)
(* Proofs about CronScheduler, for any jobs, sessions, callers and         *)
(* callbacks: no job has two chains of fires, a job whose time lies ahead  *)
(* has a timer, the file of the session follows the jobs in memory, and    *)
(* what other processes stored is left alone.                              *)
(***************************************************************************)
EXTENDS CronScheduler, FiniteSetTheorems, TLAPS

-----------------------------------------------------------------------------
(* The inductive invariant *)

\* Load names a job exactly while it is between the map and the timer of that job.
Switches ==
    /\ switch \in [pc : {"none", "read", "load", "schedule"}, id : Id \cup {None}, todo : Files]
    /\ switch.pc = "schedule" <=> switch.id \in Id

\* A call is about a job that exists; an update remembers a setting.
CallsHold ==
    \A c \in Caller : call[c] # NoCall =>
        /\ call[c].id \in known /\ job[call[c].id] \in Job
        /\ call[c].op = "update" => call[c].spec \in Setting

Typed == TypeOK /\ Switches /\ CallsHold

\* Of the timer and the callbacks of a job at most one is current.
Chain ==
    \A id \in Id : \A i \in Slot : fires[i].id = id /\ fires[i].live =>
        /\ timers[id] # "armed"
        /\ \A k \in Slot : fires[k].id = id /\ fires[k].live => i = k

\* A call that is alone is the only one, and no switch is under way.
Alone ==
    \A c \in Caller : call[c].alone =>
        /\ switch = NoSwitch
        /\ \A d \in Caller \ {c} : call[d] = NoCall

\* A deleted job is out of the map until the call ends; without a timer it had no
\* time ahead.
DeletedStays ==
    \A c \in Caller : call[c].alone /\ call[c].op = "delete" =>
        /\ call[c].id \notin jobs
        /\ patrolling /\ ~muddled /\ ~call[c].timer =>
            job[call[c].id].paused \/ job[call[c].id].next # "future"

Saving(id) == \E i \in Slot : fires[i].id = id /\ fires[i].pc = "save"

EntryOf(id) == [paused |-> job[id].paused, spec |-> job[id].spec]

Mine == {id \in jobs : job[id].recurring}

\* Memory and the file of the session agree on id.
Synced(id) ==
    /\ id \in Mine <=> (id \in known /\ id \in DOMAIN store[session])
    /\ id \in Mine => store[session][id] = EntryOf(id)

Orderly == session # None /\ ~muddled /\ patrolling

\* Where they do not agree, a call or a callback is about to save.
Follows ==
    Orderly => \A id \in Id :
        Synced(id) \/ Saving(id) \/ \E c \in Caller : call[c].id = id

\* The entry of the call's job as it was before the call.
Before(k) ==
    [paused |-> (k.op = "resume" \/ (k.op # "pause" /\ job[k.id].paused)),
     spec |-> IF k.op = "update" THEN k.spec ELSE job[k.id].spec]

\* While a call is alone the file has what undoing the call will restore.
Undo(k) ==
    /\ k.op = "create" => k.id \notin DOMAIN store[session]
    /\ k.op # "create" =>
        /\ k.id \in DOMAIN store[session] <=> job[k.id].recurring
        /\ job[k.id].recurring => store[session][k.id] = Before(k)
    /\ k.op \in {"update", "pause", "resume"} =>
        k.id \in jobs \/ ~job[k.id].recurring \/ Saving(k.id)

Undoable == Orderly => \A c \in Caller : call[c].alone => Undo(call[c])

\* Nothing of a session is known before the session is switched to.
Unvisited ==
    /\ session # None => session \in visited
    /\ \A s \in Session \ visited :
        /\ DOMAIN store[s] \subseteq Id \ known
        /\ DOMAIN store[s] \cap DOMAIN switch.todo = {}
        /\ \A t \in Session \ {s} : DOMAIN store[s] \cap DOMAIN store[t] = {}

\* What Load has still to put in the map is in the file, unless it became known.
TodoIsFile ==
    /\ switch # NoSwitch => session # None
    /\ \A id \in DOMAIN switch.todo :
        \/ id \in known
        \/ id \in DOMAIN store[session] /\ store[session][id] = switch.todo[id]

Arming == Chain /\ Alone /\ DeletedStays /\ FutureIsArmed
Filing == Follows /\ Undoable /\ Unvisited /\ TodoIsFile
Inv == Typed /\ Arming /\ Filing

-----------------------------------------------------------------------------
(* Files *)

LEMMA FilesAre ==
    ASSUME NEW f
    PROVE  f \in Files <=> (DOMAIN f \subseteq Id \cup Foreign /\ f \in [DOMAIN f -> Entry])
  BY DEF Files

LEMMA EmptyFile == DOMAIN << >> = {} /\ << >> \in Files
<1>1. << >> \in [{} -> Entry]
  OBVIOUS
<1>2. DOMAIN << >> = {}
  OBVIOUS
<1> QED
  BY <1>1, <1>2 DEF Files

\* A job in the map exists and is known.
LEMMA JobInMap ==
    ASSUME TypeOK, NEW id \in jobs
    PROVE  id \in Id /\ job[id] \in Job /\ id \in known
  BY DEF TypeOK

\* What save writes: the recurring jobs as they are, and what this process never knew.
LEMMA MergedIs ==
    ASSUME TypeOK, NEW file \in Files
    PROVE  /\ Merged(file) \in Files
           /\ \A id \in Mine : id \in DOMAIN Merged(file) /\ Merged(file)[id] = EntryOf(id)
           /\ \A id \in DOMAIN file \ known :
                id \in DOMAIN Merged(file) /\ Merged(file)[id] = file[id]
           /\ \A id \in DOMAIN Merged(file) : id \in Mine \/ (id \in DOMAIN file /\ id \notin known)
<1> DEFINE theirs == {id \in DOMAIN file : id \notin Mine /\ id \notin known}
<1>1. Merged(file) = [id \in Mine \cup theirs |-> IF id \in Mine THEN EntryOf(id) ELSE file[id]]
  BY DEF Merged, Mine, Written, EntryOf
<1>2. /\ Mine \subseteq Id /\ Mine \subseteq known
      /\ \A id \in Mine : EntryOf(id) \in Entry
  BY JobInMap DEF Mine, EntryOf, Entry, Job
<1>3. DOMAIN file \subseteq Id \cup Foreign /\ \A id \in DOMAIN file : file[id] \in Entry
  BY FilesAre
<1>4. Merged(file) \in [Mine \cup theirs -> Entry]
  BY <1>1, <1>2, <1>3
<1>5. DOMAIN Merged(file) = Mine \cup theirs
  BY <1>1
<1>6. Merged(file) \in Files
  BY <1>2, <1>3, <1>4, <1>5, FilesAre
<1> QED
  BY <1>1, <1>2, <1>5, <1>6

-----------------------------------------------------------------------------
(* Timers and callbacks *)

\* A step that starts no callback and ends no save of one: every callback stays what
\* it is, or its generation is over, and a timer is armed only where none is current.
Calms ==
    /\ timers' \in [Id -> Timer]
    /\ fires' \in [Slot -> Fire \cup {NoFire}]
    /\ \A k \in Slot :
        /\ fires'[k].live => fires[k].live /\ fires'[k].id = fires[k].id
        /\ fires[k].pc = "save" => fires'[k].pc = "save" /\ fires'[k].id = fires[k].id
    /\ \A id \in Id : timers'[id] = "armed" =>
        \/ timers[id] = "armed"
        \/ \A k \in Slot : ~(fires'[k].id = id /\ fires'[k].live)

\* The same, with the timers of ids armed and the others left alone.
Arms(ids) ==
    /\ Calms
    /\ \A id \in Id : timers'[id] = IF id \in ids THEN "armed" ELSE timers[id]

\* The same, with the timers of ids gone and the others left alone.
Disarms(ids) ==
    /\ Calms
    /\ \A id \in Id : timers'[id] = IF id \in ids THEN "none" ELSE timers[id]

LEMMA FireIs ==
    ASSUME TypeOK, NEW i \in Slot
    PROVE  /\ fires[i] \in Fire \cup {NoFire}
           /\ fires[i].pc # "none" => fires[i] \in Fire
           /\ fires[i].id # None => fires[i] \in Fire
           /\ fires[i].live => fires[i] \in Fire
           /\ fires[i].live \in BOOLEAN
<1>1. fires[i] \in Fire \cup {NoFire}
  BY DEF TypeOK
<1>2. NoFire.pc = "none" /\ NoFire.id = None /\ NoFire.live = FALSE
  BY DEF NoFire
<1>3. fires[i] \in Fire => fires[i].live \in BOOLEAN
  BY DEF Fire
<1> QED
  BY <1>1, <1>2, <1>3

LEMMA BumpedIs ==
    ASSUME NEW fs \in [Slot -> Fire \cup {NoFire}], NEW ids \in SUBSET Id, NEW k \in Slot
    PROVE  /\ Bumped(fs, ids) \in [Slot -> Fire \cup {NoFire}]
           /\ Bumped(fs, ids)[k].live =>
                /\ fs[k].live /\ Bumped(fs, ids)[k].id = fs[k].id
                /\ Bumped(fs, ids)[k].id \notin ids
           /\ fs[k].pc = "save" =>
                Bumped(fs, ids)[k].pc = "save" /\ Bumped(fs, ids)[k].id = fs[k].id
<1> DEFINE b(i) == IF fs[i].id \notin ids THEN fs[i]
                   ELSE IF fs[i].pc \in {"enqueue", "save"} THEN [fs[i] EXCEPT !.live = FALSE]
                   ELSE NoFire
<1>1. Bumped(fs, ids) = [i \in Slot |-> b(i)]
  BY DEF Bumped
<1>2. ASSUME NEW i \in Slot PROVE
        /\ b(i) \in Fire \cup {NoFire}
        /\ b(i).live => fs[i].live /\ b(i).id = fs[i].id /\ b(i).id \notin ids
        /\ fs[i].pc = "save" => b(i).pc = "save" /\ b(i).id = fs[i].id
  <2>1. fs[i] \in Fire \cup {NoFire}
    OBVIOUS
  <2>2. CASE fs[i].id \notin ids
    BY <2>1, <2>2
  <2>3. CASE fs[i].id \in ids /\ fs[i].pc \in {"enqueue", "save"}
    BY <2>1, <2>3 DEF Fire, NoFire
  <2>4. CASE fs[i].id \in ids /\ fs[i].pc \notin {"enqueue", "save"}
    BY <2>1, <2>4 DEF Fire, NoFire
  <2> QED
    BY <2>2, <2>3, <2>4
<1> HIDE DEF b
<1> QED
  BY <1>1, <1>2

LEMMA ScheduleArms ==
    ASSUME TypeOK, NEW ids \in SUBSET Id, NEW fs \in [Slot -> Fire \cup {NoFire}],
           \A k \in Slot : fs[k] = fires[k] \/ (fs[k] = NoFire /\ fires[k].pc # "save"),
           Schedule(ids, fs)
    PROVE  Arms(ids)
<1>1. /\ timers' = [id \in Id |-> IF id \in ids THEN "armed" ELSE timers[id]]
      /\ fires' = Bumped(fs, ids)
  BY DEF Schedule
<1>2. timers' \in [Id -> Timer]
  BY <1>1 DEF TypeOK, Timer
<1>3. fires' \in [Slot -> Fire \cup {NoFire}]
  <2>1. CASE Slot = {}
    BY <1>1, <2>1 DEF Bumped
  <2>2. CASE Slot # {}
    BY <1>1, <2>2, BumpedIs
  <2> QED
    BY <2>1, <2>2
<1>4. ASSUME NEW k \in Slot PROVE
        /\ fires'[k].live => fires[k].live /\ fires'[k].id = fires[k].id /\ fires'[k].id \notin ids
        /\ fires[k].pc = "save" => fires'[k].pc = "save" /\ fires'[k].id = fires[k].id
  <2>1. /\ fires'[k].live => fs[k].live /\ fires'[k].id = fs[k].id /\ fires'[k].id \notin ids
        /\ fs[k].pc = "save" => fires'[k].pc = "save" /\ fires'[k].id = fs[k].id
    BY <1>1, BumpedIs
  <2>2. ~NoFire.live
    BY DEF NoFire
  <2> QED
    BY <2>1, <2>2
<1> QED
  BY <1>1, <1>2, <1>3, <1>4 DEF Arms, Calms

LEMMA StopDisarms ==
    ASSUME TypeOK, NEW ids \in SUBSET Id, Stop(ids)
    PROVE  Disarms(ids)
<1>1. /\ timers' = [id \in Id |-> IF id \in ids THEN "none" ELSE timers[id]]
      /\ fires' = fires
  BY DEF Stop
<1>2. timers' \in [Id -> Timer]
  BY <1>1 DEF TypeOK, Timer
<1>3. fires' \in [Slot -> Fire \cup {NoFire}]
  BY <1>1 DEF TypeOK
<1> QED
  BY <1>1, <1>2, <1>3 DEF Disarms, Calms

\* A callback that is not about to save goes on under its generation, or ends.
LEMMA CallbackCalms ==
    ASSUME TypeOK, NEW i \in Slot, fires[i].pc \notin {"none", "save"},
           NEW f \in {NoFire} \cup {[fires[i] EXCEPT !.pc = p] : p \in {"enqueue", "tail", "save"}},
           fires' = [fires EXCEPT ![i] = f],
           NEW id \in Id, timers' = timers \/ timers' = [timers EXCEPT ![id] = "none"]
    PROVE  /\ Calms
           /\ \A k \in Id \ {id} : timers'[k] = timers[k]
<1>1. fires[i] \in Fire
  BY FireIs
<1>2. f \in Fire \cup {NoFire} /\ (f.live => fires[i].live /\ f.id = fires[i].id)
  BY <1>1 DEF Fire, NoFire
<1>3. timers' \in [Id -> Timer] /\ \A k \in Id : timers'[k] = timers[k] \/ timers'[k] = "none"
  BY DEF TypeOK, Timer
<1>4. fires' \in [Slot -> Fire \cup {NoFire}]
  BY <1>2 DEF TypeOK
<1>5. \A k \in Slot : fires'[k] = IF k = i THEN f ELSE fires[k]
  BY DEF TypeOK
<1> QED
  BY <1>2, <1>3, <1>4, <1>5 DEF Calms, TypeOK

\* The steps after which no job has a second chain and no save of a callback is lost.
Goes ==
    /\ timers' \in [Id -> Timer]
    /\ fires' \in [Slot -> Fire \cup {NoFire}]
    /\ Chain'
    /\ \A id \in Id : Saving(id) => Saving(id)'

LEMMA CalmGoes ==
    ASSUME TypeOK, Chain, Calms
    PROVE  Goes
<1>1. Chain'
  BY DEF Chain, Calms
<1>2. ASSUME NEW id \in Id, Saving(id) PROVE Saving(id)'
  BY <1>2 DEF Saving, Calms
<1> QED
  BY <1>1, <1>2 DEF Goes, Calms

LEMMA NothingCalms ==
    ASSUME TypeOK, UNCHANGED <<timers, fires>>
    PROVE  Calms
  BY DEF TypeOK, Calms

-----------------------------------------------------------------------------
(* Steps between the calls: clocks, callbacks, the patrol *)

\* Jobs keep everything but their time, a job that is not in the map gets none ahead,
\* and only a one-shot leaves the map without a save to come.
Ticks ==
    /\ UNCHANGED <<session, known, store, visited, muddled, patrolling>>
    /\ jobs' \subseteq jobs
    /\ job' \in [Id -> Job \cup {None}]
    /\ \A id \in Id : \/ job'[id] = job[id]
                      \/ /\ job[id] \in Job /\ job'[id] \in Job
                         /\ job'[id].recurring = job[id].recurring
                         /\ job'[id].paused = job[id].paused
                         /\ job'[id].spec = job[id].spec
                         /\ id \in jobs \/ job'[id].next # "future"
    /\ \A id \in jobs \ jobs' : ~job[id].recurring \/ Saving(id)'

\* The calls under way stay what they are, up to how far they are.
CallsStay ==
    /\ call' \in [Caller -> Call \cup {NoCall}]
    /\ \A c \in Caller :
        /\ call'[c] = NoCall <=> call[c] = NoCall
        /\ call'[c].op = call[c].op /\ call'[c].id = call[c].id
        /\ call'[c].spec = call[c].spec /\ call'[c].timer = call[c].timer
        /\ call'[c].alone => call[c].alone

\* Somebody is about to schedule the job.
Waits(id) ==
    \/ \E c \in Caller : call[c].id = id /\ call[c].pc = "schedule"
    \/ switch.id = id

\* A job whose time lies ahead after the step is armed, or was waiting before and is so still.
Reminds ==
    \A id \in jobs' : job'[id].paused \/ job'[id].next # "future"
        \/ timers'[id] = "armed"
        \/ Waits(id)'
        \/ /\ id \in jobs /\ ~job[id].paused /\ job[id].next = "future"
           /\ timers[id] # "armed"
           /\ Waits(id) => Waits(id)'

LEMMA RemindsKeeps ==
    ASSUME TypeOK, FutureIsArmed, Reminds, patrolling' => patrolling, ~muddled' => ~muddled
    PROVE  FutureIsArmed'
  BY DEF FutureIsArmed, Reminds, Waits

LEMMA CallIs ==
    ASSUME TypeOK, NEW c \in Caller
    PROVE  /\ call[c] \in Call \cup {NoCall}
           /\ call[c] # NoCall => call[c] \in Call
           /\ call[c].pc # "none" => call[c] # NoCall
           /\ call[c].op # "none" => call[c] # NoCall
           /\ call[c].id # None => call[c] # NoCall
           /\ call[c].alone => call[c] # NoCall
<1>1. call[c] \in Call \cup {NoCall}
  BY DEF TypeOK
<1>2. NoCall.pc = "none" /\ NoCall.op = "none" /\ NoCall.id = None /\ NoCall.alone = FALSE
  BY DEF NoCall
<1> QED
  BY <1>1, <1>2

LEMMA CallIdIs ==
    ASSUME TypeOK, NEW c \in Caller, call[c] # NoCall
    PROVE  call[c].id \in Id /\ call[c].id # None
  BY CallIs, CronAssumption DEF Call

\* Such steps leave the file as near to memory as it was.
LEMMA TicksKeepFiles ==
    ASSUME Inv, Ticks, CallsStay, Goes
    PROVE  CallsHold' /\ DeletedStays' /\ Follows' /\ Undoable'
<1> USE DEF Inv, Typed, Arming, Filing
<1>1. ASSUME NEW id \in Id, job[id] \in Job PROVE
        /\ job'[id] \in Job
        /\ job'[id].recurring = job[id].recurring /\ job'[id].paused = job[id].paused
        /\ job'[id].spec = job[id].spec
        /\ id \in jobs \/ job'[id].next = job[id].next \/ job'[id].next # "future"
  BY <1>1 DEF Ticks
<1>2. ASSUME NEW c \in Caller, call'[c] # NoCall PROVE
        /\ call[c] # NoCall
        /\ call[c].id \in Id /\ job[call[c].id] \in Job /\ call[c].id \in known
        /\ call'[c].op = call[c].op /\ call'[c].id = call[c].id
        /\ call'[c].spec = call[c].spec /\ call'[c].timer = call[c].timer
        /\ call'[c].alone => call[c].alone
  BY <1>2, CallIdIs DEF CallsStay, CallsHold
<1>3. ASSUME NEW c \in Caller, call'[c].alone PROVE call'[c] # NoCall
  BY <1>3, CallIs DEF CallsStay
<1>4. /\ store' = store /\ session' = session /\ known' = known /\ muddled' = muddled
      /\ patrolling' = patrolling /\ jobs' \subseteq jobs
  BY DEF Ticks
<1>5. CallsHold'
  BY <1>1, <1>2, <1>4 DEF CallsHold
<1>6. DeletedStays'
  BY <1>1, <1>2, <1>3, <1>4 DEF DeletedStays
<1>7. ASSUME NEW id \in Id, Synced(id) PROVE Synced(id)' \/ Saving(id)'
  <2>1. id \in jobs => job[id] \in Job
    BY JobInMap
  <2>2. id \in Mine' => id \in Mine
    BY <1>1, <1>4, <2>1 DEF Mine
  <2>3. id \in Mine => id \in Mine' \/ Saving(id)'
    BY <1>1, <1>4, <2>1 DEF Mine, Ticks
  <2>4. id \in Mine => EntryOf(id)' = EntryOf(id)
    BY <1>1, <2>1 DEF Mine, EntryOf
  <2> QED
    BY <1>4, <1>7, <2>2, <2>3, <2>4 DEF Synced
<1>8. Follows'
  <2> SUFFICES ASSUME Orderly', NEW id \in Id
               PROVE  Synced(id)' \/ Saving(id)' \/ \E c \in Caller : call'[c].id = id
    BY DEF Follows
  <2>1. Orderly
    BY <1>4 DEF Orderly
  <2>2. Synced(id) \/ Saving(id) \/ \E c \in Caller : call[c].id = id
    BY <2>1 DEF Follows
  <2> QED
    BY <1>7, <2>2 DEF CallsStay, Goes
<1>9. Undoable'
  <2> SUFFICES ASSUME Orderly', NEW c \in Caller, call'[c].alone
               PROVE  Undo(call[c])'
    BY DEF Undoable
  <2>1. Orderly /\ call[c].alone
    BY <1>2, <1>3, <1>4 DEF Orderly
  <2>2. Undo(call[c])
    BY <2>1 DEF Undoable
  <2> DEFINE id == call[c].id
  <2>3. /\ id \in Id /\ job[id] \in Job /\ call'[c].op = call[c].op /\ call'[c].id = id
        /\ call'[c].spec = call[c].spec
    BY <1>2, <1>3
  <2>4. Before(call[c])' = Before(call[c])
    BY <1>1, <2>3 DEF Before
  <2>5. id \in jobs \/ ~job[id].recurring \/ Saving(id)
          => id \in jobs' \/ ~job'[id].recurring \/ Saving(id)'
    BY <1>1, <2>3 DEF Ticks, Goes
  <2> QED
    BY <1>1, <1>4, <2>2, <2>3, <2>4, <2>5 DEF Undo
<1> QED
  BY <1>5, <1>6, <1>8, <1>9

\* Such a step keeps the invariant when the switch stands still.
LEMMA TicksKeep ==
    ASSUME Inv, Ticks, CallsStay, Goes, Reminds, switch' = switch,
           recent' \subseteq Id, enqueued' \in [Id -> 0 .. 2], calls' \in 0 .. MaxCalls
    PROVE  Inv'
<1> USE DEF Inv, Typed
<1>1. TypeOK'
  <2>1. \A id \in jobs' : id \in known' /\ job'[id] \in Job
    BY JobInMap DEF Ticks
  <2>2. /\ session' \in {None} \cup Session /\ jobs' \subseteq Id /\ known' \subseteq Id
        /\ visited' \subseteq Session /\ muddled' \in BOOLEAN /\ patrolling' \in BOOLEAN
        /\ store' \in [Session -> Files]
    BY DEF Ticks, TypeOK
  <2>3. switch'.pc \in {"none", "read", "load", "schedule"} /\ switch'.todo \in Files
    BY DEF TypeOK
  <2> QED
    BY <2>1, <2>2, <2>3 DEF TypeOK, Ticks, CallsStay, Goes
<1>2. Switches'
  BY DEF Switches
<1>3. CallsHold' /\ DeletedStays' /\ Follows' /\ Undoable'
  BY TicksKeepFiles
<1>4. Alone'
  <2> SUFFICES ASSUME NEW c \in Caller, call'[c].alone
               PROVE  switch' = NoSwitch /\ \A d \in Caller \ {c} : call'[d] = NoCall
    BY DEF Alone
  <2> QED
    BY DEF Arming, Alone, CallsStay
<1>5. FutureIsArmed'
  BY RemindsKeeps DEF Arming, Ticks
<1>6. Unvisited' /\ TodoIsFile'
  BY DEF Filing, Unvisited, TodoIsFile, Ticks
<1>7. Chain'
  BY DEF Goes
<1> QED
  BY <1>1, <1>2, <1>3, <1>4, <1>5, <1>6, <1>7 DEF Arming, Filing

\* A job that somebody will look at exists.
LEMMA HeldIs ==
    ASSUME Typed, NEW id \in Id, Held(id)
    PROVE  job[id] \in Job
<1>1. CASE id \in jobs
  BY <1>1, JobInMap DEF Typed
<1>2. CASE \E c \in Caller : call[c].id = id
  <2>1. PICK c \in Caller : call[c].id = id
    BY <1>2
  <2>2. call[c] # NoCall
    BY <2>1, CallIs, CronAssumption DEF Typed
  <2> QED
    BY <2>1, <2>2 DEF Typed, CallsHold
<1> QED
  BY <1>1, <1>2 DEF Held

LEMMA NothingStays ==
    ASSUME Typed, UNCHANGED call
    PROVE  CallsStay
  BY DEF Typed, TypeOK, CallsStay

\* Nothing but the time of one job changes: Arrive, Lapse.
LEMMA TimeKeeps ==
    ASSUME Inv, NEW id \in Id, Held(id), NEW n \in {"due", "overdue"},
           job' = [job EXCEPT ![id].next = n],
           UNCHANGED <<jobs, timeVars, callVars, switch, patrolling, fileVars>>
    PROVE  Inv'
<1> USE DEF Inv, Typed
<1>1. job[id] \in Job
  BY HeldIs
<1>2. /\ job' \in [Id -> Job \cup {None}] /\ job'[id] \in Job
      /\ job'[id].recurring = job[id].recurring /\ job'[id].paused = job[id].paused
      /\ job'[id].spec = job[id].spec /\ job'[id].next = n
      /\ \A k \in Id \ {id} : job'[k] = job[k]
  <2>1. job'[id] = [job[id] EXCEPT !.next = n]
    BY DEF TypeOK
  <2>2. job'[id] \in Job
    BY <1>1, <2>1 DEF Job, NextFire
  <2>3. job' = [job EXCEPT ![id] = job'[id]]
    BY <2>1 DEF TypeOK
  <2> QED
    BY <1>1, <2>1, <2>2, <2>3 DEF TypeOK, Job
<1>3. Ticks
  BY <1>2, <1>1 DEF Ticks, fileVars
<1>4. Goes
  BY NothingCalms, CalmGoes DEF timeVars, Arming
<1>5. Reminds
  <2>1. ASSUME NEW k \in jobs', k # id PROVE job'[k] = job[k] /\ k \in jobs
    BY <1>2, <2>1 DEF TypeOK
  <2> QED
    BY <1>2, <2>1 DEF Reminds, timeVars, callVars, Waits
<1>6. CallsStay
  BY NothingStays DEF callVars
<1> QED
  BY <1>3, <1>4, <1>5, <1>6, TicksKeep DEF timeVars, callVars, TypeOK

LEMMA ArriveKeeps ==
    ASSUME Inv, NEW id \in Id, Arrive(id) \/ Lapse(id)
    PROVE  Inv'
  BY TimeKeeps DEF Arrive, Lapse

\* Everything that files and jobs have is left alone.
LEMMA StillTicks ==
    ASSUME Typed, UNCHANGED <<jobs, job, patrolling, fileVars>>
    PROVE  Ticks
  BY DEF Typed, TypeOK, Ticks, fileVars

LEMMA CoolKeeps ==
    ASSUME Inv, NEW id \in Id, Cool(id)
    PROVE  Inv'
<1> USE DEF Inv, Typed
<1>1. UNCHANGED <<jobs, job, timers, fires, enqueued, callVars, switch, patrolling, fileVars>>
  BY DEF Cool
<1>2. Ticks /\ CallsStay /\ Goes
  BY <1>1, StillTicks, NothingStays, NothingCalms, CalmGoes DEF callVars, Arming
<1>3. Reminds
  BY <1>1 DEF Reminds, callVars, Waits
<1>4. recent' \subseteq Id
  BY DEF Cool, TypeOK
<1> QED
  BY <1>1, <1>2, <1>3, <1>4, TicksKeep DEF callVars, TypeOK

\* The callback of an armed timer starts: no other one of its job is current.
LEMMA LaunchKeeps ==
    ASSUME Inv, NEW id \in Id, Launch(id)
    PROVE  Inv'
<1> USE DEF Inv, Typed
<1>1. PICK i \in Slot :
        /\ fires[i] = NoFire
        /\ fires' = [fires EXCEPT ![i] = [id |-> id, live |-> TRUE, pc |-> "start"]]
  BY DEF Launch
<1>2. /\ timers[id] = "armed" /\ job[id].next # "future"
      /\ timers' = [timers EXCEPT ![id] = "spent"]
      /\ UNCHANGED <<jobs, job, recent, enqueued, callVars, switch, patrolling, fileVars>>
  BY DEF Launch
<1>3. /\ \A k \in Slot : fires'[k] = IF k = i THEN [id |-> id, live |-> TRUE, pc |-> "start"] ELSE fires[k]
      /\ fires' \in [Slot -> Fire \cup {NoFire}]
  BY <1>1 DEF TypeOK, Fire
<1>4. /\ \A k \in Id : timers'[k] = IF k = id THEN "spent" ELSE timers[k]
      /\ timers' \in [Id -> Timer]
  BY <1>2 DEF TypeOK, Timer
<1>5. Chain'
  <2> SUFFICES ASSUME NEW k \in Id, NEW j \in Slot, fires'[j].id = k, fires'[j].live
               PROVE  /\ timers'[k] # "armed"
                      /\ \A l \in Slot : fires'[l].id = k /\ fires'[l].live => j = l
    BY DEF Chain
  <2> QED
    BY <1>2, <1>3, <1>4 DEF Arming, Chain
<1>6. ASSUME NEW k \in Id, Saving(k) PROVE Saving(k)'
  BY <1>6, <1>1, <1>3 DEF Saving, NoFire
<1>7. Goes
  BY <1>3, <1>4, <1>5, <1>6 DEF Goes
<1>8. Reminds
  <2>1. ASSUME NEW k \in jobs', k # id PROVE timers'[k] = timers[k] /\ k \in jobs /\ job'[k] = job[k]
    BY <1>2, <1>4, <2>1 DEF TypeOK
  <2> QED
    BY <1>2, <2>1 DEF Reminds, callVars, Waits
<1> QED
  BY <1>2, <1>7, <1>8, StillTicks, NothingStays, TicksKeep DEF callVars, TypeOK

\* The jobs after the time of those in ids was set anew.
LEMMA RetimedTicks ==
    ASSUME Typed, NEW ids \in SUBSET jobs, NEW time \in [ids -> NextFire],
           job' = [id \in Id |-> IF id \in ids THEN [job[id] EXCEPT !.next = time[id]] ELSE job[id]],
           UNCHANGED <<jobs, patrolling, fileVars>>
    PROVE  Ticks
<1> USE DEF Typed
<1>1. ASSUME NEW id \in ids PROVE
        /\ id \in Id /\ job[id] \in Job /\ job'[id] \in Job
        /\ job'[id].recurring = job[id].recurring /\ job'[id].paused = job[id].paused
        /\ job'[id].spec = job[id].spec
  <2>1. id \in Id /\ job[id] \in Job
    BY <1>1, JobInMap
  <2>2. job'[id] = [job[id] EXCEPT !.next = time[id]]
    BY <2>1
  <2> QED
    BY <2>1, <2>2 DEF Job
<1>2. \A id \in Id \ ids : job'[id] = job[id]
  OBVIOUS
<1>3. job' \in [Id -> Job \cup {None}]
  <2>1. \A id \in Id : job'[id] \in Job \cup {None}
    BY <1>1, <1>2 DEF TypeOK
  <2> QED
    BY <2>1
<1> QED
  BY <1>1, <1>2, <1>3 DEF Ticks, fileVars

\* A recurring job is rescheduled by its callback, or removed with a save to come.
LEMMA RescheduleKeeps ==
    ASSUME Inv, NEW i \in Slot, NEW id \in jobs, fires[i].id = id, fires[i].pc \in {"start", "tail"},
           Reschedule(i, id), UNCHANGED <<recent, enqueued, callVars, switch, patrolling, fileVars>>
    PROVE  Inv'
<1> USE DEF Inv, Typed
<1>1. id \in Id /\ job[id] \in Job /\ fires[i] \in Fire
  BY JobInMap, FireIs
<1>2. CallsStay
  BY NothingStays DEF callVars
<1>3. CASE /\ \E n \in NextAfter(job[id].next) : job' = [job EXCEPT ![id].next = n]
           /\ Schedule({id}, Drop(i))
           /\ UNCHANGED jobs
  <2>1. PICK n \in NextAfter(job[id].next) : job' = [job EXCEPT ![id].next = n]
    BY <1>3
  <2>2. n \in NextFire
    BY <1>1 DEF NextAfter, NextFire, Job
  <2>3. PICK time : time = [k \in {id} |-> n]
    OBVIOUS
  <2>4. /\ time \in [{id} -> NextFire]
        /\ job' = [k \in Id |-> IF k \in {id} THEN [job[k] EXCEPT !.next = time[k]] ELSE job[k]]
    <3>1. time[id] = n /\ time \in [{id} -> NextFire]
      BY <2>2, <2>3
    <3>2. job' = [k \in Id |-> IF k = id THEN [job[k] EXCEPT !.next = n] ELSE job[k]]
      BY <2>1, <1>1 DEF TypeOK
    <3> QED
      BY <3>1, <3>2
  <2>5. Ticks
    <3>1. {id} \in SUBSET jobs
      OBVIOUS
    <3>2. UNCHANGED <<jobs, patrolling, fileVars>>
      BY <1>3
    <3> QED
      BY <2>4, <3>1, <3>2, RetimedTicks
  <2>6. /\ Drop(i) \in [Slot -> Fire \cup {NoFire}]
        /\ \A k \in Slot : Drop(i)[k] = fires[k] \/ (Drop(i)[k] = NoFire /\ fires[k].pc # "save")
    BY DEF Drop, TypeOK
  <2>7. Arms({id})
    BY <1>1, <1>3, <2>6, ScheduleArms
  <2>8. Goes
    BY <2>7, CalmGoes DEF Arms, Arming
  <2>9. Reminds
    <3>1. ASSUME NEW k \in jobs', k # id PROVE timers'[k] = timers[k] /\ k \in jobs /\ job'[k] = job[k]
      BY <1>3, <2>4, <2>7, <3>1 DEF Arms, TypeOK
    <3> QED
      BY <1>1, <2>7, <3>1 DEF Reminds, Arms, callVars, Waits
  <2> QED
    BY <1>2, <2>5, <2>8, <2>9, TicksKeep DEF callVars, TypeOK
<1>4. CASE /\ jobs' = jobs \ {id}
           /\ timers' = [timers EXCEPT ![id] = "none"]
           /\ fires' = [fires EXCEPT ![i].pc = "save"]
           /\ UNCHANGED job
  <2> DEFINE f == [fires[i] EXCEPT !.pc = "save"]
  <2>1. fires' = [fires EXCEPT ![i] = f] /\ f \in {[fires[i] EXCEPT !.pc = p] : p \in {"enqueue", "tail", "save"}}
    BY <1>4
  <2>2. Calms /\ \A k \in Id \ {id} : timers'[k] = timers[k]
    <3> HIDE DEF f
    <3> QED
      BY <1>1, <1>4, <2>1, CallbackCalms
  <2>3. Goes
    BY <2>2, CalmGoes DEF Arming
  <2>4. Saving(id)'
    <3>1. fires'[i] = f
      BY <2>1 DEF TypeOK
    <3>2. f.id = id /\ f.pc = "save"
      BY <1>1 DEF Fire
    <3> QED
      BY <3>1, <3>2 DEF Saving
  <2>5. Ticks
    BY <1>4, <2>4 DEF Ticks, fileVars, TypeOK
  <2>6. Reminds
    <3>1. ASSUME NEW k \in jobs' PROVE timers'[k] = timers[k] /\ k \in jobs /\ job'[k] = job[k]
      BY <1>4, <2>2, <3>1 DEF TypeOK
    <3> QED
      BY <3>1 DEF Reminds, callVars, Waits
  <2> QED
    BY <1>2, <2>3, <2>5, <2>6, TicksKeep DEF callVars, TypeOK
<1> QED
  BY <1>3, <1>4 DEF Reschedule

\* A callback goes on or ends without touching a recurring job.
LEMMA CallbackKeeps ==
    ASSUME Inv, NEW i \in Slot, fires[i].pc \notin {"none", "save"},
           NEW f \in {NoFire} \cup {[fires[i] EXCEPT !.pc = p] : p \in {"enqueue", "tail", "save"}},
           fires' = [fires EXCEPT ![i] = f],
           NEW id \in Id,
           \/ UNCHANGED <<timers, jobs>>
           \/ /\ ~job[id].recurring
              /\ jobs' = jobs \ {id} /\ timers' = [timers EXCEPT ![id] = "none"],
           recent' \subseteq Id, enqueued' \in [Id -> 0 .. 2],
           UNCHANGED <<job, callVars, switch, patrolling, fileVars>>
    PROVE  Inv'
<1> USE DEF Inv, Typed
<1>1. Calms /\ \A k \in Id \ {id} : timers'[k] = timers[k]
  BY CallbackCalms
<1>2. Goes
  BY <1>1, CalmGoes DEF Arming
<1>3. Ticks
  BY DEF Ticks, fileVars, TypeOK
<1>4. ASSUME NEW k \in jobs' PROVE timers'[k] = timers[k] /\ k \in jobs /\ job'[k] = job[k]
  BY <1>1, <1>4 DEF TypeOK
<1>5. Reminds
  BY <1>4 DEF Reminds, callVars, Waits
<1> QED
  BY <1>2, <1>3, <1>5, NothingStays, TicksKeep DEF callVars, TypeOK

LEMMA FireStartKeeps ==
    ASSUME Inv, NEW i \in Slot, FireStart(i)
    PROVE  Inv'
<1> USE DEF Inv, Typed
<1>1. fires[i].pc = "start" /\ UNCHANGED <<enqueued, callVars, switch, patrolling, fileVars>>
  BY DEF FireStart
<1>2. fires[i] \in Fire /\ fires[i].id \in Id /\ enqueued' \in [Id -> 0 .. 2] /\ recent \subseteq Id
  BY <1>1, FireIs DEF Fire, TypeOK
<1> DEFINE id == fires[i].id
<1>3. CASE fires' = Drop(i) /\ UNCHANGED <<jobs, job, timers, recent>>
  BY <1>1, <1>2, <1>3, CallbackKeeps DEF Drop
<1>4. CASE id \in jobs /\ Reschedule(i, id) /\ UNCHANGED recent
  BY <1>1, <1>2, <1>4, RescheduleKeeps
<1>5. CASE /\ recent' = recent \cup {id}
           /\ fires' = [fires EXCEPT ![i].pc = "enqueue"]
           /\ UNCHANGED <<jobs, job, timers>>
  <2>1. PICK f : f = [fires[i] EXCEPT !.pc = "enqueue"]
    OBVIOUS
  <2>2. /\ f \in {[fires[i] EXCEPT !.pc = p] : p \in {"enqueue", "tail", "save"}}
        /\ fires' = [fires EXCEPT ![i] = f]
        /\ recent' \subseteq Id
    BY <1>2, <1>5, <2>1
  <2> QED
    BY <1>1, <1>2, <1>5, <2>2, CallbackKeeps
<1> QED
  BY <1>3, <1>4, <1>5 DEF FireStart

LEMMA FireEnqueueKeeps ==
    ASSUME Inv, NEW i \in Slot, FireEnqueue(i)
    PROVE  Inv'
<1> USE DEF Inv, Typed
<1>1. fires[i].pc = "enqueue" /\ UNCHANGED <<jobs, job, timers, recent, callVars, switch, patrolling, fileVars>>
  BY DEF FireEnqueue
<1>2. fires[i] \in Fire /\ fires[i].id \in Id /\ recent' \subseteq Id
  BY <1>1, FireIs DEF Fire, TypeOK
<1>3. enqueued' \in [Id -> 0 .. 2]
  <2>1. PICK id \in Id : id = fires[i].id
    BY <1>2
  <2>2. enqueued' = Count(id)
    BY <2>1 DEF FireEnqueue
  <2> QED
    BY <2>2 DEF Count, TypeOK
<1>4. CASE fires' = Drop(i)
  BY <1>1, <1>2, <1>3, <1>4, CallbackKeeps DEF Drop
<1>5. CASE fires' = [fires EXCEPT ![i].pc = "tail"]
  <2>1. PICK f : f = [fires[i] EXCEPT !.pc = "tail"]
    OBVIOUS
  <2>2. /\ f \in {[fires[i] EXCEPT !.pc = p] : p \in {"enqueue", "tail", "save"}}
        /\ fires' = [fires EXCEPT ![i] = f]
    BY <1>5, <2>1
  <2> QED
    BY <1>1, <1>2, <1>3, <2>2, CallbackKeeps
<1> QED
  BY <1>4, <1>5 DEF FireEnqueue

LEMMA FireTailKeeps ==
    ASSUME Inv, NEW i \in Slot, FireTail(i)
    PROVE  Inv'
<1> USE DEF Inv, Typed
<1>1. fires[i].pc = "tail" /\ UNCHANGED <<recent, enqueued, callVars, switch, patrolling, fileVars>>
  BY DEF FireTail
<1>2. fires[i] \in Fire /\ fires[i].id \in Id /\ enqueued' \in [Id -> 0 .. 2] /\ recent' \subseteq Id
  BY <1>1, FireIs DEF Fire, TypeOK
<1> DEFINE id == fires[i].id
<1>3. CASE fires' = Drop(i) /\ UNCHANGED <<jobs, job, timers>>
  BY <1>1, <1>2, <1>3, CallbackKeeps DEF Drop
<1>4. CASE id \in jobs /\ Reschedule(i, id)
  BY <1>1, <1>2, <1>4, RescheduleKeeps
<1>5. CASE /\ ~job[id].recurring
           /\ jobs' = jobs \ {id}
           /\ timers' = [timers EXCEPT ![id] = "none"]
           /\ fires' = Drop(i)
           /\ UNCHANGED job
  BY <1>1, <1>2, <1>5, CallbackKeeps DEF Drop
<1> QED
  BY <1>3, <1>4, <1>5 DEF FireTail

LEMMA patrolCheckKeeps ==
    ASSUME Inv, patrolCheck
    PROVE  Inv'
<1> USE DEF Inv, Typed
<1> DEFINE missed == {id \in jobs : ~job[id].paused /\ job[id].next = "overdue"}
           time == [id \in missed |-> IF job[id].recurring THEN "future" ELSE "due"]
<1>1. /\ job' = [id \in Id |-> IF id \in missed THEN [job[id] EXCEPT !.next = time[id]] ELSE job[id]]
      /\ Schedule(missed, fires)
      /\ UNCHANGED <<jobs, recent, enqueued, callVars, switch, patrolling, fileVars>>
  BY DEF patrolCheck
<1>2. Ticks
  <2>1. time \in [missed -> NextFire]
    BY DEF NextFire
  <2>2. missed \in SUBSET jobs
    OBVIOUS
  <2> HIDE DEF missed, time
  <2> QED
    BY <1>1, <2>1, <2>2, RetimedTicks
<1>3. Arms(missed)
  <2>1. missed \in SUBSET Id /\ fires \in [Slot -> Fire \cup {NoFire}]
    BY DEF TypeOK
  <2> HIDE DEF missed
  <2> QED
    BY <1>1, <2>1, ScheduleArms
<1>4. Goes
  BY <1>3, CalmGoes DEF Arms, Arming
<1>5. Reminds
  <2>1. ASSUME NEW k \in jobs', k \notin missed PROVE timers'[k] = timers[k] /\ k \in jobs /\ job'[k] = job[k]
    BY <1>1, <1>3, <2>1 DEF Arms, TypeOK
  <2>2. ASSUME NEW k \in jobs', k \in missed PROVE timers'[k] = "armed"
    BY <1>1, <1>3, <2>2 DEF Arms, TypeOK
  <2> HIDE DEF missed
  <2> QED
    BY <1>1, <2>1, <2>2 DEF Reminds, callVars, Waits
<1> QED
  BY <1>1, <1>2, <1>4, <1>5, NothingStays, TicksKeep DEF callVars, TypeOK

-----------------------------------------------------------------------------
(* A call begins *)

LEMMA DisturbedIs ==
    ASSUME TypeOK, NEW d \in Caller
    PROVE  /\ Disturbed \in [Caller -> Call \cup {NoCall}]
           /\ Disturbed[d] = NoCall <=> call[d] = NoCall
           /\ Disturbed[d].op = call[d].op /\ Disturbed[d].pc = call[d].pc
           /\ Disturbed[d].id = call[d].id /\ Disturbed[d].spec = call[d].spec
           /\ Disturbed[d].timer = call[d].timer
           /\ ~Disturbed[d].alone
<1>1. ASSUME NEW e \in Caller, call[e] # NoCall
      PROVE  [call[e] EXCEPT !.alone = FALSE] \in Call
  <2>1. call[e] \in Call
    BY <1>1, CallIs
  <2> QED
    BY <2>1 DEF Call
<1>2. Disturbed \in [Caller -> Call \cup {NoCall}]
  BY <1>1 DEF Disturbed
<1>3. CASE call[d] = NoCall
  <2>1. Disturbed[d] = NoCall
    BY <1>3 DEF Disturbed
  <2> QED
    BY <1>2, <1>3, <2>1 DEF NoCall
<1>4. CASE call[d] # NoCall
  <2>1. Disturbed[d] = [call[d] EXCEPT !.alone = FALSE]
    BY <1>4 DEF Disturbed
  <2>2. call[d] \in Call
    BY <1>4, CallIs
  <2>3. /\ Disturbed[d].op = call[d].op /\ Disturbed[d].pc = call[d].pc
        /\ Disturbed[d].id = call[d].id /\ Disturbed[d].spec = call[d].spec
        /\ Disturbed[d].timer = call[d].timer
        /\ Disturbed[d].alone = FALSE
    BY <2>1, <2>2 DEF Call
  <2>4. Disturbed[d] # NoCall
    BY <2>2, <2>3 DEF Call, NoCall
  <2> QED
    BY <1>2, <1>4, <2>3, <2>4
<1> QED
  BY <1>3, <1>4

LEMMA BeginIs ==
    ASSUME TypeOK, NEW c \in Caller, NEW k \in Call, Begin(c, k)
    PROVE  /\ patrolling /\ call[c] = NoCall /\ calls' \in 0 .. MaxCalls
           /\ call' \in [Caller -> Call \cup {NoCall}]
           /\ call'[c] # NoCall
           /\ call'[c].op = k.op /\ call'[c].pc = k.pc /\ call'[c].id = k.id
           /\ call'[c].spec = k.spec /\ call'[c].timer = k.timer
           /\ call'[c].alone => Quiet
           /\ \A d \in Caller \ {c} :
                /\ call'[d] = NoCall <=> call[d] = NoCall
                /\ call'[d].op = call[d].op /\ call'[d].pc = call[d].pc
                /\ call'[d].id = call[d].id /\ call'[d].spec = call[d].spec
                /\ ~call'[d].alone
<1>1. PICK new : new = [k EXCEPT !.alone = Quiet]
  OBVIOUS
<1>2. call' = [Disturbed EXCEPT ![c] = new] /\ patrolling /\ call[c] = NoCall
  BY <1>1 DEF Begin
<1>3. Quiet \in BOOLEAN
  BY DEF Quiet
<1>4. /\ new \in Call /\ new.op = k.op /\ new.pc = k.pc /\ new.id = k.id
      /\ new.spec = k.spec /\ new.timer = k.timer /\ new.alone = Quiet
  BY <1>1, <1>3 DEF Call
<1>5. new # NoCall
  BY <1>4 DEF Call, NoCall
<1>6. calls' \in 0 .. MaxCalls
  BY CronAssumption DEF Begin, TypeOK
<1>7. Disturbed \in [Caller -> Call \cup {NoCall}]
  BY DisturbedIs
<1>8. call'[c] = new /\ \A d \in Caller \ {c} : call'[d] = Disturbed[d]
  BY <1>2, <1>7
<1>9. call' \in [Caller -> Call \cup {NoCall}]
  BY <1>2, <1>4, <1>7
<1> QED
  BY <1>2, <1>4, <1>5, <1>6, <1>8, <1>9, DisturbedIs

\* When all is quiet the file agrees with memory on every job, and none waits for its timer.
LEMMA QuietIs ==
    ASSUME Inv, Quiet, NEW id \in Id
    PROVE  (Orderly => Synced(id)) /\ ~Waits(id)
<1> USE DEF Inv, Typed
<1>1. /\ \A c \in Caller : call[c].id # id /\ call[c].pc # "schedule"
      /\ switch.id # id
  BY CronAssumption DEF Quiet, NoCall, NoSwitch
<1>2. ~Saving(id)
  BY DEF Quiet, Saving
<1> QED
  BY <1>1, <1>2 DEF Filing, Follows, Waits

\* What the call k does to its job before it is saved.
Begins(k) ==
    /\ k.id \in Id /\ k.id \in known' /\ known' \subseteq Id
    /\ \A id \in Id \ {k.id} :
        /\ job'[id] = job[id]
        /\ id \in jobs' <=> id \in jobs
        /\ id \in known' <=> id \in known
        /\ timers'[id] = timers[id]
    /\ jobs' \subseteq Id /\ known \subseteq known'
    /\ job' \in [Id -> Job \cup {None}] /\ job'[k.id] \in Job
    /\ k.id \in jobs' =>
        \/ job'[k.id].paused \/ job'[k.id].next # "future"
        \/ timers'[k.id] = "armed" \/ k.pc = "schedule"
    /\ \/ /\ k.op = "create"
          /\ \A t \in Session : k.id \notin DOMAIN store[t]
       \/ /\ k.op \in {"delete", "update", "pause", "resume"}
          /\ k.id \in jobs
          /\ job'[k.id].recurring = job[k.id].recurring
          /\ EntryOf(k.id) = Before(k)'
          /\ k.op # "delete" => k.id \in jobs'
          /\ k.op = "delete" => /\ k.id \notin jobs' /\ job'[k.id] = job[k.id]
                                /\ k.timer <=> timers[k.id] # "none"
          /\ known' = known
    /\ k.op = "update" => k.spec \in Setting
    /\ UNCHANGED <<recent, enqueued, switch, patrolling, session, store, visited, muddled>>

LEMMA BeginKeeps ==
    ASSUME Inv, NEW c \in Caller, NEW k \in Call, Begin(c, k), Begins(k), Goes
    PROVE  Inv'
<1> USE DEF Inv, Typed
<1>1. PICK id \in Id : id = k.id
  BY DEF Begins
<1>2. /\ patrolling /\ call[c] = NoCall /\ call[c].id = None
      /\ call'[c] # NoCall /\ call'[c].op = k.op /\ call'[c].pc = k.pc /\ call'[c].id = id
      /\ call'[c].spec = k.spec /\ call'[c].timer = k.timer
      /\ call'[c].alone => Quiet
  <2>1. NoCall.id = None
    BY DEF NoCall
  <2> HIDE DEF Inv
  <2>2. TypeOK
    BY DEF Inv
  <2> QED
    BY <1>1, <2>1, <2>2, BeginIs
<1>3. \A d \in Caller \ {c} :
        /\ call'[d] = NoCall <=> call[d] = NoCall
        /\ call'[d].op = call[d].op /\ call'[d].pc = call[d].pc
        /\ call'[d].id = call[d].id /\ call'[d].spec = call[d].spec
        /\ ~call'[d].alone
  BY BeginIs
<1>4. \A x \in Id \ {id} :
        /\ job'[x] = job[x] /\ timers'[x] = timers[x]
        /\ x \in jobs' <=> x \in jobs
        /\ x \in known' <=> x \in known
  BY <1>1 DEF Begins
<1>5. UNCHANGED <<recent, enqueued, switch, patrolling, session, store, visited, muddled>>
  BY DEF Begins
<1>6. id \in known' /\ known' \subseteq Id /\ known \subseteq known' /\ job'[id] \in Job /\ jobs' \subseteq Id
  BY <1>1 DEF Begins
<1>7. TypeOK'
  <2>1. call' \in [Caller -> Call \cup {NoCall}] /\ calls' \in 0 .. MaxCalls
    BY BeginIs
  <2>2. \A x \in jobs' : x \in known' /\ job'[x] \in Job
    BY <1>4, <1>6, JobInMap
  <2>3. job' \in [Id -> Job \cup {None}]
    BY DEF Begins
  <2> QED
    BY <1>5, <1>6, <2>1, <2>2, <2>3 DEF TypeOK, Goes
<1>8. Switches'
  BY <1>5 DEF Switches
<1>9. CallsHold'
  <2>1. ASSUME NEW d \in Caller, call'[d] # NoCall, d # c
        PROVE  /\ call'[d].id \in known' /\ job'[call'[d].id] \in Job
               /\ call'[d].op = "update" => call'[d].spec \in Setting
    <3>1. /\ call[d].id \in known /\ job[call[d].id] \in Job /\ call[d].id \in Id
          /\ call[d].op = "update" => call[d].spec \in Setting
      BY <1>3, <2>1, CallIdIs DEF CallsHold
    <3> QED
      BY <1>3, <1>4, <1>6, <2>1, <3>1
  <2>2. k.op = "update" => k.spec \in Setting
    BY DEF Begins
  <2> QED
    BY <1>2, <1>6, <2>1, <2>2 DEF CallsHold
<1>10. Alone'
  BY <1>2, <1>3, <1>5 DEF Alone, Quiet
<1>11. DeletedStays'
  <2> SUFFICES ASSUME NEW d \in Caller, call'[d].alone, call'[d].op = "delete"
               PROVE  /\ call'[d].id \notin jobs'
                      /\ patrolling' /\ ~muddled' /\ ~call'[d].timer =>
                            job'[call'[d].id].paused \/ job'[call'[d].id].next # "future"
    BY DEF DeletedStays
  <2>1. d = c /\ Quiet /\ k.op = "delete"
    BY <1>2, <1>3
  <2>2. id \in jobs /\ id \notin jobs' /\ job'[id] = job[id] /\ (k.timer <=> timers[id] # "none")
    BY <1>1, <2>1 DEF Begins
  <2>3. ~Waits(id)
    BY <2>1, QuietIs
  <2>4. ASSUME patrolling, ~muddled, ~k.timer PROVE job[id].paused \/ job[id].next # "future"
    BY <2>2, <2>3, <2>4 DEF Arming, FutureIsArmed, Waits
  <2> QED
    BY <1>2, <1>5, <2>1, <2>2, <2>4
<1>12. FutureIsArmed'
  <2>1. ASSUME NEW x \in jobs', x # id PROVE Waits(x) => Waits(x)'
    <3>1. x \in Id /\ x # None
      BY <1>6, CronAssumption
    <3> QED
      BY <1>2, <1>3, <1>5, <3>1 DEF Waits
  <2>2. k.pc = "schedule" => Waits(id)'
    BY <1>2 DEF Waits
  <2>3. id \in jobs' => \/ job'[id].paused \/ job'[id].next # "future"
                        \/ timers'[id] = "armed" \/ k.pc = "schedule"
    BY <1>1 DEF Begins
  <2>4. Reminds
    BY <1>4, <1>6, <2>1, <2>2, <2>3 DEF Reminds
  <2> QED
    BY <1>5, <2>4, RemindsKeeps DEF Arming
<1>13. Follows'
  <2> SUFFICES ASSUME Orderly', NEW x \in Id, x # id
               PROVE  Synced(x)' \/ Saving(x)' \/ \E d \in Caller : call'[d].id = x
    BY <1>2 DEF Follows
  <2>1. Orderly
    BY <1>5 DEF Orderly
  <2>2. Synced(x) \/ Saving(x) \/ \E d \in Caller : call[d].id = x
    BY <2>1 DEF Filing, Follows
  <2>3. Synced(x) => Synced(x)'
    BY <1>4, <1>5 DEF Synced, Mine, EntryOf
  <2>4. \A d \in Caller : call[d].id = x => call'[d].id = x
    BY <1>2, <1>3, CronAssumption
  <2> QED
    BY <2>2, <2>3, <2>4 DEF Goes
<1>14. Undoable'
  <2> SUFFICES ASSUME Orderly', NEW d \in Caller, call'[d].alone
               PROVE  Undo(call[d])'
    BY DEF Undoable
  <2>1. d = c /\ Quiet /\ Orderly /\ session \in Session
    BY <1>2, <1>3, <1>5 DEF Orderly, TypeOK
  <2>2. Synced(id)
    BY <2>1, QuietIs
  <2>3. call'[d].op = k.op /\ call'[d].id = id /\ call'[d].spec = k.spec
    BY <1>2, <2>1
  <2>4. CASE k.op = "create"
    <3>1. id \notin DOMAIN store[session]
      BY <1>1, <2>1, <2>4 DEF Begins
    <3> QED
      BY <1>5, <2>3, <2>4, <3>1 DEF Undo
  <2>5. CASE k.op \in {"delete", "update", "pause", "resume"}
    <3>1. /\ id \in jobs /\ job'[id].recurring = job[id].recurring
          /\ EntryOf(id) = Before(k)'
          /\ k.op # "delete" => id \in jobs'
      BY <1>1, <2>5 DEF Begins
    <3>2. id \in known
      BY <3>1, JobInMap
    <3>3. /\ id \in DOMAIN store[session] <=> job'[id].recurring
          /\ job'[id].recurring => store[session][id] = Before(k)'
      BY <2>2, <3>1, <3>2 DEF Synced, Mine
    <3>4. Before(call[d])' = Before(k)'
      BY <1>1, <2>3 DEF Before
    <3> QED
      BY <1>5, <2>3, <2>5, <3>1, <3>3, <3>4 DEF Undo
  <2> QED
    BY <2>4, <2>5 DEF Begins
<1>15. Unvisited'
  <2>1. ASSUME NEW t \in Session \ visited PROVE DOMAIN store[t] \subseteq Id \ known'
    <3>1. DOMAIN store[t] \subseteq Id \ known
      BY DEF Filing, Unvisited
    <3>2. CASE k.op = "create"
      BY <1>1, <1>4, <3>1, <3>2 DEF Begins
    <3>3. CASE k.op # "create"
      BY <3>1, <3>3 DEF Begins
    <3> QED
      BY <3>2, <3>3
  <2> QED
    BY <1>5, <2>1 DEF Filing, Unvisited
<1>16. TodoIsFile'
  BY <1>5, <1>6 DEF Filing, TodoIsFile
<1>17. Chain'
  BY DEF Goes
<1> QED
  BY <1>7, <1>8, <1>9, <1>10, <1>11, <1>12, <1>13, <1>14, <1>15, <1>16, <1>17 DEF Arming, Filing

LEMMA CreateKeeps ==
    ASSUME Inv, NEW c \in Caller, NEW id \in Id, NEW recurring \in BOOLEAN, Create(c, id, recurring)
    PROVE  Inv'
<1> USE DEF Inv, Typed
<1>1. PICK k : k = [NoCall EXCEPT !.op = "create", !.pc = "schedule", !.id = id]
  OBVIOUS
<1>2. /\ k \in Call /\ k.op = "create" /\ k.pc = "schedule" /\ k.id = id
  BY <1>1 DEF NoCall, Call, NextFire
<1>3. Begin(c, k)
  BY <1>1 DEF Create
<1>4. /\ id \notin known /\ \A t \in Session : id \notin DOMAIN store[t]
      /\ jobs' = jobs \cup {id} /\ known' = known \cup {id}
      /\ UNCHANGED <<timeVars, switch, patrolling, session, store, visited, muddled>>
  BY DEF Create, Know
<1>5. PICK s \in Setting :
        job' = [job EXCEPT ![id] = [recurring |-> recurring, paused |-> FALSE, next |-> "future", spec |-> s]]
  BY DEF Create
<1>6. /\ job' \in [Id -> Job \cup {None}] /\ job'[id] \in Job
      /\ \A x \in Id \ {id} : job'[x] = job[x]
  BY <1>5 DEF TypeOK, Job, NextFire
<1>7. Goes
  BY <1>4, NothingCalms, CalmGoes DEF timeVars, Arming
<1>8. Begins(k)
  BY <1>2, <1>4, <1>6 DEF Begins, timeVars, TypeOK
<1> QED
  BY <1>2, <1>3, <1>7, <1>8, BeginKeeps

LEMMA DeleteKeeps ==
    ASSUME Inv, NEW c \in Caller, NEW id \in Id, Delete(c, id)
    PROVE  Inv'
<1> USE DEF Inv, Typed
<1>1. PICK k : k = [NoCall EXCEPT !.op = "delete", !.pc = "save", !.id = id, !.timer = timers[id] # "none"]
  OBVIOUS
<1>2. /\ k \in Call /\ k.op = "delete" /\ k.pc = "save" /\ k.id = id
      /\ k.timer = (timers[id] # "none")
  <2>1. (timers[id] # "none") \in BOOLEAN
    OBVIOUS
  <2> QED
    BY <1>1, <2>1 DEF NoCall, Call, NextFire
<1>3. Begin(c, k)
  BY <1>1 DEF Delete
<1>4. /\ id \in jobs /\ jobs' = jobs \ {id} /\ Stop({id})
      /\ UNCHANGED <<job, recent, enqueued, switch, patrolling, fileVars>>
  BY DEF Delete
<1>5. Disarms({id})
  BY <1>4, StopDisarms
<1>6. Goes
  BY <1>5, CalmGoes DEF Disarms, Arming
<1>7. job[id] \in Job /\ id \in known
  BY <1>4, JobInMap
<1>8. EntryOf(id) = Before(k)'
  BY <1>2, <1>4, <1>7 DEF EntryOf, Before, Job
<1>9. Begins(k)
  BY <1>2, <1>4, <1>5, <1>7, <1>8 DEF Begins, Disarms, TypeOK, fileVars
<1> QED
  BY <1>2, <1>3, <1>6, <1>9, BeginKeeps

\* Update, Pause and Resume: one job changes, and its timer is rebuilt or stopped.
LEMMA ChangeKeeps ==
    ASSUME Inv, NEW c \in Caller, NEW id \in jobs, NEW k \in Call, Begin(c, k),
           k.op \in {"update", "pause", "resume"}, k.id = id, k.op = "update" => k.spec \in Setting,
           NEW new \in Job, job' = [job EXCEPT ![id] = new],
           new.recurring = job[id].recurring,
           EntryOf(id) = [paused |-> (k.op = "resume" \/ (k.op # "pause" /\ new.paused)),
                          spec |-> IF k.op = "update" THEN k.spec ELSE new.spec],
           IF new.paused THEN Stop({id}) ELSE Schedule({id}, fires),
           UNCHANGED <<jobs, recent, enqueued, switch, patrolling, fileVars>>
    PROVE  Inv'
<1> USE DEF Inv, Typed
<1>1. id \in Id /\ id \in known
  BY JobInMap
<1>2. job'[id] = new /\ job' \in [Id -> Job \cup {None}] /\ \A x \in Id \ {id} : job'[x] = job[x]
  BY <1>1 DEF TypeOK
<1>3. EntryOf(id) = Before(k)'
  BY <1>2 DEF Before
<1>4. /\ Calms /\ \A x \in Id \ {id} : timers'[x] = timers[x]
      /\ new.paused \/ timers'[id] = "armed"
  <2>1. CASE new.paused
    BY <1>1, <2>1, StopDisarms DEF Disarms
  <2>2. CASE ~new.paused
    <3>1. fires \in [Slot -> Fire \cup {NoFire}]
      BY DEF TypeOK
    <3>2. Arms({id})
      BY <1>1, <2>2, <3>1, ScheduleArms
    <3> QED
      BY <1>1, <3>2 DEF Arms
  <2> QED
    BY <2>1, <2>2
<1>5. Goes
  BY <1>4, CalmGoes DEF Arming
<1>6. Begins(k)
  BY <1>1, <1>2, <1>3, <1>4 DEF Begins, TypeOK, fileVars
<1> QED
  BY <1>5, <1>6, BeginKeeps

LEMMA UpdateKeeps ==
    ASSUME Inv, NEW c \in Caller, NEW id \in Id, NEW expr \in BOOLEAN, NEW s \in Setting,
           Update(c, id, expr, s)
    PROVE  Inv'
<1> USE DEF Inv, Typed
<1>1. id \in jobs /\ job[id] \in Job
  BY JobInMap DEF Update
<1>2. PICK k : k = [NoCall EXCEPT !.op = "update", !.pc = "save", !.id = id, !.expr = expr, !.spec = job[id].spec]
  OBVIOUS
<1>3. k \in Call /\ k.op = "update" /\ k.id = id /\ k.spec = job[id].spec /\ job[id].spec \in Setting
  BY <1>1, <1>2 DEF NoCall, Call, NextFire, Job
<1>4. PICK next : next = IF expr /\ ~job[id].paused THEN "future" ELSE job[id].next
  OBVIOUS
<1>5. PICK new : new = [job[id] EXCEPT !.spec = s, !.next = next]
  OBVIOUS
<1>6. /\ new \in Job /\ new.recurring = job[id].recurring /\ new.paused = job[id].paused
      /\ new.spec = s
  BY <1>1, <1>4, <1>5 DEF Job, NextFire
<1>7. job' = [job EXCEPT ![id] = new]
  BY <1>4, <1>5 DEF Update, TypeOK
<1>8. EntryOf(id) = [paused |-> (k.op = "resume" \/ (k.op # "pause" /\ new.paused)),
                     spec |-> IF k.op = "update" THEN k.spec ELSE new.spec]
  BY <1>1, <1>3, <1>6 DEF EntryOf, Job
<1>9. /\ IF new.paused THEN Stop({id}) ELSE Schedule({id}, fires)
      /\ UNCHANGED <<jobs, recent, enqueued, switch, patrolling, fileVars>>
  BY <1>6 DEF Update
<1>10. Begin(c, k)
  BY <1>2 DEF Update
<1> QED
  BY <1>1, <1>3, <1>6, <1>7, <1>8, <1>9, <1>10, ChangeKeeps

LEMMA PauseKeeps ==
    ASSUME Inv, NEW c \in Caller, NEW id \in Id, Pause(c, id)
    PROVE  Inv'
<1> USE DEF Inv, Typed
<1>1. id \in jobs /\ job[id] \in Job /\ ~job[id].paused
  BY JobInMap DEF Pause
<1>2. PICK k : k = [NoCall EXCEPT !.op = "pause", !.pc = "save", !.id = id, !.next = job[id].next]
  OBVIOUS
<1>3. k \in Call /\ k.op = "pause" /\ k.id = id
  BY <1>1, <1>2 DEF NoCall, Call, Job
<1>4. PICK new : new = [job[id] EXCEPT !.paused = TRUE, !.next = "zero"]
  OBVIOUS
<1>5. /\ new \in Job /\ new.recurring = job[id].recurring /\ new.paused = TRUE
      /\ new.spec = job[id].spec
  BY <1>1, <1>4 DEF Job, NextFire
<1>6. job' = [job EXCEPT ![id] = new]
  BY <1>4 DEF Pause, TypeOK
<1>7. EntryOf(id) = [paused |-> (k.op = "resume" \/ (k.op # "pause" /\ new.paused)),
                     spec |-> IF k.op = "update" THEN k.spec ELSE new.spec]
  BY <1>1, <1>3, <1>5 DEF EntryOf, Job
<1>8. /\ IF new.paused THEN Stop({id}) ELSE Schedule({id}, fires)
      /\ UNCHANGED <<jobs, recent, enqueued, switch, patrolling, fileVars>>
  BY <1>5 DEF Pause
<1>9. Begin(c, k)
  BY <1>2 DEF Pause
<1> QED
  BY <1>1, <1>3, <1>5, <1>6, <1>7, <1>8, <1>9, ChangeKeeps

LEMMA ResumeKeeps ==
    ASSUME Inv, NEW c \in Caller, NEW id \in Id, Resume(c, id)
    PROVE  Inv'
<1> USE DEF Inv, Typed
<1>1. id \in jobs /\ job[id] \in Job /\ job[id].paused
  BY JobInMap DEF Resume
<1>2. PICK k : k = [NoCall EXCEPT !.op = "resume", !.pc = "save", !.id = id]
  OBVIOUS
<1>3. k \in Call /\ k.op = "resume" /\ k.id = id
  BY <1>1, <1>2 DEF NoCall, Call, NextFire
<1>4. PICK new : new = [job[id] EXCEPT !.paused = FALSE, !.next = "future"]
  OBVIOUS
<1>5. /\ new \in Job /\ new.recurring = job[id].recurring /\ new.paused = FALSE
      /\ new.spec = job[id].spec
  BY <1>1, <1>4 DEF Job, NextFire
<1>6. job' = [job EXCEPT ![id] = new]
  BY <1>4 DEF Resume, TypeOK
<1>7. EntryOf(id) = [paused |-> (k.op = "resume" \/ (k.op # "pause" /\ new.paused)),
                     spec |-> IF k.op = "update" THEN k.spec ELSE new.spec]
  BY <1>1, <1>3, <1>5 DEF EntryOf, Job
<1>8. /\ IF new.paused THEN Stop({id}) ELSE Schedule({id}, fires)
      /\ UNCHANGED <<jobs, recent, enqueued, switch, patrolling, fileVars>>
  BY <1>5 DEF Resume
<1>9. Begin(c, k)
  BY <1>2 DEF Resume
<1> QED
  BY <1>1, <1>3, <1>5, <1>6, <1>7, <1>8, <1>9, ChangeKeeps

-----------------------------------------------------------------------------
(* A call goes on: scheduling and saving *)

LEMMA CreateScheduleKeeps ==
    ASSUME Inv, NEW c \in Caller, CreateSchedule(c)
    PROVE  Inv'
<1> USE DEF Inv, Typed
<1>1. PICK id : id = call[c].id
  OBVIOUS
<1>2. /\ call[c].pc = "schedule" /\ Schedule({id}, fires)
      /\ call' = [call EXCEPT ![c].pc = "save"]
      /\ UNCHANGED <<calls, jobs, job, recent, enqueued, switch, patrolling, fileVars>>
  BY <1>1 DEF CreateSchedule
<1>3. call[c] \in Call /\ id \in Id
  BY <1>1, <1>2, CallIs, CallIdIs
<1>4. Arms({id})
  <2>1. fires \in [Slot -> Fire \cup {NoFire}]
    BY DEF TypeOK
  <2> QED
    BY <1>2, <1>3, <2>1, ScheduleArms
<1>5. Goes
  BY <1>4, CalmGoes DEF Arms, Arming
<1>6. /\ \A d \in Caller \ {c} : call'[d] = call[d]
      /\ CallsStay
  <2>1. PICK new : new = [call[c] EXCEPT !.pc = "save"]
    OBVIOUS
  <2>2. /\ new \in Call /\ new.op = call[c].op /\ new.id = call[c].id /\ new.spec = call[c].spec
        /\ new.timer = call[c].timer /\ new.alone = call[c].alone
    BY <1>3, <2>1 DEF Call
  <2>3. call' = [call EXCEPT ![c] = new]
    BY <1>2, <2>1
  <2>4. call' \in [Caller -> Call \cup {NoCall}] /\ call'[c] = new /\ \A d \in Caller \ {c} : call'[d] = call[d]
    BY <2>2, <2>3 DEF TypeOK
  <2>5. call[c] # NoCall /\ new # NoCall
    BY <1>3, <2>2 DEF Call, NoCall
  <2> QED
    BY <2>2, <2>4, <2>5 DEF CallsStay
<1>7. Reminds
  <2>1. ASSUME NEW x \in jobs', x # id
        PROVE  timers'[x] = timers[x] /\ x \in jobs /\ job'[x] = job[x] /\ (Waits(x) => Waits(x)')
    BY <1>1, <1>2, <1>4, <1>6, <2>1 DEF Arms, TypeOK, Waits
  <2> QED
    BY <1>3, <1>4, <2>1 DEF Reminds, Arms
<1> QED
  BY <1>2, <1>5, <1>6, <1>7, StillTicks, TicksKeep DEF TypeOK

\* A save succeeds, of a call that ends with it or of a callback, and no call is alone.
LEMMA WriteKeeps ==
    ASSUME Inv,
           store' = IF session = None THEN store ELSE [store EXCEPT ![session] = Merged(store[session])],
           call' \in [Caller -> Call \cup {NoCall}],
           \A d \in Caller :
              /\ ~call'[d].alone
              /\ \/ call'[d] = NoCall /\ call[d].pc # "schedule"
                 \/ /\ call[d] # NoCall /\ call'[d].op = call[d].op /\ call'[d].pc = call[d].pc
                    /\ call'[d].id = call[d].id /\ call'[d].spec = call[d].spec,
           fires' \in [Slot -> Fire \cup {NoFire}], Chain',
           UNCHANGED <<jobs, job, timers, recent, enqueued, calls, switch, patrolling, session,
                       known, visited, muddled>>
    PROVE  Inv'
<1> USE DEF Inv, Typed
<1>1. store \in [Session -> Files] /\ session \in {None} \cup Session
  BY DEF TypeOK
<1>2. CASE session = None
  <2>1. store' = store /\ ~Orderly'
    BY <1>2 DEF Orderly
  <2>2. TypeOK'
    BY <2>1 DEF TypeOK
  <2>3. Switches' /\ CallsHold'
    BY DEF Switches, CallsHold
  <2>4. Alone' /\ DeletedStays'
    BY DEF Alone, DeletedStays
  <2>5. Follows' /\ Undoable'
    BY <2>1 DEF Follows, Undoable
  <2>6. Reminds
    BY DEF Reminds, Waits
  <2>7. FutureIsArmed'
    BY <2>6, RemindsKeeps DEF Arming
  <2>8. Unvisited' /\ TodoIsFile'
    BY <2>1 DEF Filing, Unvisited, TodoIsFile
  <2> QED
    BY <2>2, <2>3, <2>4, <2>5, <2>7, <2>8 DEF Arming, Filing
<1>3. CASE session # None
  <2>1. session \in Session /\ store[session] \in Files
    BY <1>1, <1>3
  <2>2. PICK file : file = Merged(store[session])
    OBVIOUS
  <2>3. /\ file \in Files
        /\ \A id \in Mine : id \in DOMAIN file /\ file[id] = EntryOf(id)
        /\ \A id \in DOMAIN store[session] \ known : id \in DOMAIN file /\ file[id] = store[session][id]
        /\ \A id \in DOMAIN file : id \in Mine \/ (id \in DOMAIN store[session] /\ id \notin known)
    BY <2>1, <2>2, MergedIs
  <2>4. store' = [store EXCEPT ![session] = file]
    BY <1>3, <2>2
  <2>5. store' \in [Session -> Files] /\ store'[session] = file /\ \A s \in Session \ {session} : store'[s] = store[s]
    BY <1>1, <2>1, <2>3, <2>4
  <2>6. Mine \subseteq known /\ Mine' = Mine /\ \A id \in Mine : EntryOf(id)' = EntryOf(id)
    BY JobInMap DEF Mine, EntryOf
  <2>7. TypeOK'
    BY <2>5 DEF TypeOK
  <2>8. Switches' /\ CallsHold'
    BY DEF Switches, CallsHold
  <2>9. Alone' /\ DeletedStays' /\ Undoable'
    BY DEF Alone, DeletedStays, Undoable
  <2>10. Follows'
    <3>1. ASSUME NEW id \in Id PROVE Synced(id)'
      BY <2>3, <2>5, <2>6 DEF Synced
    <3> QED
      BY <3>1 DEF Follows
  <2>11. FutureIsArmed'
    <3>1. Reminds
      BY DEF Reminds, Waits
    <3> QED
      BY <3>1, RemindsKeeps DEF Arming
  <2>12. session \in visited
    BY <1>3 DEF Filing, Unvisited
  <2>13. Unvisited'
    <3> SUFFICES ASSUME NEW s \in Session \ visited
                 PROVE  /\ DOMAIN store'[s] \subseteq Id \ known
                        /\ DOMAIN store'[s] \cap DOMAIN switch.todo = {}
                        /\ \A t \in Session \ {s} : DOMAIN store'[s] \cap DOMAIN store'[t] = {}
      BY <2>12 DEF Unvisited
    <3>1. /\ DOMAIN store[s] \subseteq Id \ known
          /\ DOMAIN store[s] \cap DOMAIN switch.todo = {}
          /\ \A t \in Session \ {s} : DOMAIN store[s] \cap DOMAIN store[t] = {}
      BY DEF Filing, Unvisited
    <3>2. s # session /\ store'[s] = store[s]
      BY <2>5, <2>12
    <3>3. DOMAIN store[s] \cap DOMAIN file = {}
      BY <2>1, <2>3, <2>6, <3>1, <3>2
    <3> QED
      BY <2>5, <3>1, <3>2, <3>3
  <2>14. TodoIsFile'
    BY <2>3, <2>5, <1>3 DEF Filing, TodoIsFile
  <2> QED
    BY <2>7, <2>8, <2>9, <2>10, <2>11, <2>13, <2>14 DEF Arming, Filing
<1> QED
  BY <1>2, <1>3

LEMMA SaveOkKeeps ==
    ASSUME Inv, NEW c \in Caller, SaveOk(c)
    PROVE  Inv'
<1> USE DEF Inv, Typed
<1>1. /\ call[c].pc = "save" /\ call' = [call EXCEPT ![c] = NoCall]
      /\ store' = IF session = None THEN store ELSE [store EXCEPT ![session] = Merged(store[session])]
      /\ UNCHANGED <<jobs, job, timers, fires, recent, enqueued, calls, switch, patrolling, session,
                     known, visited, muddled>>
  BY DEF SaveOk, timeVars
<1>2. /\ call' \in [Caller -> Call \cup {NoCall}] /\ call'[c] = NoCall
      /\ \A d \in Caller \ {c} : call'[d] = call[d]
  BY <1>1 DEF TypeOK
<1>3. \A d \in Caller \ {c} : ~call[d].alone
  <2>1. call[c] # NoCall
    BY <1>1, CallIs
  <2> QED
    BY <2>1 DEF Arming, Alone
<1>4. ~NoCall.alone
  BY DEF NoCall
<1>5. fires' \in [Slot -> Fire \cup {NoFire}] /\ Chain'
  BY <1>1 DEF TypeOK, Arming, Chain
<1>6. ASSUME NEW d \in Caller PROVE
              /\ ~call'[d].alone
              /\ \/ call'[d] = NoCall /\ call[d].pc # "schedule"
                 \/ /\ call[d] # NoCall /\ call'[d].op = call[d].op /\ call'[d].pc = call[d].pc
                    /\ call'[d].id = call[d].id /\ call'[d].spec = call[d].spec
  <2>1. CASE d = c
    BY <1>1, <1>2, <1>4, <2>1
  <2>2. CASE d # c
    BY <1>2, <1>3, <2>2, CallIs
  <2> QED
    BY <2>1, <2>2
<1> HIDE DEF Inv
<1> QED
  BY <1>1, <1>2, <1>5, <1>6, WriteKeeps

LEMMA FireSaveKeeps ==
    ASSUME Inv, NEW i \in Slot, FireSave(i)
    PROVE  Inv'
<1> USE DEF Inv, Typed
<1>1. /\ fires' = Drop(i) /\ call' = Disturbed
      /\ UNCHANGED <<jobs, job, timers, recent, enqueued, calls, switch, patrolling, session, known, visited>>
  BY DEF FireSave
<1>2. fires' \in [Slot -> Fire \cup {NoFire}] /\ \A k \in Slot : fires'[k] = IF k = i THEN NoFire ELSE fires[k]
  BY <1>1 DEF Drop, TypeOK
<1>3. Chain'
  BY <1>1, <1>2 DEF Chain, Arming, NoFire
<1>4. /\ call' \in [Caller -> Call \cup {NoCall}]
      /\ \A d \in Caller :
              /\ ~call'[d].alone
              /\ call'[d] = NoCall <=> call[d] = NoCall
              /\ call'[d].op = call[d].op /\ call'[d].pc = call[d].pc
              /\ call'[d].id = call[d].id /\ call'[d].spec = call[d].spec
  <2>1. CASE Caller = {}
    BY <1>1, <2>1 DEF Disturbed
  <2>2. CASE Caller # {}
    BY <1>1, <2>2, DisturbedIs
  <2> QED
    BY <2>1, <2>2
<1>5. CASE /\ store' = IF session = None THEN store ELSE [store EXCEPT ![session] = Merged(store[session])]
           /\ muddled' = muddled
  <2>1. NoCall.pc # "schedule"
    BY DEF NoCall
  <2>2. ASSUME NEW d \in Caller PROVE
              /\ ~call'[d].alone
              /\ \/ call'[d] = NoCall /\ call[d].pc # "schedule"
                 \/ /\ call[d] # NoCall /\ call'[d].op = call[d].op /\ call'[d].pc = call[d].pc
                    /\ call'[d].id = call[d].id /\ call'[d].spec = call[d].spec
    BY <1>4, <2>1
  <2> HIDE DEF Inv
  <2> QED
    BY <1>1, <1>2, <1>3, <1>4, <1>5, <2>2, WriteKeeps
<1>6. CASE session # None /\ store' = store /\ muddled' = TRUE
  <2>1. TypeOK'
    BY <1>1, <1>2, <1>4, <1>6 DEF TypeOK
  <2>2. Switches' /\ CallsHold'
    BY <1>1, <1>4 DEF Switches, CallsHold
  <2>3. Alone' /\ DeletedStays' /\ Undoable'
    BY <1>4 DEF Alone, DeletedStays, Undoable
  <2>4. Follows' /\ FutureIsArmed'
    BY <1>6 DEF Follows, Orderly, FutureIsArmed
  <2>5. Unvisited' /\ TodoIsFile'
    BY <1>1, <1>6 DEF Filing, Unvisited, TodoIsFile
  <2> QED
    BY <1>3, <2>1, <2>2, <2>3, <2>4, <2>5 DEF Arming, Filing
<1> QED
  BY <1>5, <1>6 DEF FireSave

\* The file is only touched by a save that fails when nothing unknown is in it.
LEMMA SaveFailKeeps ==
    ASSUME Inv, NEW c \in Caller, SaveFail(c)
    PROVE  Inv'
<1> USE DEF Inv, Typed
<1>1. /\ call[c].pc = "save" /\ session # None /\ call' = [call EXCEPT ![c].pc = "rollback"]
      /\ UNCHANGED <<calls, jobs, job, timers, recent, fires, enqueued, switch, patrolling, session, known, visited>>
  BY DEF SaveFail, timeVars
<1>2. call[c] \in Call /\ call[c] # NoCall
  BY <1>1, CallIs
<1>3. CallsStay /\ \A d \in Caller \ {c} : call'[d] = call[d]
  <2>1. PICK new : new = [call[c] EXCEPT !.pc = "rollback"]
    OBVIOUS
  <2>2. /\ new \in Call /\ new.op = call[c].op /\ new.id = call[c].id /\ new.spec = call[c].spec
        /\ new.timer = call[c].timer /\ new.alone = call[c].alone
    BY <1>2, <2>1 DEF Call
  <2>3. call' = [call EXCEPT ![c] = new]
    BY <1>1, <2>1
  <2>4. call' \in [Caller -> Call \cup {NoCall}] /\ call'[c] = new /\ \A d \in Caller \ {c} : call'[d] = call[d]
    BY <2>2, <2>3 DEF TypeOK
  <2>5. new # NoCall
    BY <2>2 DEF Call, NoCall
  <2> QED
    BY <1>2, <2>2, <2>4, <2>5 DEF CallsStay
<1>4. Goes
  BY <1>1, NothingCalms, CalmGoes DEF Arming
<1>5. Reminds
  BY <1>1, <1>3 DEF Reminds, Waits
<1>6. CASE store' = store /\ muddled' = muddled
  BY <1>1, <1>3, <1>4, <1>5, <1>6, StillTicks, TicksKeep DEF fileVars, TypeOK
<1>7. CASE /\ DOMAIN Merged(store[session]) = {}
           /\ store' = [store EXCEPT ![session] = <<>>]
           /\ muddled' = TRUE
  <2>1. session \in Session /\ session \in visited /\ store[session] \in Files /\ store \in [Session -> Files]
    BY <1>1 DEF TypeOK, Filing, Unvisited
  <2>2. DOMAIN store[session] \subseteq known
    BY <1>7, <2>1, MergedIs
  <2>3. /\ store' \in [Session -> Files] /\ DOMAIN store'[session] = {}
        /\ \A s \in Session \ {session} : store'[s] = store[s]
    BY <1>7, <2>1, EmptyFile
  <2>4. TypeOK'
    BY <1>1, <1>3, <1>7, <2>3 DEF TypeOK, CallsStay
  <2>5. Switches' /\ CallsHold'
    BY <1>1, <1>3 DEF Switches, CallsHold, CallsStay
  <2>6. Alone'
    BY <1>1, <1>3 DEF Arming, Alone, CallsStay
  <2>7. DeletedStays'
    BY <1>1, <1>3, <1>7 DEF Arming, DeletedStays, CallsStay
  <2>8. Follows' /\ FutureIsArmed' /\ Undoable'
    BY <1>7 DEF Follows, Orderly, FutureIsArmed, Undoable
  <2>9. Unvisited'
    <3> SUFFICES ASSUME NEW s \in Session \ visited
                 PROVE  /\ DOMAIN store'[s] \subseteq Id \ known
                        /\ DOMAIN store'[s] \cap DOMAIN switch.todo = {}
                        /\ \A t \in Session \ {s} : DOMAIN store'[s] \cap DOMAIN store'[t] = {}
      BY <1>1, <2>1 DEF Unvisited
    <3>1. s # session /\ store'[s] = store[s]
      BY <2>1, <2>3
    <3> QED
      BY <2>3, <3>1 DEF Filing, Unvisited
  <2>10. TodoIsFile'
    BY <1>1, <2>2 DEF Filing, TodoIsFile
  <2> QED
    BY <1>4, <2>4, <2>5, <2>6, <2>7, <2>8, <2>9, <2>10 DEF Arming, Filing, Goes
<1> QED
  BY <1>6, <1>7 DEF SaveFail

-----------------------------------------------------------------------------
(* A call is undone *)

\* The job of the call changes, and is in order again if the call was alone.
Undoes(id) ==
    /\ \A x \in Id \ {id} : job'[x] = job[x] /\ timers'[x] = timers[x] /\ (x \in jobs' <=> x \in jobs)
    /\ jobs' \subseteq Id
    /\ job' \in [Id -> Job \cup {None}] /\ job'[id] \in Job
    /\ Orderly' => Synced(id)' \/ Saving(id)'
    /\ patrolling /\ ~muddled' /\ id \in jobs' =>
        job'[id].paused \/ job'[id].next # "future" \/ timers'[id] = "armed"

LEMMA UndoKeeps ==
    ASSUME Inv, NEW c \in Caller, NEW id \in Id, call[c].id = id, call[c].pc = "rollback",
           Undoes(id), Goes, muddled' = (muddled \/ ~call[c].alone),
           call' = [call EXCEPT ![c] = NoCall],
           UNCHANGED <<calls, recent, enqueued, switch, patrolling, session, known, store, visited>>
    PROVE  Inv'
<1> USE DEF Inv, Typed
<1>1. call[c] # NoCall /\ id \in known /\ NoCall.id = None /\ id # None
  BY CallIs, CronAssumption DEF CallsHold, NoCall
<1>2. /\ call' \in [Caller -> Call \cup {NoCall}] /\ call'[c] = NoCall
      /\ \A d \in Caller \ {c} : call'[d] = call[d]
  BY DEF TypeOK
<1>3. \A d \in Caller : ~call'[d].alone
  BY <1>1, <1>2 DEF Arming, Alone, NoCall
<1>4. \A x \in Id \ {id} : job'[x] = job[x] /\ timers'[x] = timers[x] /\ (x \in jobs' <=> x \in jobs)
  BY DEF Undoes
<1>5. TypeOK'
  <2>1. \A x \in jobs' : x \in known' /\ job'[x] \in Job
    BY <1>1, <1>4, JobInMap DEF Undoes
  <2>2. muddled' \in BOOLEAN
    OBVIOUS
  <2> QED
    BY <1>2, <2>1, <2>2 DEF TypeOK, Undoes, Goes
<1>6. CallsHold'
  <2>1. ASSUME NEW d \in Caller, call'[d] # NoCall
        PROVE  /\ call'[d].id \in known' /\ job'[call'[d].id] \in Job
               /\ call'[d].op = "update" => call'[d].spec \in Setting
    <3>1. d # c /\ call'[d] = call[d] /\ call[d] # NoCall
      BY <1>2, <2>1
    <3>2. /\ call[d].id \in known /\ call[d].id \in Id /\ job[call[d].id] \in Job
          /\ call[d].op = "update" => call[d].spec \in Setting
      BY <3>1, CallIdIs DEF CallsHold
    <3>3. job'[id] \in Job
      BY DEF Undoes
    <3> QED
      BY <1>4, <3>1, <3>2, <3>3
  <2> QED
    BY <2>1 DEF CallsHold
<1>7. Alone' /\ DeletedStays' /\ Undoable'
  BY <1>3 DEF Alone, DeletedStays, Undoable
<1>8. Follows'
  <2> SUFFICES ASSUME Orderly', NEW x \in Id
               PROVE  Synced(x)' \/ Saving(x)' \/ \E d \in Caller : call'[d].id = x
    BY DEF Follows
  <2>1. CASE x = id
    BY <2>1 DEF Undoes
  <2>2. CASE x # id
    <3>1. Orderly
      BY DEF Orderly
    <3>2. Synced(x) \/ Saving(x) \/ \E d \in Caller : call[d].id = x
      BY <3>1 DEF Filing, Follows
    <3>3. Synced(x) => Synced(x)'
      BY <1>4, <2>2 DEF Synced, Mine, EntryOf
    <3> QED
      BY <1>2, <2>2, <3>2, <3>3 DEF Goes
  <2> QED
    BY <2>1, <2>2
<1>9. FutureIsArmed'
  <2>1. CASE ~patrolling \/ muddled'
    BY <2>1 DEF FutureIsArmed
  <2>2. CASE patrolling /\ ~muddled'
    <3>1. ASSUME NEW x \in jobs', x # id
          PROVE  /\ x \in jobs /\ job'[x] = job[x] /\ timers'[x] = timers[x]
                 /\ Waits(x) => Waits(x)'
      <4>1. x \in Id
        BY DEF Undoes
      <4> QED
        BY <1>2, <1>4, <3>1, <4>1 DEF Waits
    <3>2. Reminds
      BY <2>2, <3>1 DEF Reminds, Undoes
    <3> QED
      BY <3>2, RemindsKeeps DEF Arming
  <2> QED
    BY <2>1, <2>2
<1>10. Switches' /\ Unvisited' /\ TodoIsFile'
  BY DEF Filing, Switches, Unvisited, TodoIsFile
<1>11. Chain'
  BY DEF Goes
<1> QED
  BY <1>5, <1>6, <1>7, <1>8, <1>9, <1>10, <1>11 DEF Arming, Filing

\* An update, a pause or a resume is undone: the job is again what the file has.
LEMMA RevertUndoes ==
    ASSUME Inv, NEW c \in Caller, NEW id \in Id, call[c].id = id,
           call[c].op \in {"update", "pause", "resume"},
           NEW new \in Job, job' = [job EXCEPT ![id] = new], jobs' = jobs,
           new.recurring = job[id].recurring,
           [paused |-> new.paused, spec |-> new.spec] = Before(call[c]),
           Arms({id}) \/ (Disarms({id}) /\ (new.paused \/ new.next # "future")),
           muddled' = (muddled \/ ~call[c].alone),
           UNCHANGED <<patrolling, session, known, store>>
    PROVE  Undoes(id) /\ Goes
<1> USE DEF Inv, Typed
<1>1. Calms /\ \A x \in Id \ {id} : timers'[x] = timers[x]
  BY DEF Arms, Disarms
<1>2. Goes
  BY <1>1, CalmGoes DEF Arming
<1>3. job'[id] = new /\ job' \in [Id -> Job \cup {None}] /\ \A x \in Id \ {id} : job'[x] = job[x]
  BY DEF TypeOK
<1>4. ASSUME Orderly' PROVE Synced(id)' \/ Saving(id)'
  <2>1. Orderly /\ call[c].alone
    BY <1>4 DEF Orderly
  <2>2. Undo(call[c])
    BY <2>1 DEF Filing, Undoable
  <2>3. /\ id \in DOMAIN store[session] <=> job[id].recurring
        /\ job[id].recurring => store[session][id] = Before(call[c])
        /\ id \in jobs \/ ~job[id].recurring \/ Saving(id)
    BY <2>2 DEF Undo
  <2>4. id \in Mine' <=> id \in jobs /\ job[id].recurring
    BY <1>3 DEF Mine
  <2>5. EntryOf(id)' = Before(call[c])
    BY <1>3 DEF EntryOf
  <2>6. id \in jobs => id \in known
    BY JobInMap
  <2>7. ASSUME ~Saving(id) PROVE Synced(id)'
    BY <2>3, <2>4, <2>5, <2>6, <2>7 DEF Synced
  <2> QED
    BY <1>2, <2>7 DEF Goes
<1>5. new.paused \/ new.next # "future" \/ timers'[id] = "armed"
  BY DEF Arms
<1>6. jobs' \subseteq Id
  BY DEF TypeOK
<1> QED
  BY <1>1, <1>2, <1>3, <1>4, <1>5, <1>6 DEF Undoes

\* The callbacks after scheduleJobLocked for one job, and after its timer was stopped.
LEMMA ScheduleOne ==
    ASSUME TypeOK, NEW id \in Id, Schedule({id}, fires)
    PROVE  Arms({id})
<1>1. fires \in [Slot -> Fire \cup {NoFire}]
  BY DEF TypeOK
<1> QED
  BY <1>1, ScheduleArms

LEMMA RollbackKeeps ==
    ASSUME Inv, NEW c \in Caller, Rollback(c)
    PROVE  Inv'
<1> USE DEF Inv, Typed
<1>1. PICK id : id = call[c].id
  OBVIOUS
<1>2. PICK k : k = call[c]
  OBVIOUS
<1>3. /\ call[c].pc = "rollback" /\ call' = [call EXCEPT ![c] = NoCall]
      /\ muddled' = (muddled \/ ~call[c].alone)
      /\ UNCHANGED <<calls, recent, enqueued, switch, patrolling, session, known, store, visited>>
  BY DEF Rollback
<1>4. /\ call[c] \in Call /\ id \in Id /\ id \in known /\ job[id] \in Job
      /\ call[c].op = "update" => call[c].spec \in Setting
  BY <1>1, <1>3, CallIs, CallIdIs DEF CallsHold
<1>5. CASE k.op = "create" /\ RollbackCreate(id)
  <2>1. jobs' = jobs \ {id} /\ job' = job /\ Disarms({id})
    BY <1>4, <1>5, StopDisarms DEF RollbackCreate
  <2>2. Goes
    BY <2>1, CalmGoes DEF Disarms, Arming
  <2>3. ASSUME Orderly' PROVE Synced(id)'
    <3>1. Orderly /\ call[c].alone
      BY <1>3, <2>3 DEF Orderly
    <3>2. id \notin DOMAIN store[session]
      BY <1>1, <1>2, <1>5, <3>1 DEF Filing, Undoable, Undo
    <3> QED
      BY <1>3, <2>1, <3>2 DEF Synced, Mine
  <2>4. Undoes(id)
    BY <1>4, <2>1, <2>3 DEF Undoes, Disarms, TypeOK
  <2> QED
    BY <1>1, <1>3, <1>4, <2>2, <2>4, UndoKeeps
<1>6. CASE k.op = "delete" /\ RollbackDelete(id, k.timer)
  <2>1. jobs' = jobs \cup {id} /\ job' = job
    BY <1>6 DEF RollbackDelete
  <2>3. /\ Calms /\ \A x \in Id \ {id} : timers'[x] = timers[x]
        /\ k.timer => timers'[id] = "armed"
    <3>1. CASE k.timer
      <4>1. Arms({id})
        BY <1>4, <1>6, <3>1, ScheduleOne DEF RollbackDelete
      <4> QED
        BY <1>4, <4>1 DEF Arms
    <3>2. CASE ~k.timer
      BY <1>6, <3>2, NothingCalms DEF RollbackDelete
    <3> QED
      BY <3>1, <3>2
  <2>4. Goes
    BY <2>3, CalmGoes DEF Arming
  <2>5. ASSUME Orderly' PROVE Synced(id)'
    <3>1. Orderly /\ call[c].alone
      BY <1>3, <2>5 DEF Orderly
    <3>2. /\ id \in DOMAIN store[session] <=> job[id].recurring
          /\ job[id].recurring => store[session][id] = Before(call[c])
      BY <1>1, <1>2, <1>6, <3>1 DEF Filing, Undoable, Undo
    <3>3. Before(call[c]) = EntryOf(id)
      BY <1>1, <1>2, <1>4, <1>6 DEF Before, EntryOf, Job
    <3>4. EntryOf(id)' = EntryOf(id)
      BY <2>1 DEF EntryOf
    <3> QED
      BY <1>3, <1>4, <2>1, <3>2, <3>3, <3>4 DEF Synced, Mine
  <2>6. ASSUME patrolling, ~muddled' PROVE job'[id].paused \/ job'[id].next # "future" \/ timers'[id] = "armed"
    <3>1. call[c].alone /\ ~muddled
      BY <1>3, <2>6
    <3>2. ~k.timer => job[id].paused \/ job[id].next # "future"
      BY <1>1, <1>2, <1>6, <2>6, <3>1 DEF Arming, DeletedStays
    <3> QED
      BY <2>1, <2>3, <3>2
  <2>7. Undoes(id)
    BY <1>4, <2>1, <2>3, <2>5, <2>6 DEF Undoes, TypeOK
  <2> QED
    BY <1>1, <1>3, <1>4, <2>4, <2>7, UndoKeeps
<1>7. CASE k.op = "update" /\ RollbackUpdate(id, k.expr, k.spec)
  <2>1. PICK next : next = (CASE ~k.expr         -> job[id].next
                              [] job[id].paused  -> "zero"
                              [] OTHER           -> "future")
    OBVIOUS
  <2>2. /\ job' = [job EXCEPT ![id].spec = k.spec, ![id].next = next] /\ jobs' = jobs
        /\ IF ~job[id].paused /\ next = "future" THEN Schedule({id}, fires) ELSE Stop({id})
    BY <1>7, <2>1 DEF RollbackUpdate
  <2>3. next \in NextFire
    <3>1. job[id].next \in NextFire /\ k.expr \in BOOLEAN
      BY <1>2, <1>4 DEF Job, Call
    <3> QED
      BY <2>1, <3>1 DEF NextFire
  <2>4. PICK new : new = [job[id] EXCEPT !.spec = k.spec, !.next = next]
    OBVIOUS
  <2>5. /\ new \in Job /\ new.recurring = job[id].recurring /\ new.paused = job[id].paused
        /\ new.spec = k.spec /\ new.next = next
    BY <1>2, <1>4, <1>7, <2>3, <2>4 DEF Job
  <2>6. job' = [job EXCEPT ![id] = new]
    BY <1>4, <2>2, <2>4 DEF TypeOK
  <2>7. [paused |-> new.paused, spec |-> new.spec] = Before(call[c])
    BY <1>1, <1>2, <1>4, <1>7, <2>5 DEF Before, Job
  <2>8. Arms({id}) \/ (Disarms({id}) /\ (new.paused \/ new.next # "future"))
    BY <1>4, <2>2, <2>5, ScheduleOne, StopDisarms
  <2>9. Undoes(id) /\ Goes
    BY <1>1, <1>2, <1>3, <1>4, <1>7, <2>2, <2>5, <2>6, <2>7, <2>8, RevertUndoes
  <2> QED
    BY <1>1, <1>3, <1>4, <2>9, UndoKeeps
<1>8. CASE k.op = "pause" /\ RollbackPause(id, k.next)
  <2>1. PICK n \in Later(k.next) : job' = [job EXCEPT ![id].paused = FALSE, ![id].next = n]
    BY <1>8 DEF RollbackPause
  <2>2. n \in NextFire
    <3>1. k.next \in NextFire
      BY <1>2, <1>4 DEF Call
    <3> QED
      BY <3>1 DEF Later, NextFire
  <2>3. PICK new : new = [job[id] EXCEPT !.paused = FALSE, !.next = n]
    OBVIOUS
  <2>4. /\ new \in Job /\ new.recurring = job[id].recurring /\ new.paused = FALSE
        /\ new.spec = job[id].spec
    BY <1>4, <2>2, <2>3 DEF Job
  <2>5. job' = [job EXCEPT ![id] = new] /\ jobs' = jobs
    BY <1>4, <1>8, <2>1, <2>3 DEF TypeOK, RollbackPause
  <2>6. [paused |-> new.paused, spec |-> new.spec] = Before(call[c])
    BY <1>1, <1>2, <1>4, <1>8, <2>4 DEF Before, Job
  <2>7. Arms({id})
    BY <1>4, <1>8, ScheduleOne DEF RollbackPause
  <2>8. Undoes(id) /\ Goes
    BY <1>1, <1>2, <1>3, <1>4, <1>8, <2>4, <2>5, <2>6, <2>7, RevertUndoes
  <2> QED
    BY <1>1, <1>3, <1>4, <2>8, UndoKeeps
<1>9. CASE k.op = "resume" /\ RollbackResume(id)
  <2>1. PICK new : new = [job[id] EXCEPT !.paused = TRUE, !.next = "zero"]
    OBVIOUS
  <2>2. /\ new \in Job /\ new.recurring = job[id].recurring /\ new.paused = TRUE
        /\ new.spec = job[id].spec
    BY <1>4, <2>1 DEF Job, NextFire
  <2>3. job' = [job EXCEPT ![id] = new] /\ jobs' = jobs
    BY <1>4, <1>9, <2>1 DEF TypeOK, RollbackResume
  <2>4. [paused |-> new.paused, spec |-> new.spec] = Before(call[c])
    BY <1>1, <1>2, <1>4, <1>9, <2>2 DEF Before, Job
  <2>5. Disarms({id})
    BY <1>4, <1>9, StopDisarms DEF RollbackResume
  <2>6. Undoes(id) /\ Goes
    BY <1>1, <1>2, <1>3, <1>4, <1>9, <2>2, <2>3, <2>4, <2>5, RevertUndoes
  <2> QED
    BY <1>1, <1>3, <1>4, <2>6, UndoKeeps
<1> QED
  BY <1>1, <1>2, <1>5, <1>6, <1>7, <1>8, <1>9 DEF Rollback

-----------------------------------------------------------------------------
(* Other processes and sessions *)

LEMMA OtherProcessKeeps ==
    ASSUME Inv, NEW f \in Foreign, OtherProcess(f)
    PROVE  Inv'
<1> USE DEF Inv, Typed
<1>1. PICK e : e = CHOOSE x \in Entry : TRUE
  OBVIOUS
<1>2. PICK file : file = [k \in DOMAIN store[session] \cup {f} |-> IF k = f THEN e ELSE store[session][k]]
  OBVIOUS
<1>3. /\ session # None /\ switch = NoSwitch /\ f \notin DOMAIN store[session]
      /\ store' = [store EXCEPT ![session] = file]
      /\ UNCHANGED <<session, known, visited, muddled, jobs, job, timers, recent, fires, enqueued,
                     call, calls, switch, patrolling>>
  BY <1>1, <1>2 DEF OtherProcess, timeVars, callVars
<1>4. session \in Session /\ session \in visited /\ store[session] \in Files /\ store \in [Session -> Files]
  BY <1>3 DEF TypeOK, Filing, Unvisited
<1>5. e \in Entry
  <2>1. PICK s \in Setting : TRUE
    BY CronAssumption
  <2>2. [paused |-> TRUE, spec |-> s] \in Entry
    BY DEF Entry
  <2> QED
    BY <1>1, <2>2
<1>6. file \in Files
  <2>1. DOMAIN store[session] \subseteq Id \cup Foreign /\ \A k \in DOMAIN store[session] : store[session][k] \in Entry
    BY <1>4, FilesAre
  <2>2. DOMAIN file = DOMAIN store[session] \cup {f} /\ file \in [DOMAIN file -> Entry]
    BY <1>2, <1>5, <2>1
  <2> QED
    BY <2>1, <2>2, FilesAre
<1>7. /\ store' \in [Session -> Files] /\ store'[session] = file
      /\ \A s \in Session \ {session} : store'[s] = store[s]
  BY <1>3, <1>4, <1>6
<1>8. \A id \in Id : /\ id \in DOMAIN store'[session] <=> id \in DOMAIN store[session]
                     /\ id \in DOMAIN store[session] => store'[session][id] = store[session][id]
  BY <1>2, <1>7, CronAssumption
<1>9. TypeOK'
  BY <1>3, <1>7 DEF TypeOK
<1>10. Switches' /\ CallsHold' /\ Chain' /\ Alone' /\ DeletedStays'
  BY <1>3 DEF Switches, CallsHold, Chain, Alone, DeletedStays, Arming
<1>11. FutureIsArmed'
  BY <1>3 DEF FutureIsArmed, Arming
<1>12. Orderly' = Orderly /\ \A id \in Id : Saving(id)' = Saving(id) /\ EntryOf(id)' = EntryOf(id)
  BY <1>3 DEF Orderly, Saving, EntryOf
<1>13. Mine' = Mine /\ Mine \subseteq Id
  BY <1>3, JobInMap DEF Mine
<1>14. \A id \in Id : Synced(id) => Synced(id)'
  BY <1>3, <1>8, <1>12, <1>13 DEF Synced
<1>15. Follows'
  BY <1>3, <1>12, <1>14 DEF Filing, Follows
<1>16. Undoable'
  <2> SUFFICES ASSUME Orderly', NEW c \in Caller, call'[c].alone
               PROVE  Undo(call[c])'
    BY DEF Undoable
  <2>1. Undo(call[c]) /\ call'[c] = call[c] /\ call[c].id \in Id
    BY <1>3, <1>12, CallIs, CallIdIs DEF Filing, Undoable
  <2>2. Before(call[c])' = Before(call[c])
    BY <1>3 DEF Before
  <2>3. Saving(call[c].id)' = Saving(call[c].id)
    BY <1>3 DEF Saving
  <2> QED
    BY <1>3, <1>8, <2>1, <2>2, <2>3 DEF Undo
<1>17. Unvisited'
  <2> SUFFICES ASSUME NEW s \in Session \ visited
               PROVE  /\ DOMAIN store'[s] \subseteq Id \ known
                      /\ DOMAIN store'[s] \cap DOMAIN switch.todo = {}
                      /\ \A t \in Session \ {s} : DOMAIN store'[s] \cap DOMAIN store'[t] = {}
    BY <1>3, <1>4 DEF Unvisited
  <2>1. /\ DOMAIN store[s] \subseteq Id \ known
        /\ DOMAIN store[s] \cap DOMAIN switch.todo = {}
        /\ \A t \in Session \ {s} : DOMAIN store[s] \cap DOMAIN store[t] = {}
    BY DEF Filing, Unvisited
  <2>2. s # session /\ store'[s] = store[s]
    BY <1>4, <1>7
  <2>3. DOMAIN store[s] \cap DOMAIN file = {}
    BY <1>2, <1>4, <2>1, <2>2, CronAssumption
  <2> QED
    BY <1>7, <2>1, <2>2, <2>3
<1>18. TodoIsFile'
  <2>1. DOMAIN switch.todo = {}
    BY <1>3, EmptyFile DEF NoSwitch
  <2> QED
    BY <1>3, <2>1 DEF TodoIsFile
<1> QED
  BY <1>9, <1>10, <1>11, <1>15, <1>16, <1>17, <1>18 DEF Arming, Filing

LEMMA SwitchSessionKeeps ==
    ASSUME Inv, NEW s \in Session, SwitchSession(s)
    PROVE  Inv'
<1> USE DEF Inv, Typed
<1>1. /\ patrolling /\ switch = NoSwitch /\ s \notin visited
      /\ visited' = visited \cup {s} /\ session' = s /\ jobs' = {}
      /\ timers' = [id \in Id |-> "none"]
      /\ fires' = Bumped(fires, Id)
      /\ switch' = [NoSwitch EXCEPT !.pc = "read"]
      /\ call' = Disturbed
      /\ UNCHANGED <<calls, job, recent, enqueued, patrolling, known, store, muddled>>
  BY DEF SwitchSession
<1>2. switch'.pc = "read" /\ switch'.id = None /\ switch'.todo = << >> /\ DOMAIN switch'.todo = {}
  BY <1>1, EmptyFile DEF NoSwitch
<1>3. Switches'
  <2>1. switch' = [pc |-> "read", id |-> None, todo |-> << >>]
    BY <1>1 DEF NoSwitch
  <2> QED
    BY <1>2, <2>1, EmptyFile, CronAssumption DEF Switches
<1>4. /\ call' \in [Caller -> Call \cup {NoCall}]
      /\ \A d \in Caller :
              /\ ~call'[d].alone
              /\ call'[d] = NoCall <=> call[d] = NoCall
              /\ call'[d].op = call[d].op
              /\ call'[d].id = call[d].id /\ call'[d].spec = call[d].spec
  <2>1. CASE Caller = {}
    BY <1>1, <2>1 DEF Disturbed
  <2>2. CASE Caller # {}
    BY <1>1, <2>2, DisturbedIs
  <2> QED
    BY <2>1, <2>2
<1>5. /\ fires' \in [Slot -> Fire \cup {NoFire}]
      /\ \A k \in Slot : fires'[k].live => fires'[k].id \notin Id
  <2>1. CASE Slot = {}
    BY <1>1, <2>1 DEF Bumped
  <2>2. CASE Slot # {}
    <3>1. fires \in [Slot -> Fire \cup {NoFire}]
      BY DEF TypeOK
    <3> QED
      BY <1>1, <2>2, <3>1, BumpedIs
  <2> QED
    BY <2>1, <2>2
<1>6. TypeOK'
  <2>1. timers' \in [Id -> Timer]
    BY <1>1 DEF Timer
  <2>2. switch'.pc \in {"none", "read", "load", "schedule"} /\ switch'.todo \in Files
    BY <1>2, EmptyFile
  <2> QED
    BY <1>1, <1>4, <1>5, <2>1, <2>2 DEF TypeOK
<1>7. CallsHold'
  BY <1>1, <1>4 DEF CallsHold
<1>8. Chain'
  BY <1>5 DEF Chain
<1>9. Alone' /\ DeletedStays' /\ Undoable'
  BY <1>4 DEF Alone, DeletedStays, Undoable
<1>10. FutureIsArmed'
  BY <1>1 DEF FutureIsArmed
<1>11. Follows'
  <2>1. DOMAIN store[s] \subseteq Id \ known
    BY <1>1 DEF Filing, Unvisited
  <2>2. ASSUME NEW id \in Id PROVE Synced(id)'
    BY <1>1, <2>1 DEF Synced, Mine
  <2> QED
    BY <2>2 DEF Follows
<1>12. Unvisited'
  BY <1>1, <1>2 DEF Filing, Unvisited
<1>13. TodoIsFile'
  BY <1>1, <1>2, CronAssumption DEF TodoIsFile
<1> QED
  BY <1>3, <1>6, <1>7, <1>8, <1>9, <1>10, <1>11, <1>12, <1>13 DEF Arming, Filing

\* Load goes on and leaves jobs and files alone; no call is alone meanwhile.
LEMMA LoadKeeps ==
    ASSUME Inv, Ticks, UNCHANGED <<call, calls>>, Goes, Reminds, switch # NoSwitch,
           Switches', Unvisited', TodoIsFile', recent' \subseteq Id, enqueued' \in [Id -> 0 .. 2]
    PROVE  Inv'
<1> USE DEF Inv, Typed
<1>1. CallsStay
  BY NothingStays
<1>2. CallsHold' /\ DeletedStays' /\ Follows' /\ Undoable'
  BY <1>1, TicksKeepFiles
<1>3. TypeOK'
  <2>1. \A id \in jobs' : id \in known' /\ job'[id] \in Job
    BY JobInMap DEF Ticks
  <2>2. /\ session' \in {None} \cup Session /\ jobs' \subseteq Id /\ known' \subseteq Id
        /\ visited' \subseteq Session /\ muddled' \in BOOLEAN /\ patrolling' \in BOOLEAN
        /\ store' \in [Session -> Files] /\ calls' \in 0 .. MaxCalls
    BY DEF Ticks, TypeOK
  <2>3. switch'.pc \in {"none", "read", "load", "schedule"} /\ switch'.todo \in Files
    BY DEF Switches
  <2> QED
    BY <1>1, <2>1, <2>2, <2>3 DEF TypeOK, Ticks, CallsStay, Goes
<1>4. Alone'
  BY DEF Arming, Alone
<1>5. FutureIsArmed'
  BY RemindsKeeps DEF Arming, Ticks
<1>6. Chain'
  BY DEF Goes
<1> QED
  BY <1>2, <1>3, <1>4, <1>5, <1>6 DEF Arming, Filing

\* While Load is under way the session is one that was switched to.
LEMMA LoadingIs ==
    ASSUME Inv, switch.pc # "none"
    PROVE  /\ switch # NoSwitch /\ session \in Session /\ session \in visited
           /\ store[session] \in Files /\ switch.todo \in Files
           /\ switch.pc # "schedule" => switch.id = None
<1> USE DEF Inv, Typed
<1>1. switch # NoSwitch
  BY DEF NoSwitch
<1>2. session # None
  BY <1>1 DEF Filing, TodoIsFile
<1> QED
  BY <1>1, <1>2 DEF TypeOK, Filing, Unvisited, Switches

LEMMA LoadReadKeeps ==
    ASSUME Inv, LoadRead
    PROVE  Inv'
<1> USE DEF Inv, Typed
<1>1. PICK file \in {store[session], <<>>} : switch' = [NoSwitch EXCEPT !.pc = "load", !.todo = file]
  BY DEF LoadRead
<1>2. /\ switch.pc = "read"
      /\ UNCHANGED <<jobs, job, timeVars, callVars, patrolling, fileVars>>
  BY DEF LoadRead
<1>3. /\ switch # NoSwitch /\ session \in Session /\ session \in visited
      /\ store[session] \in Files /\ switch.id = None
  BY <1>2, LoadingIs
<1>4. switch' = [pc |-> "load", id |-> None, todo |-> file] /\ file \in Files
  BY <1>1, <1>3, EmptyFile DEF NoSwitch
<1>5. Switches'
  BY <1>4, CronAssumption DEF Switches
<1>6. Unvisited'
  <2> SUFFICES ASSUME NEW s \in Session \ visited PROVE DOMAIN store[s] \cap DOMAIN file = {}
    BY <1>2, <1>4 DEF Filing, Unvisited, fileVars
  <2>1. DOMAIN store[s] \cap DOMAIN store[session] = {}
    BY <1>3 DEF Filing, Unvisited
  <2> QED
    BY <1>1, <2>1, EmptyFile
<1>7. TodoIsFile'
  <2>1. \A id \in DOMAIN file : id \in DOMAIN store[session] /\ store[session][id] = file[id]
    BY <1>1, EmptyFile
  <2>2. session # None
    BY <1>3, CronAssumption
  <2> QED
    BY <1>2, <1>4, <2>1, <2>2 DEF TodoIsFile, fileVars
<1>8. Ticks /\ Goes
  BY <1>2, StillTicks, NothingCalms, CalmGoes DEF timeVars, Arming
<1>9. Reminds
  <2>1. ASSUME NEW x \in jobs' PROVE x \in jobs /\ x # None
    BY <1>2, <2>1, CronAssumption DEF TypeOK
  <2>2. ASSUME NEW x \in jobs' PROVE Waits(x) => Waits(x)'
    BY <1>2, <1>3, <2>1 DEF Waits, callVars
  <2> QED
    BY <1>2, <2>1, <2>2 DEF Reminds, timeVars
<1> QED
  BY <1>2, <1>3, <1>5, <1>6, <1>7, <1>8, <1>9, LoadKeeps DEF callVars, timeVars, TypeOK

LEMMA LoadScheduleKeeps ==
    ASSUME Inv, LoadSchedule
    PROVE  Inv'
<1> USE DEF Inv, Typed
<1>1. PICK id : id = switch.id
  OBVIOUS
<1>2. /\ switch.pc = "schedule" /\ Schedule({id}, fires)
      /\ switch' = [switch EXCEPT !.pc = "load", !.id = None]
      /\ UNCHANGED <<jobs, job, recent, enqueued, callVars, patrolling, fileVars>>
  BY <1>1 DEF LoadSchedule
<1>3. /\ switch # NoSwitch /\ id \in Id
      /\ switch' = [pc |-> "load", id |-> None, todo |-> switch.todo] /\ switch.todo \in Files
  BY <1>1, <1>2, LoadingIs DEF Switches
<1>4. Switches'
  BY <1>3, CronAssumption DEF Switches
<1>5. Unvisited' /\ TodoIsFile'
  BY <1>2, <1>3 DEF Filing, Unvisited, TodoIsFile, fileVars
<1>6. Arms({id})
  BY <1>2, <1>3, ScheduleOne
<1>7. Ticks /\ Goes
  BY <1>2, <1>6, StillTicks, CalmGoes DEF Arms, Arming
<1>8. Reminds
  <2>1. ASSUME NEW x \in jobs', x # id
        PROVE  /\ x \in jobs /\ job'[x] = job[x] /\ timers'[x] = timers[x]
               /\ Waits(x) => Waits(x)'
    BY <1>1, <1>2, <1>6, <2>1 DEF Waits, callVars, Arms, TypeOK
  <2> QED
    BY <1>3, <1>6, <2>1 DEF Reminds, Arms
<1> QED
  BY <1>2, <1>3, <1>4, <1>5, <1>7, <1>8, LoadKeeps DEF callVars, TypeOK

LEMMA SwitchEndKeeps ==
    ASSUME Inv, SwitchEnd
    PROVE  Inv'
<1> USE DEF Inv, Typed
<1>1. /\ switch.pc = "load" /\ recent' = {} /\ switch' = NoSwitch
      /\ UNCHANGED <<jobs, job, timers, fires, enqueued, callVars, patrolling, fileVars>>
  BY DEF SwitchEnd
<1>2. switch # NoSwitch /\ switch.id = None
  BY <1>1, LoadingIs
<1>3. switch'.todo = << >> /\ DOMAIN switch'.todo = {}
  BY <1>1, EmptyFile DEF NoSwitch
<1>4. Switches'
  BY <1>1, EmptyFile, CronAssumption DEF Switches, NoSwitch
<1>5. Unvisited' /\ TodoIsFile'
  BY <1>1, <1>3 DEF Filing, Unvisited, TodoIsFile, fileVars
<1>6. Ticks /\ Goes
  BY <1>1, StillTicks, NothingCalms, CalmGoes DEF Arming
<1>7. Reminds
  <2>1. ASSUME NEW x \in jobs' PROVE x \in jobs /\ x # None
    BY <1>1, <2>1, CronAssumption DEF TypeOK
  <2>2. ASSUME NEW x \in jobs' PROVE Waits(x) => Waits(x)'
    BY <1>1, <1>2, <2>1 DEF Waits, callVars
  <2> QED
    BY <1>1, <2>1, <2>2 DEF Reminds
<1> QED
  BY <1>1, <1>2, <1>4, <1>5, <1>6, <1>7, LoadKeeps DEF callVars, TypeOK

\* A job is taken over from the file: what is then in memory is what the file has.
LEMMA LoadJobKeeps ==
    ASSUME Inv, NEW id \in Id, LoadJob(id)
    PROVE  Inv'
<1> USE DEF Inv, Typed
<1>1. PICK rest : rest = [k \in DOMAIN switch.todo \ {id} |-> switch.todo[k]]
  OBVIOUS
<1>2. PICK e : e = switch.todo[id]
  OBVIOUS
<1>3. /\ switch.pc = "load" /\ id \in DOMAIN switch.todo
      /\ UNCHANGED <<timeVars, callVars, patrolling, session, store, visited>>
  BY DEF LoadJob
<1>4. /\ switch # NoSwitch /\ session \in Session /\ session \in visited
      /\ switch.todo \in Files /\ switch.id = None
  BY <1>3, LoadingIs
<1>5. /\ rest \in Files /\ DOMAIN rest = DOMAIN switch.todo \ {id}
      /\ \A k \in DOMAIN rest : rest[k] = switch.todo[k]
      /\ e \in Entry
  <2>1. DOMAIN switch.todo \subseteq Id \cup Foreign /\ \A k \in DOMAIN switch.todo : switch.todo[k] \in Entry
    BY <1>4, FilesAre
  <2>2. DOMAIN rest = DOMAIN switch.todo \ {id} /\ rest \in [DOMAIN rest -> Entry]
    BY <1>1, <2>1
  <2> QED
    BY <1>1, <1>2, <1>3, <2>1, <2>2, FilesAre
<1>6. \/ switch' = [pc |-> "load", id |-> None, todo |-> rest]
      \/ id \notin jobs /\ ~e.paused /\ switch' = [pc |-> "schedule", id |-> id, todo |-> rest]
  <2>1. switch = [pc |-> "load", id |-> None, todo |-> switch.todo]
    BY <1>3, <1>4 DEF Switches
  <2>2. [switch EXCEPT !.todo = rest] = [pc |-> "load", id |-> None, todo |-> rest]
    BY <2>1
  <2> QED
    BY <1>1, <1>2, <2>2 DEF LoadJob
<1>7. Switches' /\ switch'.todo = rest
  BY <1>5, <1>6, CronAssumption DEF Switches
<1>8. ASSUME NEW x \in Id, Waits(x) PROVE Waits(x)'
  <2>1. x # None
    BY CronAssumption
  <2> QED
    BY <1>3, <1>4, <1>8, <2>1 DEF Waits, callVars
<1>9. \A d \in Caller : ~call[d].alone
  BY <1>4 DEF Arming, Alone
<1>10. TodoIsFile'
  <2>1. session # None /\ known \subseteq known'
    BY <1>4, CronAssumption DEF LoadJob, Know
  <2> QED
    BY <1>3, <1>5, <1>7, <2>1 DEF Filing, TodoIsFile
<1>11. CASE id \in jobs
  <2>1. UNCHANGED <<jobs, job, known, muddled>>
    BY <1>11 DEF LoadJob
  <2>2. Unvisited'
    BY <1>3, <1>5, <1>7, <2>1 DEF Filing, Unvisited
  <2>3. Ticks /\ Goes
    BY <1>3, <2>1, StillTicks, NothingCalms, CalmGoes DEF timeVars, fileVars, Arming
  <2>4. Reminds
    <3>1. \A x \in jobs' : x \in Id /\ x \in jobs
      BY <2>1 DEF TypeOK
    <3> QED
      BY <1>3, <1>8, <2>1, <3>1 DEF Reminds, timeVars
  <2> QED
    BY <1>3, <1>4, <1>7, <1>10, <2>2, <2>3, <2>4, LoadKeeps DEF callVars, timeVars, TypeOK
<1>12. CASE id \notin jobs
  <2>1. PICK new : new = [recurring |-> TRUE, paused |-> e.paused, spec |-> e.spec,
                          next |-> IF e.paused THEN "zero" ELSE "future"]
    OBVIOUS
  <2>2. /\ jobs' = jobs \cup {id} /\ known' = known \cup {id}
        /\ muddled' = (muddled \/ id \in known)
        /\ job' = [job EXCEPT ![id] = new]
    BY <1>2, <1>12, <2>1 DEF LoadJob, Know
  <2>3. /\ new \in Job /\ new.recurring = TRUE /\ new.paused = e.paused /\ new.spec = e.spec
        /\ e = [paused |-> e.paused, spec |-> e.spec]
    BY <1>5, <2>1 DEF Job, Entry, NextFire
  <2>4. /\ job' \in [Id -> Job \cup {None}] /\ job'[id] = new
        /\ \A x \in Id \ {id} : job'[x] = job[x]
    BY <2>2, <2>3 DEF TypeOK
  <2>5. TypeOK'
    <3>1. \A x \in jobs' : x \in known' /\ job'[x] \in Job
      BY <2>2, <2>3, <2>4, JobInMap
    <3>2. jobs' \subseteq Id /\ known' \subseteq Id /\ muddled' \in BOOLEAN
      BY <2>2 DEF TypeOK
    <3>3. switch'.pc \in {"none", "read", "load", "schedule"} /\ switch'.todo \in Files
      BY <1>7 DEF Switches
    <3> QED
      BY <1>3, <2>4, <3>1, <3>2, <3>3 DEF TypeOK, timeVars, callVars
  <2>6. CallsHold'
    <3>1. ASSUME NEW d \in Caller, call[d] # NoCall
          PROVE  call[d].id \in known' /\ job'[call[d].id] \in Job
      BY <2>2, <2>3, <2>4, <3>1, CallIdIs DEF CallsHold
    <3> QED
      BY <1>3, <3>1 DEF CallsHold, callVars
  <2>7. Chain' /\ Alone' /\ DeletedStays' /\ Undoable'
    BY <1>3, <1>9 DEF Chain, Alone, DeletedStays, Undoable, Arming, timeVars, callVars
  <2>8. FutureIsArmed'
    <3>1. new.paused \/ Waits(id)'
      <4>1. ~e.paused => switch' = [pc |-> "schedule", id |-> id, todo |-> rest]
        BY <1>1, <1>2, <1>12 DEF LoadJob
      <4> QED
        BY <2>3, <4>1 DEF Waits
    <3>2. ASSUME NEW x \in jobs', x # id PROVE x \in jobs /\ x \in Id /\ job'[x] = job[x]
      BY <2>2, <2>4, <3>2 DEF TypeOK
    <3>3. Reminds
      BY <1>3, <1>8, <2>4, <3>1, <3>2 DEF Reminds, timeVars
    <3> QED
      BY <1>3, <2>2, <3>3, RemindsKeeps DEF Arming
  <2>9. Follows'
    <3> SUFFICES ASSUME Orderly', NEW x \in Id
                 PROVE  Synced(x)' \/ Saving(x)' \/ \E d \in Caller : call'[d].id = x
      BY DEF Follows
    <3>1. Orderly /\ id \notin known
      BY <1>3, <2>2 DEF Orderly
    <3>2. CASE x = id
      <4>1. id \in DOMAIN store[session] /\ store[session][id] = e
        BY <1>2, <1>3, <3>1 DEF Filing, TodoIsFile
      <4>2. EntryOf(id)' = e /\ id \in Mine' /\ id \in known'
        BY <2>2, <2>3, <2>4 DEF EntryOf, Mine
      <4> QED
        BY <1>3, <3>2, <4>1, <4>2 DEF Synced
    <3>3. CASE x # id
      <4>1. Synced(x) \/ Saving(x) \/ \E d \in Caller : call[d].id = x
        BY <3>1 DEF Filing, Follows
      <4>2. Synced(x) => Synced(x)'
        BY <1>3, <2>2, <2>4, <3>3 DEF Synced, Mine, EntryOf
      <4> QED
        BY <1>3, <4>1, <4>2 DEF Saving, timeVars, callVars
    <3> QED
      BY <3>2, <3>3
  <2>10. Unvisited'
    BY <1>3, <1>5, <1>7, <2>2 DEF Filing, Unvisited
  <2> QED
    BY <1>7, <1>10, <2>5, <2>6, <2>7, <2>8, <2>9, <2>10 DEF Arming, Filing
<1> QED
  BY <1>11, <1>12

LEMMA ShutdownKeeps ==
    ASSUME Inv, Shutdown
    PROVE  Inv'
<1> USE DEF Inv, Typed
<1>1. /\ patrolling' = FALSE /\ jobs' = {} /\ recent' = {} /\ Stop(Id)
      /\ UNCHANGED <<job, enqueued, callVars, switch, fileVars>>
  BY DEF Shutdown
<1>2. Disarms(Id)
  BY <1>1, StopDisarms
<1>3. Goes
  BY <1>2, CalmGoes DEF Disarms, Arming
<1>4. TypeOK'
  BY <1>1, <1>3 DEF TypeOK, Goes, callVars, fileVars
<1>5. Switches' /\ CallsHold' /\ Alone' /\ DeletedStays'
  BY <1>1 DEF Switches, CallsHold, Alone, DeletedStays, Arming, callVars, fileVars
<1>6. FutureIsArmed' /\ Follows' /\ Undoable'
  BY <1>1 DEF FutureIsArmed, Follows, Undoable, Orderly
<1>7. Unvisited' /\ TodoIsFile'
  BY <1>1 DEF Filing, Unvisited, TodoIsFile, fileVars
<1> QED
  BY <1>3, <1>4, <1>5, <1>6, <1>7 DEF Arming, Filing, Goes

-----------------------------------------------------------------------------
(* The theorems *)

LEMMA InitInv == Init => Inv
<1> SUFFICES ASSUME Init PROVE Inv
  OBVIOUS
<1> USE DEF Init
<1>1. switch.todo = << >> /\ DOMAIN switch.todo = {} /\ switch.pc = "none" /\ switch.id = None
  BY EmptyFile DEF NoSwitch
<1>2. \A s \in Session : store[s] \in Files /\ DOMAIN store[s] \subseteq Id
  <2> SUFFICES ASSUME NEW s \in Session PROVE store[s] \in Files /\ DOMAIN store[s] \subseteq Id
    OBVIOUS
  <2>1. PICK S \in SUBSET Id : store[s] \in [S -> Entry]
    OBVIOUS
  <2> QED
    BY <2>1, FilesAre
<1>3. store \in [Session -> Files]
  BY <1>2
<1>4. TypeOK
  <2>1. timers \in [Id -> Timer] /\ enqueued \in [Id -> 0 .. 2] /\ calls \in 0 .. MaxCalls
    BY CronAssumption DEF Timer
  <2>2. fires \in [Slot -> Fire \cup {NoFire}] /\ call \in [Caller -> Call \cup {NoCall}]
    OBVIOUS
  <2> QED
    BY <1>1, <1>3, <2>1, <2>2, EmptyFile DEF TypeOK
<1>5. Switches
  BY <1>1, EmptyFile, CronAssumption DEF Switches, NoSwitch
<1>6. CallsHold /\ Alone /\ DeletedStays
  BY DEF CallsHold, Alone, DeletedStays, NoCall
<1>7. Chain
  BY DEF Chain, NoFire
<1>8. FutureIsArmed
  BY DEF FutureIsArmed
<1>9. Follows /\ Undoable
  BY DEF Follows, Undoable, Orderly
<1>10. Unvisited /\ TodoIsFile
  BY <1>1, <1>2 DEF Unvisited, TodoIsFile
<1> QED
  BY <1>4, <1>5, <1>6, <1>7, <1>8, <1>9, <1>10 DEF Inv, Typed, Arming, Filing

LEMMA StutterKeeps ==
    ASSUME Inv, UNCHANGED vars
    PROVE  Inv'
<1> USE DEF Inv, Typed, vars
<1>1. Ticks /\ CallsStay /\ Goes
  BY StillTicks, NothingStays, NothingCalms, CalmGoes DEF Arming, fileVars
<1>2. Reminds
  BY DEF Reminds, Waits
<1> QED
  BY <1>1, <1>2, TicksKeep DEF TypeOK

LEMMA NextKeeps == Inv /\ [Next]_vars => Inv'
<1> SUFFICES ASSUME Inv, [Next]_vars PROVE Inv'
  OBVIOUS
<1>1. CASE Clock
  BY <1>1, ArriveKeeps, CoolKeeps DEF Clock
<1>2. CASE Callback
  BY <1>2, FireStartKeeps, FireEnqueueKeeps, FireTailKeeps, FireSaveKeeps DEF Callback
<1>3. CASE patrolCheck
  BY <1>3, patrolCheckKeeps
<1>4. CASE Load
  BY <1>4, LoadReadKeeps, LoadScheduleKeeps, SwitchEndKeeps, LoadJobKeeps DEF Load
<1>5. CASE Shutdown
  BY <1>5, ShutdownKeeps
<1>6. CASE \E id \in Id : Launch(id)
  BY <1>6, LaunchKeeps
<1>7. ASSUME NEW c \in Caller, CallBegin(c) PROVE Inv'
  BY <1>7, CreateKeeps, DeleteKeeps, PauseKeeps, ResumeKeeps, UpdateKeeps DEF CallBegin
<1>8. ASSUME NEW c \in Caller, CallStep(c) PROVE Inv'
  BY <1>8, CreateScheduleKeeps, SaveOkKeeps, SaveFailKeeps, RollbackKeeps DEF CallStep
<1>9. CASE \E s \in Session : SwitchSession(s)
  BY <1>9, SwitchSessionKeeps
<1>10. CASE \E id \in Foreign : OtherProcess(id)
  BY <1>10, OtherProcessKeeps
<1>11. CASE UNCHANGED vars
  BY <1>11, StutterKeeps
<1> QED
  BY <1>1, <1>2, <1>3, <1>4, <1>5, <1>6, <1>7, <1>8, <1>9, <1>10, <1>11 DEF Next

LEMMA SchedulerInv == Spec => []Inv
  BY InitInv, NextKeeps, PTL DEF Spec

\* Whatever fires, patrols, updates and rollbacks overlap, of the timer and the
\* callbacks of a job at most one is of the current generation (scheduleJobLocked
\* and the comparison in fireJob), and the state has its type.
THEOREM OneChainOfFires == Spec => []OneChain
<1>1. Inv => OneChain
  <2> SUFFICES ASSUME Inv, NEW id \in Id,
                      NEW live, live = {i \in Slot : fires[i].id = id /\ fires[i].live}
               PROVE  Cardinality(live) <= 1 /\ (timers[id] = "armed" => live = {})
    BY DEF Inv, Typed, OneChain
  <2>1. \A i, k \in live : i = k
    BY DEF Inv, Arming, Chain
  <2>2. timers[id] = "armed" => live = {}
    BY DEF Inv, Arming, Chain
  <2>3. CASE live = {}
    BY <2>2, <2>3, FS_EmptySet
  <2>4. CASE live # {}
    <3>1. PICK i : i \in live
      BY <2>4
    <3>2. live = {i}
      BY <2>1, <3>1
    <3>3. Cardinality(live) = 1
      BY <3>2, FS_Singleton
    <3> QED
      BY <2>2, <3>3
  <2> QED
    BY <2>3, <2>4
<1> QED
  BY <1>1, SchedulerInv, PTL

\* A job whose time lies ahead has a timer or is about to get one: no rollback of a
\* call that was alone, no callback and no switch of sessions leaves one without.
THEOREM TimeAheadIsArmed == Spec => []FutureIsArmed
<1>1. Inv => FutureIsArmed
  BY DEF Inv, Arming
<1> QED
  BY <1>1, SchedulerInv, PTL

\* When all is quiet the file of the session holds the recurring jobs of memory and
\* nothing else this process knew: the merge of save brings no deleted job back, and
\* a call that is undone alone leaves memory as the file is.
THEOREM FileFollowsMemory == Spec => []StoreMatches
<1>1. Inv => StoreMatches
  <2> SUFFICES ASSUME Inv, session # None, Quiet, ~muddled, patrolling
               PROVE  /\ DOMAIN store[session] \cap known = Mine
                      /\ \A id \in Mine : store[session][id] = Written(Mine)[id]
    BY DEF StoreMatches, Mine
  <2>1. \A id \in Id : Synced(id)
    BY QuietIs DEF Orderly
  <2>2. known \subseteq Id /\ Mine \subseteq Id
    BY DEF Inv, Typed, TypeOK, Mine
  <2>3. \A id \in Mine : Written(Mine)[id] = EntryOf(id)
    BY DEF Written, EntryOf
  <2> QED
    BY <2>1, <2>2, <2>3 DEF Synced
<1> QED
  BY <1>1, SchedulerInv, PTL

\* What ForeignJobsSurvive says of a step.
Survive ==
    \A s \in Session : \A id \in DOMAIN store[s] :
        id \notin known => id \in DOMAIN store'[s] /\ store'[s][id] = store[s][id]

LEMMA SurviveStep ==
    ASSUME Inv, [Next]_vars
    PROVE  Survive
<1> USE DEF Inv, Typed
<1>1. store \in [Session -> Files] /\ session \in {None} \cup Session
  BY DEF TypeOK
<1>2. CASE store' = store
  BY <1>2 DEF Survive
<1>3. ASSUME store' = IF session = None THEN store ELSE [store EXCEPT ![session] = Merged(store[session])]
      PROVE  Survive
  <2>1. CASE session = None
    BY <1>3, <2>1 DEF Survive
  <2>2. CASE session # None
    <3>1. session \in Session /\ store[session] \in Files
      BY <1>1, <2>2
    <3>2. \A id \in DOMAIN store[session] \ known :
              /\ id \in DOMAIN Merged(store[session])
              /\ Merged(store[session])[id] = store[session][id]
      BY <3>1, MergedIs
    <3> QED
      BY <1>1, <1>3, <2>2, <3>1, <3>2 DEF Survive
  <2> QED
    BY <2>1, <2>2
<1>4. ASSUME NEW c \in Caller, SaveOk(c) PROVE Survive
  BY <1>3, <1>4 DEF SaveOk
<1>5. ASSUME NEW i \in Slot, FireSave(i) PROVE Survive
  BY <1>2, <1>3, <1>5 DEF FireSave, Survive
<1>6. ASSUME NEW c \in Caller, SaveFail(c) PROVE Survive
  <2>1. CASE store' = store
    BY <2>1 DEF Survive
  <2>2. CASE DOMAIN Merged(store[session]) = {} /\ store' = [store EXCEPT ![session] = <<>>]
    <3>1. session \in Session /\ store[session] \in Files
      BY <1>1, <1>6 DEF SaveFail
    <3>2. DOMAIN store[session] \subseteq known
      BY <2>2, <3>1, MergedIs
    <3> QED
      BY <1>1, <2>2, <3>1, <3>2 DEF Survive
  <2> QED
    BY <1>6, <2>1, <2>2 DEF SaveFail
<1>7. ASSUME NEW f \in Foreign, OtherProcess(f) PROVE Survive
  <2>1. session \in Session /\ f \notin DOMAIN store[session]
    BY <1>1, <1>7 DEF OtherProcess
  <2>2. \A s \in Session \ {session} : store'[s] = store[s]
    BY <1>1, <1>7 DEF OtherProcess
  <2>3. PICK e : e = CHOOSE x \in Entry : TRUE
    OBVIOUS
  <2>4. store' = [store EXCEPT ![session] =
                      [k \in DOMAIN store[session] \cup {f} |-> IF k = f THEN e ELSE store[session][k]]]
    BY <1>7, <2>3 DEF OtherProcess
  <2>5. store'[session] = [k \in DOMAIN store[session] \cup {f} |-> IF k = f THEN e ELSE store[session][k]]
    BY <1>1, <2>1, <2>4
  <2> QED
    BY <2>1, <2>2, <2>5 DEF Survive
<1>8. CASE Clock
  BY <1>2, <1>8 DEF Clock, Arrive, Lapse, Cool, fileVars
<1>9. CASE Callback
  <2>1. ASSUME NEW i \in Slot, FireStart(i) \/ FireEnqueue(i) \/ FireTail(i) PROVE store' = store
    BY <2>1 DEF FireStart, FireEnqueue, FireTail, fileVars
  <2> QED
    BY <1>2, <1>5, <1>9, <2>1 DEF Callback
<1>10. CASE patrolCheck
  BY <1>2, <1>10 DEF patrolCheck, fileVars
<1>11. CASE Load
  BY <1>2, <1>11 DEF Load, LoadRead, LoadSchedule, SwitchEnd, LoadJob, fileVars
<1>12. CASE Shutdown
  BY <1>2, <1>12 DEF Shutdown, fileVars
<1>13. CASE \E id \in Id : Launch(id)
  BY <1>2, <1>13 DEF Launch, fileVars
<1>14. ASSUME NEW c \in Caller, CallBegin(c) PROVE Survive
  <2>1. store' = store
    BY <1>14 DEF CallBegin, Create, Delete, Update, Pause, Resume, fileVars
  <2> QED
    BY <2>1 DEF Survive
<1>15. ASSUME NEW c \in Caller, CallStep(c) PROVE Survive
  <2>1. CreateSchedule(c) \/ Rollback(c) => store' = store
    BY DEF CreateSchedule, Rollback, fileVars
  <2> QED
    BY <1>4, <1>6, <1>15, <2>1 DEF CallStep, Survive
<1>16. CASE \E s \in Session : SwitchSession(s)
  BY <1>2, <1>16 DEF SwitchSession
<1> QED
  BY <1>2, <1>7, <1>8, <1>9, <1>10, <1>11, <1>12, <1>13, <1>14, <1>15, <1>16 DEF Next, vars

\* No save of this process removes or changes a job of another process that it has
\* not loaded, a save that fails included.
THEOREM OthersJobsSurvive == Spec => ForeignJobsSurvive
<1>1. [Survive]_vars => [\A s \in Session : \A id \in DOMAIN store[s] :
            id \notin known => id \in DOMAIN store'[s] /\ store'[s][id] = store[s][id]]_vars
  BY DEF Survive
<1>2. Inv /\ [Next]_vars => [Survive]_vars
  BY SurviveStep
<1> QED
  BY <1>1, <1>2, SchedulerInv, PTL DEF Spec, ForeignJobsSurvive
=============================================================================
