------------------------------ MODULE RelayRoom ------------------------------
(***************************************************************************)
(* A room of the relay (ggcode-relay): the host of a shared session sends  *)
(* its events, the relay keeps them in memory and in SQLite and forwards   *)
(* them to a mobile client, which acknowledges them and resumes from a     *)
(* cursor when it comes back.  Connections break on both sides, the relay  *)
(* restarts, and a room without a host expires or is removed as empty.     *)
(*                                                                         *)
(* An event is <<session, ordinal>>; the relay compares ordinals only, and *)
(* every session counts from one.  What the relay sends arrives at once    *)
(* or, on a connection that is breaking, never.  Host and client are the   *)
(* environment: HostOrder, OnServerReady's first conjunct and Claimed say  *)
(* what they may send.                                                     *)
(***************************************************************************)
EXTENDS Naturals, Sequences, Functions, FiniteSets

CONSTANTS
    Session,        \* session ids
    None,           \* no session, no cursor
    MaxEvents,      \* bound: events of a session
    MaxFaults,      \* bound: broken connections, failed writes, restarts, expiries,
                    \* changes of session
    DedupWindow,    \* how far appendEvent looks back
    ReplayRoom      \* how much of a replay is sure to fit the send buffer

ASSUME RelayAssumption ==
    /\ None \notin Session
    /\ {MaxEvents, MaxFaults, DedupWindow, ReplayRoom} \subseteq Nat

VARIABLES
    link,       \* the number of the host's latest connection
    phase,      \* of that one: "down", "hello" (being told of the room), "taking" (its
                \* place), "up" (registered), "stopped" (sharing has ended)
    oldLink,    \* an earlier connection the relay still reads from, or 0
    leaving,    \* the host has been detached, the expiry is not yet scheduled
    room,       \* the room of the share
    store,      \* the SQLite tables
    writes,     \* goroutines about to write to them
    peer,       \* the client's connections, by number
    known,      \* the session the client shows
    got,        \* the events the client has received
    gapped,     \* history: sessions in which a resume, or a room restored under
                \* its clients, skipped events
    unstored,   \* history: an event the store may never have
    emptied,    \* history: the room the host was told of was removed as empty
    faults

client == <<peer, known, got, gapped>>
hostLink == <<link, phase, oldLink, leaving>>
vars == <<hostLink, room, store, writes, client, unstored, emptied, faults>>

Event == Session \X (1 .. MaxEvents)
Peer == 1 .. MaxFaults + 1
Write ==
    [kind : {"event"}, event : Event]
      \cup [kind : {"active"}, session : Session]
      \cup [kind : {"wipe"}]
Wipe == [kind |-> "wipe"]

EmptyRoom ==
    [inHub |-> FALSE, session |-> None, history |-> << >>, server |-> 0,
     ready |-> FALSE, retained |-> FALSE, expired |-> FALSE]
Reserved == [EmptyRoom EXCEPT !.inHub = TRUE, !.retained = TRUE]
EmptyStore == [session |-> None, events |-> {}, cursor |-> None]
NoPeer == [phase |-> "none", live |-> FALSE, cursor |-> None]

Ordinal(cursor) == IF cursor = None THEN 0 ELSE cursor[2]
Faulty == faults < MaxFaults /\ faults' = faults + 1
Attached == {c \in Peer : peer[c].phase \in {"joined", "resumed", "ready"}}

(***************************************************************************)
(* The relay, or sharing_stopped, ends every client's connection.          *)
(***************************************************************************)
Closed(as) ==
    /\ peer' = [c \in Peer |-> IF c \in Attached THEN [NoPeer EXCEPT !.phase = as] ELSE peer[c]]
    /\ UNCHANGED <<known, got, gapped>>

-----------------------------------------------------------------------------
(* The room and the store. *)

(***************************************************************************)
(* appendEvent: an ordinal among the last DedupWindow is updated in place  *)
(* and not forwarded.                                                      *)
(***************************************************************************)
IsDuplicate(history, event) ==
    \E i \in DOMAIN history :
        i > Len(history) - DedupWindow /\ history[i][2] = event[2]

\* Mutant: only replace_history empties the room.
BoundLoosely(r, s, replace) ==
    [r EXCEPT !.session = s, !.history = IF replace THEN << >> ELSE @]

(***************************************************************************)
(* bindRoomSession: another session, or replace_history, empties the room. *)
(***************************************************************************)
Bound(r, s, replace) ==
    [r EXCEPT !.session = s,
              !.history = IF r.session # s \/ replace THEN << >> ELSE @]

\* Mutant: one event too few.
EventsAfterNext(history, cursor) ==
    LET at == {i \in DOMAIN history : history[i][2] = Ordinal(cursor)}
    IN  IF at = {} THEN history
        ELSE SubSeq(history, 2 + (CHOOSE i \in at : \A j \in at : i <= j), Len(history))

(***************************************************************************)
(* eventsAfter: what follows the cursor's ordinal, everything if it is not *)
(* there.                                                                  *)
(***************************************************************************)
EventsAfter(history, cursor) ==
    LET at == {i \in DOMAIN history : history[i][2] = Ordinal(cursor)}
    IN  IF at = {} THEN history
        ELSE SubSeq(history, 1 + (CHOOSE i \in at : \A j \in at : i <= j), Len(history))

(***************************************************************************)
(* The stores that persistEvent and persistActiveSession may leave.  Each  *)
(* runs in a goroutine of its own, and nobody can tell when until the      *)
(* store is read.  The one that comes last sets the room's session.        *)
(***************************************************************************)
After(base, ws) ==
    LET events == {w.event : w \in {v \in ws : v.kind = "event"}}
        sessions == {e[1] : e \in events}
                      \cup {w.session : w \in {v \in ws : v.kind = "active"}}
    IN  {[base EXCEPT !.session = s, !.events = @ \cup events] :
            s \in IF sessions = {} THEN {base.session} ELSE sessions}

(***************************************************************************)
(* The same with destroyRoom, which deletes what was written before it.    *)
(***************************************************************************)
Stores(done) ==
    IF Wipe \in done
    THEN UNION {After(EmptyStore, later) : later \in SUBSET (done \ {Wipe})}
    ELSE After(store, done)

(***************************************************************************)
(* loadRoom and hydrateLocked: the events of the stored session, in order. *)
(***************************************************************************)
InOrder(events) ==
    CHOOSE h \in [1 .. Cardinality(events) -> events] :
        \A i, j \in DOMAIN h : i < j => h[i][2] < h[j][2]

Hydrated(r, from) ==
    [r EXCEPT !.session = from.session,
              !.history = InOrder({e \in from.events : e[1] = from.session})]

-----------------------------------------------------------------------------
(* The relay reads from a connection of the host. *)

(***************************************************************************)
(* What a host sends in a session: its log from the start, in order, or    *)
(* again what it has sent.  To a history with a gap (RelayRecoveryPlan) it *)
(* adds nothing before it has had it replaced.                             *)
(***************************************************************************)
HostOrder(s, n) ==
    LET sent == IF s = room.session THEN {e[2] : e \in Range(room.history)} ELSE {}
    IN  n \in sent \/ sent = 1 .. n - 1

Listening == \E c \in Peer : peer[c].live /\ peer[c].phase = "ready"

\* Mutant: only what a client has seen is stored.
PersistSeen(event, new) ==
    IF new /\ Listening THEN writes \cup {[kind |-> "event", event |-> event]} ELSE writes

(***************************************************************************)
(* The goroutine of persistEventDurable: none for a duplicate.             *)
(***************************************************************************)
Persist(event, new) ==
    IF new THEN writes \cup {[kind |-> "event", event |-> event]} ELSE writes

(***************************************************************************)
(* handleServerBroadcast, under the room's sendMu: nothing from a          *)
(* connection that was replaced; else bind the session, append, forward to *)
(* the clients that are ready, persist in a goroutine.                     *)
(***************************************************************************)
OnEvent(from, event) ==
    LET r == Bound(room, event[1], FALSE)
        new == ~IsDuplicate(r.history, event)
    IN  /\ HostOrder(event[1], event[2])
        /\ room.server = from
        /\ room' = IF new THEN [r EXCEPT !.history = Append(@, event)] ELSE r
        /\ writes' = Persist(event, new)
        /\ got' = IF new /\ Listening THEN got \cup {event} ELSE got
        /\ unstored' = (unstored \/ (new /\ Wipe \in writes))
        /\ UNCHANGED <<peer, known, gapped>>

(***************************************************************************)
(* onActiveSession: bind, tell every client, persist in a goroutine.       *)
(***************************************************************************)
OnActiveSession(from, s, replace) ==
    /\ room.server = from
    /\ room' = Bound(room, s, replace)
    /\ writes' = writes \cup {[kind |-> "active", session |-> s]}
    /\ known' = IF \E c \in Attached : peer[c].live THEN s ELSE known
    /\ UNCHANGED <<peer, got, gapped, unstored>>

(***************************************************************************)
(* onServerReady: clients may join.  The host says so when the relay has   *)
(* its log without a gap (relayRecoveryPlan).                              *)
(***************************************************************************)
OnServerReady(from) ==
    /\ \A i \in DOMAIN room.history : \E j \in DOMAIN room.history : room.history[j][2] = i
    /\ room.server = from
    /\ room' = [room EXCEPT !.ready = TRUE]
    /\ UNCHANGED <<writes, client, unstored>>

(***************************************************************************)
(* readLoop, of the host's connection or of one it has already given up.   *)
(***************************************************************************)
Read(from) ==
    /\ \/ phase = "up" /\ from = link
       \/ oldLink # 0 /\ from = oldLink
    /\ \/ \E e \in Event : OnEvent(from, e)
       \/ \E s \in Session, replace \in BOOLEAN : OnActiveSession(from, s, replace)
       \/ OnServerReady(from)
    /\ IF room.session \in {None, room'.session} THEN UNCHANGED faults ELSE Faulty
    /\ UNCHANGED <<hostLink, store, emptied>>

(***************************************************************************)
(* onStopSharing and destroyRoom: the host ends the sharing for good.      *)
(***************************************************************************)
StopSharing ==
    /\ phase = "up" /\ room.server = link
    /\ phase' = "stopped"
    /\ room' = EmptyRoom
    /\ writes' = IF room.inHub THEN writes \cup {Wipe} ELSE writes
    /\ Closed("stopped")
    /\ UNCHANGED <<link, oldLink, leaving, store, unstored, emptied, faults>>

(***************************************************************************)
(* readLoop ends; detachFromRoom clears the server unless another one has  *)
(* taken its place.                                                        *)
(***************************************************************************)
Detach ==
    /\ oldLink # 0 /\ ~leaving
    /\ oldLink' = 0
    /\ IF room.server = oldLink
       THEN /\ room' = [room EXCEPT !.server = 0, !.ready = FALSE]
            /\ leaving' = TRUE
       ELSE UNCHANGED <<room, leaving>>
    /\ UNCHANGED <<link, phase, store, writes, client, unstored, emptied, faults>>

(***************************************************************************)
(* scheduleRoomExpiry, which detachFromRoom calls after it has let go of   *)
(* the room: whichever room now has the token is kept for the host.        *)
(***************************************************************************)
Retain ==
    /\ leaving
    /\ leaving' = FALSE
    /\ room' = [room EXCEPT !.retained = room.inHub]
    /\ UNCHANGED <<link, phase, oldLink, store, writes, client, unstored, emptied, faults>>

-----------------------------------------------------------------------------
(* The host's connections. *)

(***************************************************************************)
(* handleWS of the host, up to the message that tells it what the room     *)
(* holds: the room is created, and restored from the store if it has no    *)
(* session.  History: it is restored under clients that were let in, or    *)
(* from rows that are about to be deleted.                                 *)
(***************************************************************************)
Hello ==
    /\ phase = "down"
    /\ IF room.inHub /\ room.session # None
       THEN UNCHANGED <<room, store, writes, gapped, unstored>>
       ELSE \E done \in SUBSET writes :
                /\ writes' = writes \ done
                /\ store' \in Stores(done)
                /\ room' = Hydrated(IF room.inHub THEN room
                                    ELSE [EmptyRoom EXCEPT !.inHub = TRUE], store')
                /\ gapped' = IF room.ready \/ Attached # {}
                             THEN gapped \cup ({room'.session} \ {None}) ELSE gapped
                /\ unstored' = (unstored \/ (Wipe \in writes' /\ room'.history # << >>))
    /\ link' = link + 1
    /\ phase' = "hello"
    /\ emptied' = FALSE
    /\ UNCHANGED <<oldLink, leaving, peer, known, got, faults>>

(***************************************************************************)
(* The host has been told.  An earlier connection loses its place, and the *)
(* room is unlocked to tell it.                                            *)
(***************************************************************************)
TakeOver ==
    /\ phase = "hello"
    /\ phase' = "taking"
    /\ room' = IF room.server # 0 THEN [room EXCEPT !.server = 0, !.ready = FALSE] ELSE room
    /\ UNCHANGED <<link, oldLink, leaving, store, writes, client, unstored, emptied, faults>>

\* Mutant: the mark of an expired room is not looked at.
RegisterAnyway ==
    /\ phase = "taking"
    /\ room' = [room EXCEPT !.server = link, !.ready = FALSE, !.retained = FALSE]
    /\ phase' = "up"
    /\ UNCHANGED <<link, oldLink, leaving, store, writes, client, unstored, emptied, faults>>

(***************************************************************************)
(* The rest of handleWS: register, unless the room expired meanwhile.      *)
(***************************************************************************)
Register ==
    /\ phase = "taking"
    /\ IF room.expired
       THEN phase' = "down" /\ UNCHANGED room
       ELSE /\ room' = [room EXCEPT !.server = link, !.ready = FALSE, !.retained = FALSE]
            /\ phase' = "up"
    /\ UNCHANGED <<link, oldLink, leaving, store, writes, client, unstored, emptied, faults>>

(***************************************************************************)
(* The host's connection breaks.  The relay reads what was written to it   *)
(* until it notices.                                                       *)
(***************************************************************************)
LoseLink ==
    /\ phase' = "down"
    /\ oldLink' = IF phase = "up" THEN link ELSE oldLink

HostDrop ==
    /\ Faulty
    /\ phase \in {"hello", "up"}
    /\ LoseLink
    /\ UNCHANGED <<link, leaving, room, store, writes, client, unstored, emptied>>

-----------------------------------------------------------------------------
(* Failed writes, expiry, restarts. *)

(***************************************************************************)
(* persistEventDurable gives up after three attempts and closes the        *)
(* connection the event came from.                                         *)
(***************************************************************************)
PersistFails ==
    /\ Faulty
    /\ \E w \in writes : w.kind = "event" /\ writes' = writes \ {w}
    /\ IF phase = "up" THEN LoseLink ELSE UNCHANGED <<phase, oldLink>>
    /\ unstored' = TRUE
    /\ UNCHANGED <<link, leaving, room, store, client, emptied>>

(***************************************************************************)
(* expireRoom, of the offline timer, of a reserved room's or of            *)
(* evictStaleRooms: no host is there.  The clients are told that sharing   *)
(* has stopped and the stored room is deleted in a goroutine.              *)
(***************************************************************************)
Expire ==
    /\ Faulty
    /\ room.inHub /\ room.server = 0
    /\ room' = [EmptyRoom EXCEPT !.expired = TRUE]
    /\ writes' = writes \cup {Wipe}
    /\ Closed("stopped")
    /\ UNCHANGED <<hostLink, store, unstored, emptied>>

(***************************************************************************)
(* The relay restarts: what was not yet written is lost.                   *)
(***************************************************************************)
Restart ==
    /\ Faulty
    /\ room' = EmptyRoom
    /\ \E done \in SUBSET writes : store' \in Stores(done)
    /\ writes' = {}
    /\ phase' = IF phase = "stopped" THEN phase ELSE "down"
    /\ oldLink' = 0 /\ leaving' = FALSE
    /\ Closed("gone")
    /\ UNCHANGED <<link, unstored, emptied>>

-----------------------------------------------------------------------------
(* The client. *)

(***************************************************************************)
(* handleWS of a client: only a room whose host is ready takes it.         *)
(***************************************************************************)
Join(c) ==
    /\ peer[c].phase = "none"
    /\ \A d \in Peer : ~peer[d].live /\ (d < c => peer[d].phase # "none")
    /\ room.inHub /\ room.server # 0 /\ room.ready
    /\ peer' = [peer EXCEPT ![c] = [NoPeer EXCEPT !.phase = "joined", !.live = TRUE]]
    /\ UNCHANGED <<hostLink, room, store, writes, known, got, gapped, unstored, emptied, faults>>

(***************************************************************************)
(* onResume: the cursor is forgotten if the client shows another session   *)
(* than the room's; the client is told the session and waits for the key   *)
(* exchange.                                                               *)
(***************************************************************************)
OnResume(c, cursor) ==
    /\ peer[c].live /\ peer[c].phase = "joined"
    /\ LET foreign == known # None /\ room.session # None /\ known # room.session
       IN  peer' = [peer EXCEPT ![c].phase = "resumed",
                                ![c].cursor = IF foreign THEN None ELSE cursor]
    /\ known' = IF room.session # None THEN room.session ELSE known
    /\ UNCHANGED <<hostLink, room, writes, got, gapped, unstored, emptied, faults>>

(***************************************************************************)
(* resume_from: the client names the last event it has without a gap.      *)
(***************************************************************************)
Claimed == {e \in got : e[1] = known /\ \A m \in 1 .. e[2] : <<known, m>> \in got}

ResumeFrom(c) ==
    /\ \E cursor \in Claimed : OnResume(c, cursor)
    /\ UNCHANGED store

(***************************************************************************)
(* onAck and saveClientCursor: the client acknowledges what it received,   *)
(* and the stored cursor, which nobody reads before the next resume_hello, *)
(* only moves forward.                                                     *)
(***************************************************************************)
SavedCursor ==
    {store.cursor} \cup {e \in got : e[2] > Ordinal(store.cursor)}

ResumeHello(c) ==
    /\ \E cursor \in SavedCursor :
        store' = [store EXCEPT !.cursor = cursor] /\ OnResume(c, cursor)

(***************************************************************************)
(* onKeyReady and finishResume, under sendMu: replay what follows the      *)
(* cursor, as far as the send buffer takes it, and be ready for what the   *)
(* host sends from now on.  History: a cursor that came from another       *)
(* session, or a replay cut short, may skip events.                        *)
(***************************************************************************)
FinishResume(c) ==
    /\ peer[c].live /\ peer[c].phase = "resumed"
    /\ LET cursor == peer[c].cursor
           replay == EventsAfter(room.history, cursor)
           foreign == cursor # None /\ replay # room.history
                        /\ <<room.session, Ordinal(cursor)>> # cursor
       IN  \E k \in 0 .. Len(replay) :
            /\ k = Len(replay) \/ k >= ReplayRoom
            /\ got' = got \cup Range(SubSeq(replay, 1, k))
            /\ gapped' = IF k < Len(replay) \/ foreign
                         THEN gapped \cup {room.session} ELSE gapped
    /\ peer' = [peer EXCEPT ![c].phase = "ready"]
    /\ UNCHANGED <<hostLink, room, store, writes, known, unstored, emptied, faults>>

(***************************************************************************)
(* The client's connection breaks, or is closed for a full send buffer:    *)
(* what the relay sends from now on is lost.                               *)
(***************************************************************************)
ClientDrop(c) ==
    /\ Faulty
    /\ peer[c].live
    /\ peer' = [peer EXCEPT ![c].live = FALSE]
    /\ UNCHANGED <<hostLink, room, store, writes, known, got, gapped, unstored, emptied>>

(***************************************************************************)
(* detachFromRoom of a client, and removeRoomIfEmpty: a room with no peer  *)
(* and no expiry scheduled is removed, and deleted from the store.         *)
(***************************************************************************)
DetachClient(c) ==
    /\ c \in Attached /\ ~peer[c].live
    /\ peer' = [peer EXCEPT ![c] = [NoPeer EXCEPT !.phase = "gone"]]
    /\ IF room.inHub /\ room.server = 0 /\ Attached = {c} /\ ~room.retained
       THEN /\ room' = [room EXCEPT !.inHub = FALSE]
            /\ writes' = writes \cup {Wipe}
            /\ emptied' = TRUE
       ELSE UNCHANGED <<room, writes, emptied>>
    /\ UNCHANGED <<hostLink, store, known, got, gapped, unstored, faults>>

-----------------------------------------------------------------------------
Init ==
    /\ link = 0 /\ phase = "down" /\ oldLink = 0 /\ leaving = FALSE
    /\ room \in {EmptyRoom, Reserved}
    /\ store = EmptyStore /\ writes = {}
    /\ peer = [c \in Peer |-> NoPeer]
    /\ known = None /\ got = {} /\ gapped = {}
    /\ unstored = FALSE /\ emptied = FALSE /\ faults = 0

Next ==
    \/ \E from \in {link, oldLink} : Read(from)
    \/ StopSharing \/ Detach \/ Retain \/ Hello \/ TakeOver \/ Register
    \/ \E c \in Peer :
        \/ Join(c) \/ ResumeFrom(c) \/ ResumeHello(c) \/ FinishResume(c)
        \/ DetachClient(c) \/ ClientDrop(c)
    \/ HostDrop \/ PersistFails \/ Expire \/ Restart

Spec == Init /\ [][Next]_vars

-----------------------------------------------------------------------------
(***************************************************************************)
(* Types; and clients are let in only when a host is there to answer them. *)
(***************************************************************************)
TypeOK ==
    /\ room.ready => room.server # 0
    /\ link \in 0 .. MaxFaults + 1 /\ oldLink \in 0 .. link
    /\ phase \in {"down", "hello", "taking", "up", "stopped"}
    /\ leaving \in BOOLEAN /\ emptied \in BOOLEAN
    /\ room \in [inHub : BOOLEAN, session : Session \cup {None}, history : Seq(Event),
                 server : 0 .. link, ready : BOOLEAN, retained : BOOLEAN, expired : BOOLEAN]
    /\ store \in [session : Session \cup {None}, events : SUBSET Event,
                  cursor : Event \cup {None}]
    /\ writes \subseteq Write
    /\ peer \in [Peer -> [phase : {"none", "joined", "resumed", "ready", "gone", "stopped"},
                          live : BOOLEAN, cursor : Event \cup {None}]]
    /\ known \in Session \cup {None}
    /\ got \subseteq Event /\ gapped \subseteq Session
    /\ unstored \in BOOLEAN /\ faults \in 0 .. MaxFaults

(***************************************************************************)
(* A host that believes it shares is the server of its room, and clients   *)
(* find that room under its token: a stale connection that detaches late   *)
(* does not take the place of the new one (detachFromRoom), and a room     *)
(* that expires during the handshake is not registered with (handleWS).    *)
(* The exception is a room removed as empty in between; see                *)
(* NoOrphanedHost.                                                         *)
(***************************************************************************)
HostHasRoom == phase = "up" => room.server = link /\ (room.inHub \/ emptied)

(***************************************************************************)
(* A client that is ready has every event of the room: what it missed      *)
(* while away was replayed, what arrived during its resume is forwarded or *)
(* replayed and falls into no gap between the two (finishResume and        *)
(* handleServerBroadcast under sendMu), whatever connections, restarts and *)
(* replaced histories came before.  Sessions a resume is known to skip     *)
(* events of, or a room to be restored under its clients, are excepted.    *)
(***************************************************************************)
ReadyMissesNothing ==
    \A c \in Peer :
        peer[c].live /\ peer[c].phase = "ready" /\ room.session \notin gapped
            => Range(room.history) \subseteq got

(***************************************************************************)
(* A room holds the events of one session: not what an earlier session     *)
(* left in memory or in the store, though ordinals coincide.  It holds     *)
(* each once: not what a host that reconnects sends again, unless that is  *)
(* further back than appendEvent looks.                                    *)
(***************************************************************************)
OneSession ==
    /\ \A i \in DOMAIN room.history : room.history[i][1] = room.session
    /\ \A i, j \in DOMAIN room.history :
           room.history[i] = room.history[j] /\ i < j => j - i > DedupWindow

(***************************************************************************)
(* What a room holds is in the store once the writes under way are done,   *)
(* in whatever order they run, so that a restart of the relay gives it     *)
(* back, unless a write failed or the room is deleted from the store while *)
(* the host is back already.                                               *)
(***************************************************************************)
StoreCatchesUp ==
    room.inHub /\ ~unstored =>
        \A from \in Stores(writes) : Range(room.history) \subseteq from.events

(***************************************************************************)
(* The state has its type, the room holds one session, each event once,    *)
(* and the store follows it.                                               *)
(***************************************************************************)
StoreFollows == TypeOK /\ OneSession /\ StoreCatchesUp

-----------------------------------------------------------------------------
(* What the repository says, and the code does not do. *)

(***************************************************************************)
(* issue2898_test.go:11: a registration in flight "must abort at its       *)
(* commit point instead of silently becoming an orphaned server in a room  *)
(* that no longer exists".  expireRoom leaves a mark for that,             *)
(* removeRoomIfEmpty does not, and detachFromRoom leaves the room without  *)
(* server and without expiry for a moment: a last client that detaches     *)
(* then removes the room under a host that is coming back.                 *)
(***************************************************************************)
NoOrphanedHost == phase = "up" => room.inHub
=============================================================================
