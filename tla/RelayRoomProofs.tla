--------------------------- MODULE RelayRoomProofs ---------------------------
(***************************************************************************)
(* A room of the relay, for any number of sessions, events, connections    *)
(* and faults: a host that shares has its room, a client that is ready has *)
(* every event of it, and what the room holds is that of one session and   *)
(* reaches the store.                                                      *)
(***************************************************************************)
EXTENDS RelayRoom, FiniteSetTheorems, WellFoundedInduction, TLAPS

-----------------------------------------------------------------------------
(* The inductive invariant *)

\* An earlier connection of a host that is back is another one than its newest, and every
\* new one but the first was paid for by a fault.
Links ==
    /\ phase \in {"hello", "taking", "up"} => oldLink < link
    /\ link <= faults + 1
    /\ phase = "down" \/ room.expired => link <= faults

\* An expired room has left the hub for good, so a handshake that finds no mark of it has
\* its room, or the room was removed as empty.
Handshake ==
    /\ room.expired => ~room.inHub /\ room.server = 0
    /\ phase \in {"hello", "taking"} => room.expired \/ room.inHub \/ emptied

\* What comes before the first event with some ordinal has a smaller one.
InFront(history) ==
    \A i, j \in DOMAIN history :
        i < j => history[i][2] < history[j][2] \/ \E k \in 1 .. j - 1 : history[k][2] = history[j][2]

\* No ordinal is missing below one that is there.
GapFree(history) ==
    \A i \in DOMAIN history : \A m \in 1 .. history[i][2] : \E j \in DOMAIN history : history[j][2] = m

HistoryInv ==
    /\ OneSession
    /\ InFront(room.history)
    /\ room.ready \/ Attached # {} => GapFree(room.history) \/ room.session \in gapped

\* What the client received it received from the first event on; and cursors are what it
\* received.
GotInv ==
    /\ \A e \in got : e[1] \notin gapped => \A m \in 1 .. e[2] : <<e[1], m>> \in got
    /\ \A c \in Peer : peer[c].cursor # None => peer[c].cursor \in got
    /\ store.cursor # None => store.cursor \in got

\* A room with events is not among what is still to be deleted.
NoWipe == room.inHub /\ ~unstored /\ Wipe \in writes => room.history = << >>

\* Every event of the room is stored or about to be.
Written ==
    room.inHub /\ ~unstored =>
        \A e \in Range(room.history) :
            e \in store.events \/ [kind |-> "event", event |-> e] \in writes

HostInv == Links /\ Handshake /\ HostHasRoom
ClientInv == HistoryInv /\ GotInv /\ ReadyMissesNothing
StoreInv == NoWipe /\ Written
-----------------------------------------------------------------------------
(* Histories *)

\* A non-empty set of natural numbers has a least one.
LEMMA Least ==
    ASSUME NEW S \in SUBSET Nat, S # {}
    PROVE  \E n \in S : \A k \in S : n <= k
<1>1. PICK n \in S : \A k \in S : ~ (<<k, n>> \in OpToRel(<, Nat))
  BY NatLessThanWellFounded, WFMin
<1>2. \A k \in S : ~ (k < n)
  BY <1>1 DEF OpToRel
<1> QED
  BY <1>2

\* The events of one session can be put in order, so InOrder finds them in order.
LEMMA OrderedEvents ==
    ASSUME NEW S \in SUBSET Event, \A d, e \in S : d[2] = e[2] => d = e
    PROVE  LET h == InOrder(S)
           IN  /\ h \in Seq(Event) /\ Range(h) = S
               /\ \A i, j \in DOMAIN h : i < j => h[i][2] < h[j][2]
<1> DEFINE n == Cardinality(S)
           Below(k) == {d \in S : d[2] < k}
           rank == [e \in S |-> Cardinality(Below(e[2])) + 1]
           Sorted(h) == \A i, j \in DOMAIN h : i < j => h[i][2] < h[j][2]
<1>1. \A e \in S : e[2] \in 1 .. MaxEvents /\ e[2] \in Nat /\ e \in Event
  BY RelayAssumption DEF Event
<1>2. IsFiniteSet(S) /\ n \in Nat
  <2>1. [e \in S |-> e[2]] \in Injection(S, 1 .. MaxEvents)
    BY <1>1 DEF Injection, IsInjective
  <2>2. IsFiniteSet(1 .. MaxEvents)
    BY FS_Interval, RelayAssumption
  <2>3. IsFiniteSet(S)
    BY <2>1, <2>2, FS_Injection
  <2> QED BY <2>3, FS_CardinalityType
<1>3. \A k \in Nat : IsFiniteSet(Below(k)) /\ Cardinality(Below(k)) \in Nat /\ Cardinality(Below(k)) <= n
  BY <1>2, FS_Subset, FS_CardinalityType
<1>4. ASSUME NEW e \in S PROVE rank[e] \in 1 .. n
  <2>1. Below(e[2]) \subseteq S \ {e}
    BY <1>1
  <2>2. IsFiniteSet(S \ {e}) /\ Cardinality(S \ {e}) = n - 1
    BY <1>2, FS_RemoveElement
  <2>3. Cardinality(Below(e[2])) <= n - 1 /\ Cardinality(Below(e[2])) \in Nat
    BY <2>1, <2>2, <1>3, <1>1, FS_Subset
  <2> QED BY <2>3, <1>2
<1>5. ASSUME NEW d \in S, NEW e \in S, d[2] < e[2] PROVE rank[d] < rank[e]
  <2>1. Below(d[2]) \cup {d} \subseteq Below(e[2]) /\ d \notin Below(d[2])
    BY <1>1, <1>5
  <2>2. IsFiniteSet(Below(d[2])) /\ IsFiniteSet(Below(e[2]))
        /\ Cardinality(Below(d[2])) \in Nat /\ Cardinality(Below(e[2])) \in Nat
    BY <1>1, <1>3
  <2> HIDE DEF Below
  <2>3. Cardinality(Below(d[2]) \cup {d}) = Cardinality(Below(d[2])) + 1
    BY <2>1, <2>2, FS_AddElement
  <2>4. Cardinality(Below(d[2]) \cup {d}) <= Cardinality(Below(e[2]))
    BY <2>1, <2>2, FS_Subset
  <2> QED BY <2>2, <2>3, <2>4
<1> HIDE DEF rank
<1>6. \A d, e \in S : rank[d] = rank[e] => d = e
  BY <1>1, <1>4, <1>5
<1>7. \A i \in 1 .. n : \E e \in S : rank[e] = i
  <2>1. rank \in Injection(S, 1 .. n)
    BY <1>4, <1>6 DEF Injection, IsInjective, rank
  <2>2. IsFiniteSet(1 .. n) /\ Cardinality(1 .. n) = n
    BY <1>2, FS_Interval
  <2>3. rank \in Surjection(S, 1 .. n)
    BY <2>1, <2>2, FS_Injection
  <2> QED BY <2>3 DEF Surjection
<1>8. \E h \in [1 .. n -> S] : Sorted(h)
  <2> DEFINE h == [i \in 1 .. n |-> CHOOSE e \in S : rank[e] = i]
  <2>1. \A i \in 1 .. n : h[i] \in S /\ rank[h[i]] = i
    BY <1>7
  <2>2. ASSUME NEW i \in 1 .. n, NEW j \in 1 .. n, i < j PROVE h[i][2] < h[j][2]
    <3>1. CASE h[j][2] < h[i][2]
      BY <3>1, <2>1, <2>2, <1>5
    <3>2. CASE h[j][2] = h[i][2]
      BY <3>2, <2>1, <2>2
    <3> QED BY <3>1, <3>2, <2>1, <1>1
  <2>3. h \in [1 .. n -> S] /\ Sorted(h)
    BY <2>1, <2>2
  <2> QED BY <2>3
<1> DEFINE h == InOrder(S)
<1>9. h \in [1 .. n -> S] /\ Sorted(h)
  BY <1>8 DEF InOrder
<1> HIDE DEF h
<1>10. Range(h) = S
  <2>1. ASSUME NEW i \in 1 .. n, NEW j \in 1 .. n, h[i] = h[j] PROVE i = j
    <3>1. h[i][2] \in Nat /\ h[i] \in S /\ h[j] \in S
      BY <1>9, <1>1
    <3> QED BY <3>1, <2>1, <1>9
  <2>2. h \in Injection(1 .. n, S)
    BY <1>9, <2>1 DEF Injection, IsInjective
  <2>3. IsFiniteSet(1 .. n) /\ Cardinality(1 .. n) = n
    BY <1>2, FS_Interval
  <2>4. h \in Surjection(1 .. n, S)
    BY <2>2, <2>3, <1>2, FS_Injection
  <2> QED BY <2>4, <1>9 DEF Surjection, Range
<1>11. h \in Seq(Event)
  BY <1>2, <1>9
<1> QED BY <1>9, <1>10, <1>11 DEF h

\* What eventsAfter leaves out is what comes before the first event with the cursor's ordinal.
LEMMA Replays ==
    ASSUME NEW h \in Seq(Event), NEW cursor
    PROVE  LET replay == EventsAfter(h, cursor)
           IN  /\ replay \in Seq(Event)
               /\ Range(replay) \subseteq Range(h)
               /\ replay # h => \E p \in DOMAIN h :
                      /\ h[p][2] = Ordinal(cursor)
                      /\ \A i \in 1 .. p - 1 : h[i][2] # Ordinal(cursor)
                      /\ \A i \in DOMAIN h : i > p => h[i] \in Range(replay)
<1> DEFINE at == {i \in DOMAIN h : h[i][2] = Ordinal(cursor)}
           first == CHOOSE i \in at : \A j \in at : i <= j
           replay == EventsAfter(h, cursor)
<1>1. CASE at = {}
  <2>1. replay = h
    BY <1>1 DEF EventsAfter
  <2> QED BY <2>1
<1>2. CASE at # {}
  <2>1. at \subseteq Nat
    OBVIOUS
  <2>2. first \in at /\ \A j \in at : first <= j
    <3>1. \E i \in at : \A j \in at : i <= j
      BY <1>2, <2>1, Least
    <3> HIDE DEF at
    <3> QED BY <3>1
  <2>3. replay = SubSeq(h, 1 + first, Len(h))
    BY <1>2 DEF EventsAfter
  <2>4. first \in 1 .. Len(h) /\ Len(h) \in Nat
    BY <2>2
  <2> HIDE DEF first
  <2>5. /\ replay \in Seq(Event) /\ Len(replay) = Len(h) - first
        /\ \A i \in 1 .. Len(h) - first : replay[i] = h[first + i]
    BY <2>3, <2>4
  <2>6. Range(replay) \subseteq Range(h)
    <3>1. DOMAIN replay = 1 .. Len(h) - first
      BY <2>4, <2>5
    <3>2. \A i \in 1 .. Len(h) - first : first + i \in DOMAIN h
      BY <2>4
    <3> HIDE DEF replay
    <3> QED BY <2>5, <3>1, <3>2 DEF Range
  <2>7. ASSUME NEW i \in DOMAIN h, i > first PROVE h[i] \in Range(replay)
    <3>1. i - first \in 1 .. Len(h) - first /\ first + (i - first) = i
      BY <2>4, <2>7
    <3>2. i - first \in DOMAIN replay /\ replay[i - first] = h[i]
      BY <2>5, <3>1
    <3> QED BY <3>2 DEF Range
  <2>8. \A i \in 1 .. first - 1 : i \in DOMAIN h /\ i < first /\ i \in Nat /\ first \in Nat
    BY <2>4
  <2>9. \A i \in 1 .. first - 1 : h[i][2] # Ordinal(cursor)
    BY <2>2, <2>8
  <2> QED BY <2>2, <2>5, <2>6, <2>7, <2>9
<1> QED BY <1>1, <1>2

-----------------------------------------------------------------------------
(* What may be written to the store *)

StoreType == [session : Session \cup {None}, events : SUBSET Event, cursor : Event \cup {None}]

EventsOf(ws) == {w.event : w \in {v \in ws : v.kind = "event"}}

\* Writes in any order and number leave a store with the events that were to be written.
LEMMA AfterStores ==
    ASSUME NEW base \in StoreType, NEW ws \in SUBSET Write, NEW from \in After(base, ws)
    PROVE  from \in StoreType /\ from.cursor = base.cursor /\ from.events = base.events \cup EventsOf(ws)
<1> DEFINE sessions == {e[1] : e \in EventsOf(ws)} \cup {w.session : w \in {v \in ws : v.kind = "active"}}
<1>1. EventsOf(ws) \subseteq Event
  BY DEF EventsOf, Write
<1>2. sessions \subseteq Session
  BY <1>1 DEF EventsOf, Write, Event
<1>3. PICK s \in (IF sessions = {} THEN {base.session} ELSE sessions) :
          from = [base EXCEPT !.session = s, !.events = base.events \cup EventsOf(ws)]
  BY DEF After, EventsOf
<1>4. s \in Session \cup {None}
  BY <1>2, <1>3 DEF StoreType
<1> QED BY <1>1, <1>3, <1>4 DEF StoreType

\* A store is what it was, or empty, with some of what was to be written.
LEMMA StoresType ==
    ASSUME store \in StoreType, writes \subseteq Write, NEW done \in SUBSET writes, NEW from \in Stores(done)
    PROVE  /\ from \in StoreType /\ from.cursor \in {store.cursor, None}
           /\ Wipe \notin done => from.events = store.events \cup EventsOf(done)
<1>1. EmptyStore \in StoreType /\ EmptyStore.cursor = None
  BY DEF EmptyStore, StoreType
<1>2. CASE Wipe \notin done
  BY <1>2, AfterStores DEF Stores
<1>3. CASE Wipe \in done
  <2>1. PICK later \in SUBSET (done \ {Wipe}) : from \in After(EmptyStore, later)
    BY <1>3 DEF Stores
  <2> QED BY <2>1, <1>1, <1>3, AfterStores
<1> QED BY <1>2, <1>3

\* loadRoom gives a room the events of one session, in order.
LEMMA HydratedRoom ==
    ASSUME NEW r, NEW from \in StoreType, r.history = << >>,
           r \in [inHub : BOOLEAN, session : Session \cup {None}, history : Seq(Event),
                  server : Nat, ready : BOOLEAN, retained : BOOLEAN, expired : BOOLEAN]
    PROVE  LET h == Hydrated(r, from)
           IN  /\ h = [r EXCEPT !.session = from.session, !.history = h.history]
               /\ h.history \in Seq(Event) /\ Range(h.history) \subseteq from.events
               /\ \A i \in DOMAIN h.history : h.history[i][1] = from.session
               /\ \A i, j \in DOMAIN h.history : i < j => h.history[i][2] < h.history[j][2]
               /\ from.session = None => h.history = << >>
<1> DEFINE S == {e \in from.events : e[1] = from.session}
<1>1. S \in SUBSET Event
  BY DEF StoreType
<1>2. \A d, e \in S : d[2] = e[2] => d = e
  BY <1>1 DEF Event
<1>3. /\ InOrder(S) \in Seq(Event) /\ Range(InOrder(S)) = S
      /\ \A i, j \in DOMAIN InOrder(S) : i < j => InOrder(S)[i][2] < InOrder(S)[j][2]
  BY <1>1, <1>2, OrderedEvents
<1>4. Hydrated(r, from) = [r EXCEPT !.session = from.session, !.history = InOrder(S)]
  BY DEF Hydrated
<1> HIDE DEF S
<1>5. \A i \in DOMAIN InOrder(S) : InOrder(S)[i] \in S
  BY <1>3 DEF Range
<1>6. from.session = None => InOrder(S) = << >>
  <2>1. from.session = None => S = {}
    BY <1>1, RelayAssumption DEF S, Event
  <2>2. S = {} => DOMAIN InOrder(S) = {}
    BY <1>5
  <2>3. DOMAIN InOrder(S) = {} => InOrder(S) = << >>
    BY <1>3
  <2> QED BY <2>1, <2>2, <2>3
<1>7. Hydrated(r, from).history = InOrder(S) /\ Hydrated(r, from).session = from.session
  BY <1>4
<1> QED BY <1>3, <1>4, <1>5, <1>6, <1>7 DEF S

-----------------------------------------------------------------------------
(* Types *)

RoomType ==
    [inHub : BOOLEAN, session : Session \cup {None}, history : Seq(Event),
     server : Nat, ready : BOOLEAN, retained : BOOLEAN, expired : BOOLEAN]

\* The parts of the type invariant by themselves.
LEMMA Rooms == TypeOK => room \in RoomType /\ link \in Nat /\ oldLink \in Nat /\ faults \in Nat /\ store \in StoreType
BY RelayAssumption DEF TypeOK, RoomType, StoreType

\* Binding a session keeps all of a room but its session and its history.
LEMMA BoundRoom ==
    ASSUME NEW s \in Session, NEW replace \in BOOLEAN, TypeOK
    PROVE  LET r == Bound(room, s, replace)
           IN  /\ r = [room EXCEPT !.session = s, !.history = r.history]
               /\ r.session = s /\ r.history \in {<< >>, room.history} /\ r.history \in Seq(Event)
               /\ room.session # s => r.history = << >>
BY DEF TypeOK, Bound

\* What a connection of the host sends changes the session, the history or the mark of a
\* ready host, and only if the connection is the room's.
LEMMA EventRoom ==
    ASSUME TypeOK, NEW from, NEW e \in Event, OnEvent(from, e)
    PROVE  /\ room' = [room EXCEPT !.session = e[1], !.history = room'.history]
           /\ room'.history \in Seq(Event) /\ e[1] \in Session
           /\ room.server = from
<1>1. e[1] \in Session
  BY DEF Event
<1> DEFINE r == Bound(room, e[1], FALSE)
<1>2. r = [room EXCEPT !.session = e[1], !.history = r.history] /\ r.session = e[1] /\ r.history \in Seq(Event)
  BY <1>1, BoundRoom
<1> HIDE DEF r
<1>3. room' \in {r, [r EXCEPT !.history = Append(r.history, e)]} /\ room.server = from
  BY DEF OnEvent, r
<1>4. room.history \in Seq(Event) /\ room \in RoomType
  BY DEF TypeOK, RoomType
<1>5. Append(r.history, e) \in Seq(Event)
  BY <1>2
<1>6. CASE room' = r
  BY <1>1, <1>2, <1>3, <1>6
<1>7. CASE room' = [r EXCEPT !.history = Append(r.history, e)]
  BY <1>1, <1>2, <1>3, <1>4, <1>5, <1>7 DEF RoomType
<1> QED BY <1>3, <1>6, <1>7

\* A frame is read from the connection the room has for its host, and changes no more than
\* the session, the history and whether it is ready.
LEMMA ReadRoom ==
    ASSUME TypeOK, Links, NEW from \in {link, oldLink}, Read(from)
    PROVE  /\ \E s \in Session \cup {None}, h \in Seq(Event), ready \in BOOLEAN :
                  room' = [room EXCEPT !.session = s, !.history = h, !.ready = ready]
           /\ room.server = from /\ from # 0
<1>1. from # 0
  BY Rooms DEF Read, Links, TypeOK
<1>2. room \in RoomType
  BY Rooms
<1>3. ASSUME NEW e \in Event, OnEvent(from, e)
      PROVE  /\ room' = [room EXCEPT !.session = e[1], !.history = room'.history, !.ready = room.ready]
             /\ room'.history \in Seq(Event) /\ e[1] \in Session /\ room.server = from
  BY <1>2, <1>3, EventRoom DEF RoomType
<1>4. ASSUME NEW s \in Session, NEW replace \in BOOLEAN, OnActiveSession(from, s, replace)
      PROVE  /\ room' = [room EXCEPT !.session = s, !.history = room'.history, !.ready = room.ready]
             /\ room'.history \in Seq(Event) /\ room.server = from
  <2> DEFINE r == Bound(room, s, replace)
  <2>1. r = [room EXCEPT !.session = s, !.history = r.history] /\ r.history \in Seq(Event)
    BY BoundRoom
  <2>2. room' = r /\ room.server = from
    BY <1>4 DEF OnActiveSession
  <2> HIDE DEF r
  <2> QED BY <1>2, <2>1, <2>2 DEF RoomType
<1>5. ASSUME OnServerReady(from)
      PROVE  /\ room' = [room EXCEPT !.session = room.session, !.history = room.history, !.ready = TRUE]
             /\ room.server = from
  BY <1>2, <1>5 DEF RoomType, OnServerReady
<1>6. room.session \in Session \cup {None} /\ room.history \in Seq(Event) /\ room.ready \in BOOLEAN
  BY <1>2 DEF RoomType
<1> DEFINE Change(s, h, ready) == room' = [room EXCEPT !.session = s, !.history = h, !.ready = ready]
           Changed == \E s \in Session \cup {None}, h \in Seq(Event), ready \in BOOLEAN : Change(s, h, ready)
<1>7. ASSUME NEW e \in Event, OnEvent(from, e) PROVE Changed /\ room.server = from
  <2>1. Change(e[1], room'.history, room.ready) /\ e[1] \in Session \cup {None}
        /\ room'.history \in Seq(Event) /\ room.server = from
    BY <1>3, <1>7
  <2> HIDE DEF Change
  <2> QED BY <1>6, <2>1
<1>8. ASSUME NEW s \in Session, NEW replace \in BOOLEAN, OnActiveSession(from, s, replace)
      PROVE  Changed /\ room.server = from
  <2>1. Change(s, room'.history, room.ready) /\ room'.history \in Seq(Event) /\ room.server = from
    BY <1>4, <1>8
  <2> HIDE DEF Change
  <2> QED BY <1>6, <2>1
<1>9. ASSUME OnServerReady(from) PROVE Changed /\ room.server = from
  <2>1. Change(room.session, room.history, TRUE) /\ room.server = from
    BY <1>5, <1>9
  <2> HIDE DEF Change
  <2> QED BY <1>6, <2>1
<1>10. Changed /\ room.server = from
  <2> HIDE DEF Changed
  <2> QED BY <1>7, <1>8, <1>9 DEF Read
<1> QED BY <1>1, <1>10 DEF Changed

LEMMA ReadType ==
    ASSUME TypeOK, Links, NEW from \in {link, oldLink}, Read(from)
    PROVE  TypeOK'
<1>1. PICK s \in Session \cup {None}, h \in Seq(Event), ready \in BOOLEAN :
          room' = [room EXCEPT !.session = s, !.history = h, !.ready = ready]
  BY ReadRoom
<1>2. room.server = from /\ from # 0
  BY ReadRoom
<1>3. /\ room'.ready => room'.server # 0
      /\ room' \in [inHub : BOOLEAN, session : Session \cup {None}, history : Seq(Event),
                    server : 0 .. link, ready : BOOLEAN, retained : BOOLEAN, expired : BOOLEAN]
  BY <1>1, <1>2 DEF TypeOK
<1>4. UNCHANGED <<hostLink, store, emptied>> /\ faults' \in 0 .. MaxFaults
  BY RelayAssumption DEF Read, Faulty, TypeOK
<1> DEFINE Rest == /\ writes' \subseteq Write /\ known' \in Session \cup {None} /\ got' \subseteq Event
                   /\ gapped' = gapped /\ unstored' \in BOOLEAN /\ peer' = peer
<1>5. Rest
  <2>1. ASSUME NEW e \in Event, OnEvent(from, e) PROVE Rest
    <3>1. unstored' \in BOOLEAN
      BY <2>1, Zenon DEF OnEvent
    <3>2. writes' \subseteq writes \cup {[kind |-> "event", event |-> e]} /\ got' \subseteq got \cup {e}
      BY <2>1, Zenon DEF OnEvent, Persist
    <3>3. UNCHANGED <<peer, known, gapped>>
      BY <2>1, Zenon DEF OnEvent
    <3> QED BY <3>1, <3>2, <3>3 DEF Write, TypeOK
  <2>2. ASSUME NEW t \in Session, NEW replace \in BOOLEAN, OnActiveSession(from, t, replace)
        PROVE Rest
    BY <2>2 DEF OnActiveSession, Write, TypeOK
  <2>3. ASSUME OnServerReady(from) PROVE Rest
    BY <2>3 DEF OnServerReady, client, TypeOK
  <2> QED BY <2>1, <2>2, <2>3 DEF Read
<1> QED BY <1>3, <1>4, <1>5 DEF TypeOK, hostLink

\* A history without positions is empty.
LEMMA NoEvents == \A h \in Seq(Event) : DOMAIN h = {} => h = << >>
OBVIOUS

\* A room without session has no history, and one that is restored has what was stored of
\* one session, in order.
LEMMA HelloRoom ==
    ASSUME TypeOK, OneSession, Hello
    PROVE  \/ room.inHub /\ UNCHANGED <<room, store, writes, gapped, unstored>>
           \/ \E done \in SUBSET writes :
                /\ writes' = writes \ done /\ store' \in Stores(done) /\ store' \in StoreType
                /\ LET r == IF room.inHub THEN room ELSE [EmptyRoom EXCEPT !.inHub = TRUE]
                   IN  room' = [r EXCEPT !.session = store'.session, !.history = room'.history]
                /\ room'.history \in Seq(Event) /\ Range(room'.history) \subseteq store'.events
                /\ \A i \in DOMAIN room'.history : room'.history[i][1] = room'.session
                /\ \A i, j \in DOMAIN room'.history : i < j => room'.history[i][2] < room'.history[j][2]
                /\ room'.session = None => room'.history = << >>
                /\ store'.cursor \in {store.cursor, None}
                /\ room.inHub => room.session = None /\ room.history = << >>
                /\ gapped' = IF room.ready \/ Attached # {}
                             THEN gapped \cup ({room'.session} \ {None}) ELSE gapped
                /\ unstored' = (unstored \/ (Wipe \in writes' /\ room'.history # << >>))
<1>1. CASE room.inHub /\ room.session # None
  BY <1>1 DEF Hello
<1>2. CASE ~(room.inHub /\ room.session # None)
  <2> DEFINE r == IF room.inHub THEN room ELSE [EmptyRoom EXCEPT !.inHub = TRUE]
  <2>1. PICK done \in SUBSET writes :
            /\ writes' = writes \ done /\ store' \in Stores(done) /\ room' = Hydrated(r, store')
            /\ gapped' = IF room.ready \/ Attached # {}
                         THEN gapped \cup ({room'.session} \ {None}) ELSE gapped
            /\ unstored' = (unstored \/ (Wipe \in writes' /\ room'.history # << >>))
    BY <1>2 DEF Hello
  <2>2. store' \in StoreType /\ store'.cursor \in {store.cursor, None}
    BY <2>1, StoresType, Rooms DEF TypeOK
  <2>3. room.inHub => room.session = None /\ room.history = << >>
    <3>1. ASSUME room.inHub PROVE room.session = None /\ DOMAIN room.history = {}
      BY <1>2, <3>1, RelayAssumption DEF TypeOK, OneSession, Event
    <3>2. room.history \in Seq(Event)
      BY DEF TypeOK
    <3> HIDE DEF r
    <3> QED BY <3>1, <3>2, NoEvents
  <2>4. r \in RoomType /\ r.history = << >> /\ r.session = None
    <3>1. CASE room.inHub
      <4> r = room
        BY <3>1
      <4> HIDE DEF r
      <4> QED BY <3>1, <2>3, Rooms
    <3>2. CASE ~room.inHub
      <4> r = [EmptyRoom EXCEPT !.inHub = TRUE]
        BY <3>2
      <4> HIDE DEF r
      <4>1. EmptyRoom \in RoomType /\ EmptyRoom.history = << >> /\ EmptyRoom.session = None
        BY DEF RoomType, EmptyRoom
      <4> HIDE DEF EmptyRoom
      <4> QED BY <4>1 DEF RoomType
    <3> QED BY <3>1, <3>2
  <2> HIDE DEF r
  <2> DEFINE h == Hydrated(r, store')
  <2>5. /\ h = [r EXCEPT !.session = store'.session, !.history = h.history]
        /\ h.history \in Seq(Event) /\ Range(h.history) \subseteq store'.events
        /\ \A i \in DOMAIN h.history : h.history[i][1] = store'.session
        /\ \A i, j \in DOMAIN h.history : i < j => h.history[i][2] < h.history[j][2]
        /\ store'.session = None => h.history = << >>
    BY <2>2, <2>4, HydratedRoom DEF RoomType
  <2>6. room' = h
    BY <2>1
  <2> HIDE DEF h
  <2>7. room'.session = store'.session
    BY <2>4, <2>5, <2>6 DEF RoomType
  <2> QED BY <2>1, <2>2, <2>3, <2>5, <2>6, <2>7 DEF r
<1> QED BY <1>1, <1>2

\* The parts of TypeOK.
RoomTyped ==
    /\ room.ready => room.server # 0
    /\ room \in [inHub : BOOLEAN, session : Session \cup {None}, history : Seq(Event),
                 server : 0 .. link, ready : BOOLEAN, retained : BOOLEAN, expired : BOOLEAN]

PeersTyped ==
    /\ peer \in [Peer -> [phase : {"none", "joined", "resumed", "ready", "gone", "stopped"},
                          live : BOOLEAN, cursor : Event \cup {None}]]
    /\ known \in Session \cup {None}
    /\ got \subseteq Event /\ gapped \subseteq Session

LinkTyped ==
    /\ link \in 0 .. MaxFaults + 1 /\ oldLink \in 0 .. link
    /\ phase \in {"down", "hello", "taking", "up", "stopped"}
    /\ leaving \in BOOLEAN /\ emptied \in BOOLEAN
    /\ unstored \in BOOLEAN /\ faults \in 0 .. MaxFaults

StoreTyped == store \in StoreType /\ writes \subseteq Write

\* The type invariant in four parts, so that a step need only look at those it changes.
LEMMA Typed == TypeOK <=> RoomTyped /\ PeersTyped /\ LinkTyped /\ StoreTyped
BY DEF TypeOK, RoomTyped, PeersTyped, LinkTyped, StoreTyped, StoreType

LEMMA TypedNext == TypeOK' <=> RoomTyped' /\ PeersTyped' /\ LinkTyped' /\ StoreTyped'
BY DEF TypeOK, RoomTyped, PeersTyped, LinkTyped, StoreTyped, StoreType

\* Each operation keeps the types.
LEMMA HelloType ==
    ASSUME TypeOK, Links, OneSession, Hello
    PROVE  TypeOK'
<1>1. link' = link + 1 /\ link' \in 0 .. MaxFaults + 1 /\ oldLink' \in 0 .. link' /\ link \in Nat
  BY RelayAssumption DEF Hello, TypeOK, Links
<1>2. phase' = "hello" /\ emptied' = FALSE /\ UNCHANGED <<oldLink, leaving, peer, known, got, faults>>
  BY DEF Hello
<1>3. unstored' \in BOOLEAN /\ gapped' \subseteq gapped \cup ({room'.session} \ {None})
  BY Zenon DEF Hello, TypeOK
<1>4. /\ room'.ready => room'.server # 0
      /\ room' \in [inHub : BOOLEAN, session : Session \cup {None}, history : Seq(Event),
                    server : 0 .. link', ready : BOOLEAN, retained : BOOLEAN, expired : BOOLEAN]
      /\ store' \in StoreType /\ writes' \subseteq Write
  <2>1. CASE UNCHANGED <<room, store, writes>>
    BY <1>1, <2>1, Rooms DEF TypeOK
  <2>2. ASSUME NEW done \in SUBSET writes, writes' = writes \ done, store' \in StoreType,
               room'.history \in Seq(Event),
               room' = [IF room.inHub THEN room ELSE [EmptyRoom EXCEPT !.inHub = TRUE] EXCEPT
                           !.session = store'.session, !.history = room'.history]
        PROVE  <1>4!1 /\ <1>4!2 /\ <1>4!3
    <3>1. CASE room.inHub
      <4>1. room' = [room EXCEPT !.session = store'.session, !.history = room'.history]
        BY <2>2, <3>1
      <4>2. store'.session \in Session \cup {None}
        BY <2>2 DEF StoreType
      <4>3. /\ room.ready => room.server # 0
            /\ room \in [inHub : BOOLEAN, session : Session \cup {None}, history : Seq(Event),
                         server : 0 .. link', ready : BOOLEAN, retained : BOOLEAN, expired : BOOLEAN]
        BY <1>1 DEF TypeOK
      <4> QED BY <2>2, <4>1, <4>2, <4>3, TypeOK DEF TypeOK
    <3>2. CASE ~room.inHub
      <4>1. room' = [EmptyRoom EXCEPT !.inHub = TRUE, !.session = store'.session, !.history = room'.history]
        BY <2>2, <3>2 DEF EmptyRoom
      <4>2. store'.session \in Session \cup {None}
        BY <2>2 DEF StoreType
      <4>3. /\ EmptyRoom.ready = FALSE
            /\ EmptyRoom \in [inHub : BOOLEAN, session : Session \cup {None}, history : Seq(Event),
                              server : 0 .. link', ready : BOOLEAN, retained : BOOLEAN, expired : BOOLEAN]
        BY <1>1 DEF EmptyRoom
      <4> HIDE DEF EmptyRoom
      <4> QED BY <2>2, <4>1, <4>2, <4>3 DEF TypeOK
    <3> QED BY <3>1, <3>2
  <2> QED BY <2>1, <2>2, HelloRoom
<1>5. room'.session \in Session \cup {None}
  BY <1>4
<1>6. gapped' \subseteq Session
  BY <1>3, <1>5 DEF TypeOK
<1>7. PeersTyped' /\ LinkTyped'
  BY <1>1, <1>2, <1>3, <1>6 DEF TypeOK, PeersTyped, LinkTyped
<1> QED BY <1>4, <1>7, TypedNext DEF RoomTyped, StoreTyped

LEMMA HostType ==
    ASSUME TypeOK, Links, StopSharing \/ Detach \/ Retain \/ TakeOver \/ Register \/ HostDrop \/ PersistFails
    PROVE  TypeOK'
<1> USE Typed
<1>1. CASE StopSharing
  <2>1. RoomTyped'
    BY <1>1 DEF RoomTyped, StopSharing, EmptyRoom, LinkTyped
  <2>2. PeersTyped'
    BY <1>1 DEF PeersTyped, StopSharing, Closed, NoPeer
  <2>3. LinkTyped'
    BY <1>1 DEF LinkTyped, StopSharing
  <2>4. StoreTyped'
    BY <1>1 DEF StoreTyped, StopSharing, Wipe, Write
  <2> QED BY <2>1, <2>2, <2>3, <2>4, TypedNext
<1>2. CASE Detach
  <2>1. RoomTyped'
    <3>1. link' = link /\ room' \in {room, [room EXCEPT !.server = 0, !.ready = FALSE]} /\ 0 \in 0 .. link
      BY <1>2, Rooms DEF Detach
    <3> QED BY <3>1 DEF RoomTyped
  <2>2. PeersTyped'
    BY <1>2 DEF PeersTyped, Detach, client
  <2>3. LinkTyped'
    <3>1. oldLink' = 0 /\ UNCHANGED <<link, phase, unstored, emptied, faults>>
      BY <1>2 DEF Detach
    <3>2. leaving' \in BOOLEAN
      BY <1>2, Zenon DEF LinkTyped, Detach
    <3> QED BY <3>1, <3>2, Rooms DEF LinkTyped
  <2>4. StoreTyped'
    BY <1>2 DEF StoreTyped, Detach
  <2> QED BY <2>1, <2>2, <2>3, <2>4, TypedNext
<1>3. CASE Retain
  <2>1. RoomTyped'
    BY <1>3 DEF RoomTyped, Retain
  <2>2. PeersTyped'
    BY <1>3 DEF PeersTyped, Retain, client
  <2>3. LinkTyped'
    BY <1>3 DEF LinkTyped, Retain
  <2>4. StoreTyped'
    BY <1>3 DEF StoreTyped, Retain
  <2> QED BY <2>1, <2>2, <2>3, <2>4, TypedNext
<1>4. CASE TakeOver
  <2>1. RoomTyped'
    <3>1. link' = link /\ room' \in {room, [room EXCEPT !.server = 0, !.ready = FALSE]} /\ 0 \in 0 .. link
      BY <1>4, Rooms DEF TakeOver
    <3> QED BY <3>1 DEF RoomTyped
  <2>2. PeersTyped'
    BY <1>4 DEF PeersTyped, TakeOver, client
  <2>3. LinkTyped'
    BY <1>4 DEF LinkTyped, TakeOver
  <2>4. StoreTyped'
    BY <1>4 DEF StoreTyped, TakeOver
  <2> QED BY <2>1, <2>2, <2>3, <2>4, TypedNext
<1>5. CASE Register
  <2>1. RoomTyped'
    <3>1. /\ link' = link /\ link \in 0 .. link
          /\ room' \in {room, [room EXCEPT !.server = link, !.ready = FALSE, !.retained = FALSE]}
      BY <1>5, Rooms DEF Register
    <3> QED BY <3>1 DEF RoomTyped
  <2>2. PeersTyped'
    BY <1>5 DEF PeersTyped, Register, client
  <2>3. LinkTyped'
    BY <1>5 DEF LinkTyped, Register
  <2>4. StoreTyped'
    BY <1>5 DEF StoreTyped, Register
  <2> QED BY <2>1, <2>2, <2>3, <2>4, TypedNext
<1>6. CASE HostDrop
  <2>1. RoomTyped'
    BY <1>6 DEF RoomTyped, HostDrop
  <2>2. PeersTyped'
    BY <1>6 DEF PeersTyped, HostDrop, client
  <2>3. LinkTyped'
    BY <1>6, RelayAssumption DEF LinkTyped, HostDrop, Faulty, LoseLink
  <2>4. StoreTyped'
    BY <1>6 DEF StoreTyped, HostDrop
  <2> QED BY <2>1, <2>2, <2>3, <2>4, TypedNext
<1>7. CASE PersistFails
  <2>1. RoomTyped'
    BY <1>7 DEF RoomTyped, PersistFails
  <2>2. PeersTyped'
    BY <1>7 DEF PeersTyped, PersistFails, client
  <2>3. LinkTyped'
    BY <1>7, RelayAssumption DEF LinkTyped, PersistFails, Faulty, LoseLink
  <2>4. StoreTyped'
    BY <1>7 DEF StoreTyped, PersistFails
  <2> QED BY <2>1, <2>2, <2>3, <2>4, TypedNext
<1> QED BY <1>1, <1>2, <1>3, <1>4, <1>5, <1>6, <1>7

LEMMA RelayType ==
    ASSUME TypeOK, Expire \/ Restart
    PROVE  TypeOK'
<1> USE Typed
<1>1. CASE Expire
  <2>1. RoomTyped'
    <3>1. link' = link /\ 0 \in 0 .. link /\ room' = [EmptyRoom EXCEPT !.expired = TRUE]
      BY <1>1, Rooms DEF Expire, hostLink
    <3>2. /\ EmptyRoom.ready = FALSE
          /\ EmptyRoom \in [inHub : BOOLEAN, session : Session \cup {None}, history : Seq(Event),
                            server : 0 .. link, ready : BOOLEAN, retained : BOOLEAN, expired : BOOLEAN]
      BY <3>1 DEF EmptyRoom
    <3> QED BY <3>1, <3>2 DEF RoomTyped
  <2>2. PeersTyped'
    BY <1>1 DEF PeersTyped, Expire, Closed, NoPeer
  <2>3. LinkTyped'
    BY <1>1, RelayAssumption DEF LinkTyped, Expire, Faulty, hostLink
  <2>4. StoreTyped'
    BY <1>1 DEF StoreTyped, Expire, Wipe, Write
  <2> QED BY <2>1, <2>2, <2>3, <2>4, TypedNext
<1>2. CASE Restart
  <2>1. RoomTyped'
    BY <1>2 DEF RoomTyped, Restart, EmptyRoom, LinkTyped
  <2>2. PeersTyped'
    BY <1>2 DEF PeersTyped, Restart, Closed, NoPeer
  <2>3. LinkTyped'
    <3>1. phase' \in {phase, "down"} /\ oldLink' = 0 /\ leaving' = FALSE /\ UNCHANGED <<link, unstored, emptied>>
          /\ faults < MaxFaults /\ faults' = faults + 1
      BY <1>2 DEF Restart, Faulty
    <3>2. LinkTyped /\ link \in Nat
      BY Rooms
    <3>3. phase' \in {"down", "hello", "taking", "up", "stopped"} /\ oldLink' \in 0 .. link
      BY <3>1, <3>2 DEF LinkTyped
    <3>4. faults' \in 0 .. MaxFaults
      BY <3>1, <3>2, RelayAssumption DEF LinkTyped
    <3> QED BY <3>1, <3>2, <3>3, <3>4 DEF LinkTyped
  <2>4. StoreTyped'
    BY <1>2, StoresType, Rooms DEF Restart, StoreTyped
  <2> QED BY <2>1, <2>2, <2>3, <2>4, TypedNext
<1> QED BY <1>1, <1>2

LEMMA ResumeType ==
    ASSUME TypeOK, NEW c \in Peer, NEW cursor \in Event \cup {None}, OnResume(c, cursor)
    PROVE  PeersTyped'
<1>1. \E kept \in {cursor, None} : peer' = [peer EXCEPT ![c].phase = "resumed", ![c].cursor = kept]
  BY DEF OnResume
<1>2. known' \in {room.session, known} /\ UNCHANGED <<got, gapped>>
  BY DEF OnResume
<1>3. peer \in [Peer -> [phase : {"none", "joined", "resumed", "ready", "gone", "stopped"},
                        live : BOOLEAN, cursor : Event \cup {None}]]
  BY Typed DEF PeersTyped
<1>4. peer' \in [Peer -> [phase : {"none", "joined", "resumed", "ready", "gone", "stopped"},
                         live : BOOLEAN, cursor : Event \cup {None}]]
  <2>1. PICK kept \in {cursor, None} : peer' = [peer EXCEPT ![c].phase = "resumed", ![c].cursor = kept]
    BY <1>1
  <2> DEFINE p == [peer[c] EXCEPT !.phase = "resumed", !.cursor = kept]
  <2>2. p \in [phase : {"none", "joined", "resumed", "ready", "gone", "stopped"},
               live : BOOLEAN, cursor : Event \cup {None}]
    BY <1>3
  <2>3. peer' = [peer EXCEPT ![c] = p]
    BY <1>3, <2>1
  <2> HIDE DEF p
  <2> QED BY <1>3, <2>2, <2>3
<1> QED BY <1>2, <1>4, Typed DEF PeersTyped, RoomTyped

\* A replay sends what follows the cursor, and notes the session if that is not all of it.
LEMMA Replayed ==
    ASSUME TypeOK, OneSession, NEW c \in Peer, FinishResume(c)
    PROVE  LET cursor == peer[c].cursor
               replay == EventsAfter(room.history, cursor)
               foreign == cursor # None /\ replay # room.history /\ <<room.session, Ordinal(cursor)>> # cursor
           IN  /\ got \subseteq got' /\ gapped \subseteq gapped'
               /\ got' \subseteq got \cup Range(room.history) /\ gapped' \subseteq gapped \cup {room.session}
               /\ room.session \in Session \/ gapped' = gapped
               /\ room.session \in gapped' \/ (~foreign /\ got' = got \cup Range(replay))
<1> DEFINE cursor == peer[c].cursor
           replay == EventsAfter(room.history, cursor)
           foreign == cursor # None /\ replay # room.history /\ <<room.session, Ordinal(cursor)>> # cursor
<1>1. PICK k \in 0 .. Len(replay) :
          /\ got' = got \cup Range(SubSeq(replay, 1, k))
          /\ gapped' = IF k < Len(replay) \/ foreign THEN gapped \cup {room.session} ELSE gapped
  BY DEF FinishResume
<1>2. replay \in Seq(Event) /\ Range(replay) \subseteq Range(room.history) /\ room.history \in Seq(Event)
  BY Replays DEF TypeOK
<1>3. room.history = << >> => replay = room.history
  BY DEF EventsAfter
<1>4. room.history # << >> => room.session \in Session
  <2>1. room.history # << >> => 1 \in DOMAIN room.history /\ room.history[1] \in Event
    BY <1>2
  <2> QED BY <2>1 DEF OneSession, Event
<1> HIDE DEF replay
<1>5. Range(SubSeq(replay, 1, k)) \subseteq Range(replay) /\ (k = Len(replay) => Range(SubSeq(replay, 1, k)) = Range(replay))
  <2>1. Len(replay) \in Nat /\ k \in Nat /\ k <= Len(replay)
    BY <1>2
  <2>2. SubSeq(replay, 1, k) = [i \in 1 .. k |-> replay[i]]
    BY <1>2, <2>1
  <2>3. DOMAIN replay = 1 .. Len(replay)
    BY <1>2
  <2>4. \A i \in 1 .. k : i \in DOMAIN replay
    BY <2>1, <2>3
  <2>5. Range(SubSeq(replay, 1, k)) \subseteq Range(replay)
    BY <2>2, <2>4 DEF Range
  <2>6. k = Len(replay) => SubSeq(replay, 1, k) = replay
    BY <1>2
  <2> QED BY <2>5, <2>6
<1>6. CASE k < Len(replay) \/ foreign
  <2>1. room.history # << >>
    BY <1>2, <1>3, <1>6
  <2> QED BY <1>1, <1>2, <1>4, <1>5, <1>6, <2>1
<1>7. CASE ~(k < Len(replay) \/ foreign)
  <2>1. k = Len(replay)
    BY <1>2, <1>7
  <2> QED BY <1>1, <1>2, <1>5, <1>7, <2>1 DEF replay
<1> QED BY <1>6, <1>7

LEMMA ClientType ==
    ASSUME TypeOK, OneSession, NEW c \in Peer,
           Join(c) \/ ResumeFrom(c) \/ ResumeHello(c) \/ FinishResume(c) \/ DetachClient(c) \/ ClientDrop(c)
    PROVE  TypeOK'
<1> USE Typed
<1>1. CASE Join(c)
  <2>1. RoomTyped'
    BY <1>1 DEF RoomTyped, Join, hostLink
  <2>2. PeersTyped'
    BY <1>1 DEF PeersTyped, Join, NoPeer
  <2>3. LinkTyped'
    BY <1>1 DEF LinkTyped, Join, hostLink
  <2>4. StoreTyped'
    BY <1>1 DEF StoreTyped, Join
  <2> QED BY <2>1, <2>2, <2>3, <2>4, TypedNext
<1>2. CASE ResumeFrom(c)
  <2>1. RoomTyped'
    BY <1>2 DEF RoomTyped, ResumeFrom, OnResume, hostLink
  <2>2. PeersTyped'
    <3>1. PICK cursor \in Claimed : OnResume(c, cursor)
      BY <1>2 DEF ResumeFrom
    <3>2. cursor \in Event \cup {None}
      BY DEF PeersTyped, Claimed
    <3> QED BY <3>1, <3>2, ResumeType
  <2>3. LinkTyped'
    BY <1>2 DEF LinkTyped, ResumeFrom, OnResume, hostLink
  <2>4. StoreTyped'
    BY <1>2 DEF StoreTyped, ResumeFrom, OnResume
  <2> QED BY <2>1, <2>2, <2>3, <2>4, TypedNext
<1>3. CASE ResumeHello(c)
  <2>1. RoomTyped'
    BY <1>3 DEF RoomTyped, ResumeHello, OnResume, hostLink
  <2>2. PeersTyped'
    <3>1. PICK cursor \in SavedCursor : OnResume(c, cursor)
      BY <1>3 DEF ResumeHello
    <3>2. cursor \in Event \cup {None}
      BY DEF PeersTyped, SavedCursor, StoreTyped, StoreType
    <3> QED BY <3>1, <3>2, ResumeType
  <2>3. LinkTyped'
    BY <1>3 DEF LinkTyped, ResumeHello, OnResume, hostLink
  <2>4. StoreTyped'
    BY <1>3 DEF StoreTyped, PeersTyped, StoreType, ResumeHello, OnResume, SavedCursor
  <2> QED BY <2>1, <2>2, <2>3, <2>4, TypedNext
<1>4. CASE FinishResume(c)
  <2>1. RoomTyped'
    BY <1>4 DEF RoomTyped, FinishResume, hostLink
  <2>2. PeersTyped'
    <3>1. got' \subseteq got \cup Range(room.history) /\ gapped' \subseteq gapped \cup {room.session}
          /\ (room.session \in Session \/ gapped' = gapped)
      BY <1>4, Replayed
    <3>2. Range(room.history) \subseteq Event
      BY DEF RoomTyped, Range
    <3> QED BY <3>1, <3>2, <1>4 DEF PeersTyped, FinishResume
  <2>3. LinkTyped'
    BY <1>4 DEF LinkTyped, FinishResume, hostLink
  <2>4. StoreTyped'
    BY <1>4 DEF StoreTyped, FinishResume
  <2> QED BY <2>1, <2>2, <2>3, <2>4, TypedNext
<1>5. CASE DetachClient(c)
  <2>1. RoomTyped'
    BY <1>5 DEF RoomTyped, DetachClient, hostLink
  <2>2. PeersTyped'
    BY <1>5 DEF PeersTyped, DetachClient, NoPeer
  <2>3. LinkTyped'
    BY <1>5 DEF LinkTyped, DetachClient, hostLink
  <2>4. StoreTyped'
    BY <1>5 DEF StoreTyped, DetachClient, Wipe, Write
  <2> QED BY <2>1, <2>2, <2>3, <2>4, TypedNext
<1>6. CASE ClientDrop(c)
  <2>1. RoomTyped'
    BY <1>6 DEF RoomTyped, ClientDrop, hostLink
  <2>2. PeersTyped'
    BY <1>6 DEF PeersTyped, ClientDrop
  <2>3. LinkTyped'
    BY <1>6, RelayAssumption DEF LinkTyped, ClientDrop, Faulty, hostLink
  <2>4. StoreTyped'
    BY <1>6 DEF StoreTyped, ClientDrop
  <2> QED BY <2>1, <2>2, <2>3, <2>4, TypedNext
<1> QED BY <1>1, <1>2, <1>3, <1>4, <1>5, <1>6

-----------------------------------------------------------------------------
(* The host and its room *)

\* What the host's invariant is about, in a room of its type.
LEMMA Place ==
    ASSUME TypeOK
    PROVE  /\ room.server \in Nat /\ room.server <= link /\ room.inHub \in BOOLEAN /\ room.expired \in BOOLEAN
           /\ \A s, h, ready : LET r == [room EXCEPT !.session = s, !.history = h, !.ready = ready]
                               IN  r.server = room.server /\ r.inHub = room.inHub /\ r.expired = room.expired
BY Rooms DEF TypeOK, RoomType

\* A step that leaves room and host alone keeps what is claimed of them.
LEMMA KeepsHostInv ==
    ASSUME TypeOK, HostInv, UNCHANGED <<hostLink, emptied>>, faults' \in {faults, faults + 1},
           room'.server = room.server, room'.inHub = room.inHub, room'.expired = room.expired
    PROVE  HostInv'
<1>1. link \in Nat /\ faults \in Nat
  BY Rooms
<1>2. link' = link /\ phase' = phase /\ oldLink' = oldLink /\ emptied' = emptied
  BY DEF hostLink
<1>3. faults' \in Nat /\ faults <= faults'
  BY <1>1
<1>4. Links /\ Handshake /\ HostHasRoom
  BY DEF HostInv
<1>5. (room'.expired <=> room.expired) /\ (room'.inHub <=> room.inHub) /\ room'.server = room.server
  OBVIOUS
<1>6. Links'
  <2>1. link <= faults + 1 /\ (phase = "down" \/ room.expired => link <= faults)
    BY <1>4 DEF Links
  <2>2. link' <= faults' + 1
    <3> DEFINE n == faults
               m == faults'
    <3>1. link \in Nat /\ n \in Nat /\ m \in Nat /\ n <= m /\ link <= n + 1
      BY <1>1, <1>3, <2>1
    <3> HIDE DEF n, m
    <3>2. link <= m + 1
      BY <3>1
    <3> QED BY <3>2, <1>2 DEF m
  <2>3. phase' = "down" \/ room'.expired => link' <= faults'
    BY <1>1, <1>2, <1>3, <1>5, <2>1
  <2>4. phase' \in {"hello", "taking", "up"} => oldLink' < link'
    BY <1>2, <1>4 DEF Links
  <2> QED BY <2>2, <2>3, <2>4 DEF Links
<1>7. Handshake'
  BY <1>2, <1>4, <1>5 DEF Handshake
<1>8. HostHasRoom'
  BY <1>2, <1>4, <1>5 DEF HostHasRoom
<1> QED BY <1>6, <1>7, <1>8 DEF HostInv

\* Reading a frame does not move the host.
LEMMA ReadHostInv ==
    ASSUME TypeOK, HostInv, NEW from \in {link, oldLink}, Read(from)
    PROVE  HostInv'
<1>1. PICK s \in Session \cup {None}, h \in Seq(Event), ready \in BOOLEAN :
          room' = [room EXCEPT !.session = s, !.history = h, !.ready = ready]
  BY ReadRoom DEF HostInv
<1>2. UNCHANGED <<hostLink, emptied>> /\ faults' \in {faults, faults + 1}
  BY DEF Read, Faulty
<1> QED BY <1>1, <1>2, Place, KeepsHostInv

\* A handshake finds its room or opens it.
LEMMA HelloHostInv ==
    ASSUME TypeOK, OneSession, HostInv, Hello
    PROVE  HostInv'
<1>1. link' = link + 1 /\ phase' = "hello" /\ phase = "down" /\ UNCHANGED <<oldLink, faults>>
  BY DEF Hello
<1>2. room'.inHub /\ ~room'.expired
  <2>1. CASE room.inHub /\ UNCHANGED room
    BY <2>1 DEF HostInv, Handshake
  <2>2. ASSUME room' = [IF room.inHub THEN room ELSE [EmptyRoom EXCEPT !.inHub = TRUE] EXCEPT
                           !.session = store'.session, !.history = room'.history]
        PROVE  room'.inHub /\ ~room'.expired
    <3>1. CASE room.inHub
      BY <2>2, <3>1, Rooms DEF HostInv, Handshake, RoomType
    <3>2. CASE ~room.inHub
      BY <2>2, <3>2 DEF EmptyRoom
    <3> QED BY <3>1, <3>2
  <2> QED BY <2>1, <2>2, HelloRoom
<1>3. link \in Nat /\ oldLink \in Nat /\ faults \in Nat /\ oldLink <= link
  BY Rooms DEF TypeOK
<1> QED BY <1>1, <1>2, <1>3 DEF HostInv, Links, Handshake, HostHasRoom

\* Whatever else happens to the host's connections and to the room.
LEMMA OthersHostInv ==
    ASSUME TypeOK, HostInv,
           \/ StopSharing \/ Detach \/ Retain \/ TakeOver \/ Register
           \/ HostDrop \/ PersistFails \/ Expire \/ Restart
    PROVE  HostInv'
<1>1. link \in Nat /\ oldLink \in Nat /\ faults \in Nat /\ oldLink <= link /\ room \in RoomType
  BY Rooms DEF TypeOK
<1> USE DEF HostInv, Links, Handshake, HostHasRoom
<1>2. CASE StopSharing
  BY <1>1, <1>2 DEF StopSharing, EmptyRoom
<1>3. CASE Detach
  <2>1. CASE room.server = oldLink
    <3>1. room'.server = 0 /\ room'.inHub = room.inHub /\ room'.expired = room.expired
      BY <1>1, <1>3, <2>1 DEF Detach, RoomType
    <3> QED BY <1>1, <1>3, <2>1, <3>1 DEF Detach
  <2>2. CASE room.server # oldLink
    BY <1>1, <1>3, <2>2 DEF Detach
  <2> QED BY <2>1, <2>2
<1>4. CASE Retain
  <2>1. room'.server = room.server /\ room'.inHub = room.inHub /\ room'.expired = room.expired
    BY <1>1, <1>4 DEF Retain, RoomType
  <2> QED BY <1>1, <1>4, <2>1 DEF Retain
<1>5. CASE TakeOver
  <2>1. room'.server = 0 /\ room'.inHub = room.inHub /\ room'.expired = room.expired
    <3>1. CASE room.server = 0
      BY <1>5, <3>1 DEF TakeOver
    <3>2. CASE room.server # 0
      BY <1>1, <1>5, <3>2 DEF TakeOver, RoomType
    <3> QED BY <3>1, <3>2
  <2> QED BY <1>1, <1>5, <2>1 DEF TakeOver
<1>6. CASE Register
  <2>1. CASE room.expired
    BY <1>1, <1>6, <2>1 DEF Register
  <2>2. CASE ~room.expired
    <3>1. room'.server = link /\ room'.inHub = room.inHub /\ room'.expired = room.expired
      BY <1>1, <1>6, <2>2 DEF Register, RoomType
    <3> QED BY <1>1, <1>6, <2>2, <3>1 DEF Register
  <2> QED BY <2>1, <2>2
<1>7. CASE HostDrop
  BY <1>1, <1>7 DEF HostDrop, Faulty, LoseLink
<1>8. CASE PersistFails
  BY <1>1, <1>8 DEF PersistFails, Faulty, LoseLink
<1>9. CASE Expire
  BY <1>1, <1>9 DEF Expire, Faulty, EmptyRoom, hostLink
<1>10. CASE Restart
  BY <1>1, <1>10 DEF Restart, Faulty, EmptyRoom
<1> QED BY <1>2, <1>3, <1>4, <1>5, <1>6, <1>7, <1>8, <1>9, <1>10

\* The last client to leave may remove the room, and then it is noted.
LEMMA ClientHostInv ==
    ASSUME TypeOK, HostInv, NEW c \in Peer,
           Join(c) \/ ResumeFrom(c) \/ ResumeHello(c) \/ FinishResume(c) \/ DetachClient(c) \/ ClientDrop(c)
    PROVE  HostInv'
<1>1. CASE Join(c) \/ ResumeFrom(c) \/ ResumeHello(c) \/ FinishResume(c) \/ ClientDrop(c)
  <2>1. UNCHANGED <<hostLink, emptied, room>> /\ faults' \in {faults, faults + 1}
    BY <1>1 DEF Join, ResumeFrom, ResumeHello, OnResume, FinishResume, ClientDrop, Faulty
  <2> QED BY <2>1, KeepsHostInv
<1>2. CASE DetachClient(c)
  <2>1. UNCHANGED hostLink /\ faults' = faults
    BY <1>2 DEF DetachClient
  <2>2. CASE UNCHANGED <<room, emptied>>
    BY <2>1, <2>2, KeepsHostInv
  <2>3. CASE room.server = 0 /\ room' = [room EXCEPT !.inHub = FALSE] /\ emptied'
    <3>1. room'.server = 0 /\ ~room'.inHub /\ room'.expired = room.expired
      BY <2>3, Rooms DEF RoomType
    <3> QED BY <2>1, <2>3, <3>1, Rooms DEF HostInv, Links, Handshake, HostHasRoom, hostLink
  <2> QED BY <1>2, <2>2, <2>3 DEF DetachClient
<1> QED BY <1>1, <1>2

-----------------------------------------------------------------------------
(* What a room holds *)

\* An event that is no duplicate, sent in the host's order, follows what is there.
LEMMA Appended ==
    ASSUME NEW h \in Seq(Event), NEW e \in Event, ~IsDuplicate(h, e), InFront(h),
           \A i \in DOMAIN h : h[i][1] = e[1],
           \A i, j \in DOMAIN h : h[i] = h[j] /\ i < j => j - i > DedupWindow,
           \/ \E k \in DOMAIN h : h[k][2] = e[2]
           \/ /\ \A k \in DOMAIN h : h[k][2] < e[2]
              /\ \A m \in 1 .. e[2] - 1 : \E k \in DOMAIN h : h[k][2] = m
    PROVE  LET g == Append(h, e)
           IN  /\ g \in Seq(Event) /\ Range(g) = Range(h) \cup {e}
               /\ \A i \in DOMAIN g : g[i][1] = e[1]
               /\ \A i, j \in DOMAIN g : g[i] = g[j] /\ i < j => j - i > DedupWindow
               /\ InFront(g)
               /\ GapFree(h) => GapFree(g)
<1> DEFINE g == Append(h, e)
           n == Len(h)
<1>1. /\ n \in Nat /\ DOMAIN h = 1 .. n /\ DedupWindow \in Nat
      /\ g \in Seq(Event) /\ DOMAIN g = 1 .. n + 1
      /\ g[n + 1] = e /\ \A i \in 1 .. n : g[i] = h[i]
  BY RelayAssumption
<1>2. \A i \in DOMAIN h : h[i][2] \in Nat /\ h[i] = g[i] /\ i \in DOMAIN g
  BY <1>1, RelayAssumption DEF Event
<1>3. e[2] \in Nat
  BY RelayAssumption DEF Event
<1>4. ASSUME NEW i \in 1 .. n, h[i] = e PROVE n + 1 - i > DedupWindow
  <2>1. ~ (i > n - DedupWindow)
    BY <1>1, <1>4 DEF IsDuplicate
  <2> QED BY <2>1, <1>1
<1> HIDE DEF g, n
<1>5. \A i \in DOMAIN g : i \in 1 .. n \/ i = n + 1
  BY <1>1
<1>6. Range(g) = Range(h) \cup {e}
  <2>1. Range(g) \subseteq Range(h) \cup {e}
    BY <1>1, <1>5 DEF Range
  <2>2. Range(h) \subseteq Range(g) /\ e \in Range(g)
    BY <1>1, <1>2 DEF Range
  <2> QED BY <2>1, <2>2
<1>7. \A i \in DOMAIN g : g[i][1] = e[1]
  BY <1>1, <1>5
<1>8. ASSUME NEW i \in DOMAIN g, NEW j \in DOMAIN g, g[i] = g[j], i < j
      PROVE  j - i > DedupWindow
  <2>1. CASE j \in 1 .. n
    BY <1>1, <1>5, <1>8, <2>1
  <2>2. CASE j = n + 1
    <3>1. i \in 1 .. n
      BY <1>1, <1>8, <2>2
    <3> QED BY <1>1, <1>4, <1>8, <2>2, <3>1
  <2> QED BY <1>5, <2>1, <2>2
<1>9. InFront(g)
  <2>1. ASSUME NEW i \in DOMAIN g, NEW j \in DOMAIN g, i < j
        PROVE  g[i][2] < g[j][2] \/ \E k \in 1 .. j - 1 : g[k][2] = g[j][2]
    <3>1. CASE j \in 1 .. n
      <4>1. i \in 1 .. n /\ \A k \in 1 .. j - 1 : k \in 1 .. n
        BY <1>1, <2>1, <3>1
      <4>2. h[i][2] < h[j][2] \/ \E k \in 1 .. j - 1 : h[k][2] = h[j][2]
        BY <1>1, <2>1, <3>1, <4>1 DEF InFront
      <4> QED BY <1>1, <3>1, <4>1, <4>2
    <3>2. CASE j = n + 1
      <4>1. i \in 1 .. n /\ j - 1 = n
        BY <1>1, <2>1, <3>2
      <4> QED BY <1>1, <3>2, <4>1
    <3> QED BY <1>5, <3>1, <3>2
  <2> QED BY <2>1 DEF InFront
<1>10. ASSUME GapFree(h), NEW i \in DOMAIN g, NEW m \in 1 .. g[i][2]
       PROVE  \E j \in DOMAIN g : g[j][2] = m
  <2>1. ASSUME NEW k \in DOMAIN h, m \in 1 .. h[k][2] PROVE \E j \in DOMAIN g : g[j][2] = m
    BY <1>2, <1>10, <2>1 DEF GapFree
  <2>2. CASE i \in 1 .. n
    BY <1>1, <1>10, <2>1, <2>2
  <2>3. CASE i = n + 1
    <3>1. m \in 1 .. e[2] /\ m \in Nat
      BY <1>1, <1>3, <1>10, <2>3
    <3>2. CASE m = e[2]
      BY <1>1, <3>2
    <3>3. CASE m # e[2]
      <4>1. m \in 1 .. e[2] - 1
        BY <1>3, <3>1, <3>3
      <4>2. CASE \E k \in DOMAIN h : h[k][2] = e[2]
        BY <2>1, <3>1, <4>2
      <4>3. CASE \A p \in 1 .. e[2] - 1 : \E k \in DOMAIN h : h[k][2] = p
        BY <1>2, <4>1, <4>3
      <4> QED BY <4>2, <4>3
    <3> QED BY <3>2, <3>3
  <2> QED BY <1>5, <2>2, <2>3
<1> QED BY <1>1, <1>6, <1>7, <1>8, <1>9, <1>10 DEF g, GapFree

\* A history that contains the ordinals up to its length has no gap: there is no place
\* in it for others.
LEMMA Full ==
    ASSUME NEW h \in Seq(Event), \A i \in DOMAIN h : \E j \in DOMAIN h : h[j][2] = i
    PROVE  GapFree(h)
<1> DEFINE n == Len(h)
           ordinals == {h[j][2] : j \in 1 .. n}
<1>1. n \in Nat /\ DOMAIN h = 1 .. n /\ \A j \in 1 .. n : h[j][2] \in Nat
  BY RelayAssumption DEF Event
<1>2. IsFiniteSet(1 .. n) /\ Cardinality(1 .. n) = n
  <2> HIDE DEF n
  <2> QED BY <1>1, FS_Interval
<1>3. IsFiniteSet(ordinals) /\ Cardinality(ordinals) <= n
  <2>1. [j \in 1 .. n |-> h[j][2]] \in Surjection(1 .. n, ordinals)
    BY DEF Surjection
  <2> HIDE DEF n, ordinals
  <2> QED BY <1>2, <2>1, FS_Surjection
<1>4. 1 .. n \subseteq ordinals
  BY <1>1
<1>5. Cardinality(ordinals) \in Nat
  BY <1>3, FS_CardinalityType
<1>6. ordinals = 1 .. n
  <2> HIDE DEF n, ordinals
  <2>1. Cardinality(1 .. n) <= Cardinality(ordinals)
    BY <1>3, <1>4, FS_Subset
  <2>2. Cardinality(1 .. n) = Cardinality(ordinals)
    BY <1>1, <1>2, <1>3, <1>5, <2>1
  <2> QED BY <1>3, <1>4, <2>2, FS_Subset
<1>7. ASSUME NEW i \in DOMAIN h, NEW m \in 1 .. h[i][2] PROVE m \in DOMAIN h
  <2>1. h[i][2] \in 1 .. n
    BY <1>1, <1>6
  <2> QED BY <1>1, <2>1, <1>7
<1> QED BY <1>7 DEF GapFree

-----------------------------------------------------------------------------
(* What a client has received *)

\* Nothing that matters to the clients has happened, or the room is empty.
LEMMA KeepsClients ==
    ASSUME TypeOK, ClientInv, UNCHANGED <<got, gapped>>,
           \/ room'.history = << >>
           \/ /\ room'.session = room.session /\ room'.history = room.history
              /\ room'.ready \/ Attached' # {} => room.ready \/ Attached # {},
           \A c \in Peer :
               /\ peer'[c].cursor \in {None, peer[c].cursor} \cup got
               /\ room'.history # << >> /\ peer'[c].live /\ peer'[c].phase = "ready"
                      => peer[c].live /\ peer[c].phase = "ready",
           store'.cursor \in {None, store.cursor} \cup got
    PROVE  ClientInv'
<1>1. got' = got /\ gapped' = gapped
  OBVIOUS
<1>2. HistoryInv /\ GotInv /\ ReadyMissesNothing
  BY DEF ClientInv
<1>3. CASE room'.history = << >>
  <2>1. DOMAIN room'.history = {} /\ Range(room'.history) = {}
    BY <1>3 DEF Range
  <2>2. OneSession' /\ InFront(room'.history) /\ GapFree(room'.history)
    BY <2>1 DEF OneSession, InFront, GapFree
  <2>3. ReadyMissesNothing'
    BY <2>1 DEF ReadyMissesNothing
  <2>4. HistoryInv'
    BY <2>2 DEF HistoryInv
  <2>5. GotInv'
    BY <1>1, <1>2 DEF GotInv
  <2> QED BY <2>3, <2>4, <2>5 DEF ClientInv
<1>4. CASE room'.history # << >>
  <2>1. /\ room'.session = room.session /\ room'.history = room.history
        /\ room'.ready \/ Attached' # {} => room.ready \/ Attached # {}
    BY <1>4
  <2>2. OneSession' /\ InFront(room'.history)
    BY <1>2, <2>1 DEF HistoryInv, OneSession
  <2>3. room'.ready \/ Attached' # {} => GapFree(room'.history) \/ room'.session \in gapped'
    BY <1>1, <1>2, <2>1 DEF HistoryInv
  <2>4. HistoryInv'
    BY <2>2, <2>3 DEF HistoryInv
  <2>5. GotInv'
    BY <1>1, <1>2 DEF GotInv
  <2>6. ReadyMissesNothing'
    BY <1>1, <1>2, <1>4, <2>1 DEF ReadyMissesNothing
  <2> QED BY <2>4, <2>5, <2>6 DEF ClientInv
<1> QED BY <1>3, <1>4

\* Steps that add no event and let no client in keep what the client has complete.
LEMMA HostClientInv ==
    ASSUME TypeOK, ClientInv,
           StopSharing \/ Detach \/ Retain \/ TakeOver \/ Register \/ HostDrop \/ PersistFails
    PROVE  ClientInv'
<1>1. room \in RoomType /\ peer \in [Peer -> [phase : {"none", "joined", "resumed", "ready", "gone", "stopped"},
                                              live : BOOLEAN, cursor : Event \cup {None}]]
  BY Rooms DEF TypeOK
<1>2. CASE StopSharing
  <2>1. UNCHANGED <<got, gapped, store>> /\ room'.history = << >>
    BY <1>2 DEF StopSharing, Closed, EmptyRoom
  <2>2. \A c \in Peer : peer'[c].cursor \in {None, peer[c].cursor}
    BY <1>2 DEF StopSharing, Closed, NoPeer
  <2> QED BY <2>1, <2>2, KeepsClients
<1>3. CASE Detach \/ Retain \/ TakeOver \/ Register \/ HostDrop \/ PersistFails
  <2>1. UNCHANGED <<got, gapped, store, peer>>
    BY <1>3 DEF Detach, Retain, TakeOver, Register, HostDrop, PersistFails, client
  <2>2. room'.session = room.session /\ room'.history = room.history /\ (room'.ready => room.ready)
    <3>1. \/ room' = room
          \/ room' = [room EXCEPT !.server = 0, !.ready = FALSE]
          \/ room' = [room EXCEPT !.retained = room.inHub]
          \/ room' = [room EXCEPT !.server = link, !.ready = FALSE, !.retained = FALSE]
      BY <1>3 DEF Detach, Retain, TakeOver, Register, HostDrop, PersistFails
    <3> QED BY <1>1, <3>1 DEF RoomType
  <2>3. Attached' = Attached
    BY <2>1 DEF Attached
  <2> QED BY <2>1, <2>2, <2>3, KeepsClients
<1> QED BY <1>2, <1>3

LEMMA RelayClientInv ==
    ASSUME TypeOK, ClientInv, Expire \/ Restart
    PROVE  ClientInv'
<1>1. UNCHANGED <<got, gapped>> /\ room'.history = << >>
  BY DEF Expire, Restart, Closed, EmptyRoom
<1>2. \A c \in Peer : peer'[c].cursor \in {None, peer[c].cursor}
  <2>1. \A c \in Peer : peer'[c] = peer[c] \/ peer'[c].cursor = None
    BY DEF Expire, Restart, Closed, NoPeer
  <2> QED BY <2>1
<1>3. store'.cursor \in {None, store.cursor}
  <2>1. CASE Expire
    BY <2>1 DEF Expire
  <2>2. CASE Restart
    <3>1. PICK done \in SUBSET writes : store' \in Stores(done)
      BY <2>2 DEF Restart
    <3> QED BY <3>1, StoresType, Rooms DEF TypeOK
  <2> QED BY <2>1, <2>2
<1> QED BY <1>1, <1>2, <1>3, KeepsClients

\* Joining, naming a cursor, breaking off.
LEMMA PeerClientInv ==
    ASSUME TypeOK, ClientInv, NEW c \in Peer,
           Join(c) \/ ResumeFrom(c) \/ ResumeHello(c) \/ DetachClient(c) \/ ClientDrop(c)
    PROVE  ClientInv'
<1>1. room \in RoomType /\ peer \in [Peer -> [phase : {"none", "joined", "resumed", "ready", "gone", "stopped"},
                                              live : BOOLEAN, cursor : Event \cup {None}]]
  BY Rooms DEF TypeOK
<1>2. CASE Join(c)
  <2>1. UNCHANGED <<got, gapped, store, room>> /\ room.ready
    BY <1>2 DEF Join
  <2>2. \A d \in Peer : peer'[d] = peer[d] \/ (peer'[d].cursor = None /\ peer'[d].phase = "joined")
    BY <1>1, <1>2 DEF Join, NoPeer
  <2> QED BY <2>1, <2>2, KeepsClients
<1>3. ASSUME NEW cursor \in {None} \cup got \cup {store.cursor}, OnResume(c, cursor),
             store'.cursor \in {None, store.cursor} \cup got
      PROVE  ClientInv'
  <2>1. UNCHANGED <<got, gapped, room>>
    BY <1>3 DEF OnResume
  <2>2. PICK kept \in {cursor, None} : peer' = [peer EXCEPT ![c].phase = "resumed", ![c].cursor = kept]
    BY <1>3 DEF OnResume
  <2>3. peer[c].phase = "joined" /\ (store.cursor # None => store.cursor \in got)
    BY <1>3 DEF OnResume, ClientInv, GotInv
  <2>4. /\ peer'[c].phase = "resumed" /\ peer'[c].cursor = kept
        /\ \A d \in Peer \ {c} : peer'[d] = peer[d]
    BY <1>1, <2>2
  <2>5. c \in Attached
    BY <2>3 DEF Attached
  <2>6. \A d \in Peer :
            /\ peer'[d].cursor \in {None, peer[d].cursor} \cup got
            /\ peer'[d].live /\ peer'[d].phase = "ready" => peer[d].live /\ peer[d].phase = "ready"
    BY <1>3, <2>3, <2>4
  <2> QED BY <1>3, <2>1, <2>5, <2>6, KeepsClients
<1>4. CASE ResumeFrom(c)
  <2>1. PICK cursor \in Claimed : OnResume(c, cursor)
    BY <1>4 DEF ResumeFrom
  <2>2. cursor \in got /\ store' = store
    BY <1>4 DEF Claimed, ResumeFrom
  <2> QED BY <1>3, <2>1, <2>2
<1>5. CASE ResumeHello(c)
  <2>1. PICK cursor \in SavedCursor : store' = [store EXCEPT !.cursor = cursor] /\ OnResume(c, cursor)
    BY <1>5 DEF ResumeHello
  <2>2. cursor \in got \cup {store.cursor}
    BY <2>1 DEF SavedCursor
  <2>3. store'.cursor = cursor
    BY <2>1, Rooms DEF StoreType
  <2> QED BY <1>3, <2>1, <2>2, <2>3
<1>6. CASE DetachClient(c)
  <2>1. UNCHANGED <<got, gapped, store>> /\ c \in Attached
    BY <1>6 DEF DetachClient
  <2>2. \A d \in Peer : peer'[d] = peer[d] \/ (peer'[d].cursor = None /\ peer'[d].phase = "gone")
    BY <1>1, <1>6 DEF DetachClient, NoPeer
  <2>3. room'.session = room.session /\ room'.history = room.history
    <3>1. room' = room \/ room' = [room EXCEPT !.inHub = FALSE]
      BY <1>6 DEF DetachClient
    <3> QED BY <1>1, <3>1 DEF RoomType
  <2> QED BY <2>1, <2>2, <2>3, KeepsClients
<1>7. CASE ClientDrop(c)
  <2>1. UNCHANGED <<got, gapped, store, room>>
    BY <1>7 DEF ClientDrop
  <2>2. \A d \in Peer : peer'[d].cursor = peer[d].cursor /\ peer'[d].phase = peer[d].phase /\ (peer'[d].live => peer[d].live)
    BY <1>1, <1>7 DEF ClientDrop
  <2>3. Attached' = Attached
    BY <2>2 DEF Attached
  <2> QED BY <2>1, <2>2, <2>3, KeepsClients
<1> QED BY <1>4, <1>5, <1>6, <1>7, <1>2

\* A restored room has its events in order; and it is noted if clients are there already.
LEMMA HelloClientInv ==
    ASSUME TypeOK, ClientInv, Hello
    PROVE  ClientInv'
<1>1. UNCHANGED <<peer, got>> /\ Attached' = Attached /\ OneSession
  BY DEF Hello, Attached, ClientInv, HistoryInv
<1>2. CASE UNCHANGED <<room, store, gapped>>
  BY <1>1, <1>2, KeepsClients
<1>3. ASSUME NEW done \in SUBSET writes, store' \in Stores(done),
             LET r == IF room.inHub THEN room ELSE [EmptyRoom EXCEPT !.inHub = TRUE]
             IN  room' = [r EXCEPT !.session = store'.session, !.history = room'.history],
             room'.history \in Seq(Event),
             \A i \in DOMAIN room'.history : room'.history[i][1] = room'.session,
             \A i, j \in DOMAIN room'.history : i < j => room'.history[i][2] < room'.history[j][2],
             room'.session = None => room'.history = << >>,
             store'.cursor \in {store.cursor, None},
             gapped' = IF room.ready \/ Attached # {} THEN gapped \cup ({room'.session} \ {None}) ELSE gapped
      PROVE  ClientInv'
  <2>1. room'.ready => room.ready
    <3>1. CASE room.inHub
      BY <1>3, <3>1, Rooms DEF RoomType
    <3>2. CASE ~room.inHub
      BY <1>3, <3>2 DEF EmptyRoom
    <3> QED BY <3>1, <3>2
  <2>2. room'.ready \/ Attached # {} => room'.history = << >> \/ room'.session \in gapped'
    BY <1>3, <2>1
  <2>3. \A i \in DOMAIN room'.history : room'.history[i][2] \in Nat
    BY <1>3, RelayAssumption DEF Event
  <2>4. OneSession' /\ InFront(room'.history)
    BY <1>3, <2>3 DEF OneSession, InFront
  <2>5. HistoryInv'
    BY <1>1, <2>2, <2>4 DEF HistoryInv, GapFree
  <2>6. GotInv'
    BY <1>1, <1>3 DEF ClientInv, GotInv
  <2>7. ReadyMissesNothing'
    <3>1. ASSUME NEW c \in Peer, peer[c].phase = "ready", room'.session \notin gapped'
          PROVE  Range(room'.history) \subseteq got
      <4>1. c \in Attached
        BY <3>1 DEF Attached
      <4>2. room'.history = << >>
        BY <2>2, <3>1, <4>1
      <4> QED BY <4>2 DEF Range
    <3> QED BY <1>1, <3>1 DEF ReadyMissesNothing
  <2> QED BY <2>5, <2>6, <2>7 DEF ClientInv
<1> QED BY <1>1, <1>2, <1>3, HelloRoom

\* The events of a room that a client has got from the first on, are closed.
LEMMA Predecessors ==
    ASSUME TypeOK, OneSession, GapFree(room.history)
    PROVE  \A e \in Range(room.history) : \A m \in 1 .. e[2] : <<e[1], m>> \in Range(room.history)
<1>1. ASSUME NEW i \in DOMAIN room.history, NEW m \in 1 .. room.history[i][2]
      PROVE  <<room.history[i][1], m>> \in Range(room.history)
  <2>1. PICK j \in DOMAIN room.history : room.history[j][2] = m
    BY <1>1 DEF GapFree
  <2>2. room.history[j][1] = room.history[i][1]
    BY DEF OneSession
  <2>3. room.history[j] \in Event
    BY DEF TypeOK
  <2>4. room.history[j] = <<room.history[i][1], m>>
    BY <2>1, <2>2, <2>3 DEF Event
  <2> QED BY <2>4 DEF Range
<1> QED BY <1>1 DEF Range

\* What a resume does not replay, the client had.
LEMMA FinishClientInv ==
    ASSUME TypeOK, ClientInv, NEW c \in Peer, FinishResume(c)
    PROVE  ClientInv'
<1> DEFINE h == room.history
           cursor == peer[c].cursor
           replay == EventsAfter(h, cursor)
<1>1. /\ OneSession /\ InFront(h) /\ GotInv /\ ReadyMissesNothing /\ h \in Seq(Event)
      /\ Attached # {} => GapFree(h) \/ room.session \in gapped
  BY DEF ClientInv, HistoryInv, TypeOK
<1>2. /\ got \subseteq got' /\ gapped \subseteq gapped' /\ got' \subseteq got \cup Range(h)
      /\ \/ room.session \in gapped'
         \/ /\ ~(cursor # None /\ replay # h /\ <<room.session, Ordinal(cursor)>> # cursor)
            /\ got' = got \cup Range(replay)
  BY <1>1, Replayed
<1>3. /\ UNCHANGED <<room, store>> /\ c \in Attached
      /\ peer' = [peer EXCEPT ![c].phase = "ready"]
  BY DEF FinishResume, Attached
<1>4. /\ \A d \in Peer : peer'[d].cursor = peer[d].cursor
  BY <1>3 DEF TypeOK
<1>5. HistoryInv'
  <2>1. OneSession' /\ InFront(room'.history)
    BY <1>1, <1>3 DEF OneSession
  <2>2. GapFree(room'.history) \/ room'.session \in gapped'
    BY <1>1, <1>2, <1>3
  <2> QED BY <2>1, <2>2 DEF HistoryInv
<1>6. ASSUME room.session \notin gapped', NEW i \in DOMAIN h PROVE h[i] \in got'
  <2>1. room.session \notin gapped /\ got' = got \cup Range(replay)
    BY <1>2, <1>6
  <2>2. CASE replay = h
    BY <1>6, <2>1, <2>2 DEF Range
  <2>3. CASE replay # h
    <3>1. PICK p \in DOMAIN h :
              /\ h[p][2] = Ordinal(cursor)
              /\ \A k \in 1 .. p - 1 : h[k][2] # Ordinal(cursor)
              /\ \A k \in DOMAIN h : k > p => h[k] \in Range(replay)
      BY <1>1, <2>3, Replays
    <3>2. /\ DOMAIN h = 1 .. Len(h) /\ Len(h) \in Nat /\ h[p] \in Event /\ h[i] \in Event
          /\ h[p][2] \in Nat /\ h[p][2] # 0 /\ h[i][2] \in Nat /\ h[i][2] >= 1
          /\ h[p][1] = room.session /\ h[i][1] = room.session
      BY <1>1, RelayAssumption DEF Event, OneSession
    <3>3. cursor # None /\ cursor = <<room.session, h[p][2]>>
      <4>1. cursor # None
        BY <3>1, <3>2 DEF Ordinal
      <4>2. <<room.session, Ordinal(cursor)>> = cursor
        BY <1>2, <1>6, <2>3, <4>1
      <4> QED BY <3>1, <4>1, <4>2
    <3>4. cursor \in got /\ \A m \in 1 .. h[p][2] : <<room.session, m>> \in got
      BY <1>1, <2>1, <3>3 DEF GotInv
    <3>5. CASE i > p
      BY <2>1, <3>1, <3>5
    <3>6. CASE i <= p
      <4>1. h[i][2] <= h[p][2]
        <5>1. CASE i = p
          BY <3>2, <5>1
        <5>2. CASE i < p
          <6>1. ~ \E k \in 1 .. p - 1 : h[k][2] = h[p][2]
            BY <3>1
          <6>2. h[i][2] < h[p][2]
            BY <1>1, <5>2, <6>1 DEF InFront
          <6> QED BY <3>2, <6>2
        <5> QED BY <3>2, <3>6, <5>1, <5>2
      <4>2. h[i] = <<room.session, h[i][2]>> /\ h[i][2] \in 1 .. h[p][2]
        BY <3>2, <4>1 DEF Event
      <4> QED BY <1>2, <3>4, <4>2
    <3> QED BY <3>2, <3>5, <3>6
  <2> QED BY <2>2, <2>3
<1>7. ReadyMissesNothing'
  BY <1>3, <1>6 DEF ReadyMissesNothing, Range
<1>8. GotInv'
  <2>1. ASSUME NEW e \in got', e[1] \notin gapped', NEW m \in 1 .. e[2] PROVE <<e[1], m>> \in got'
    <3>1. CASE e \in got
      BY <1>1, <1>2, <2>1, <3>1 DEF GotInv
    <3>2. CASE e \in Range(h)
      <4>1. e[1] = room.session
        BY <1>1, <3>2 DEF Range, OneSession
      <4>2. GapFree(h)
        BY <1>1, <1>2, <1>3, <2>1, <4>1
      <4>3. <<e[1], m>> \in Range(h)
        BY <1>1, <2>1, <3>2, <4>2, Predecessors
      <4> QED BY <1>6, <2>1, <4>1, <4>3 DEF Range
    <3> QED BY <1>2, <2>1, <3>1, <3>2
  <2>2. \A d \in Peer : peer'[d].cursor # None => peer'[d].cursor \in got'
    BY <1>1, <1>2, <1>4 DEF GotInv
  <2>3. store'.cursor # None => store'.cursor \in got'
    BY <1>1, <1>2, <1>3 DEF GotInv
  <2> QED BY <2>1, <2>2, <2>3 DEF GotInv
<1> QED BY <1>5, <1>7, <1>8 DEF ClientInv

\* A client that is ready is sent what follows what it has.
LEMMA EventClientInv ==
    ASSUME TypeOK, ClientInv, NEW from, NEW e \in Event, OnEvent(from, e), UNCHANGED store
    PROVE  ClientInv'
<1> DEFINE r == Bound(room, e[1], FALSE)
           new == ~IsDuplicate(r.history, e)
           h == r.history
<1>1. /\ OneSession /\ InFront(room.history) /\ GotInv /\ ReadyMissesNothing /\ room \in RoomType
      /\ room.ready \/ Attached # {} => GapFree(room.history) \/ room.session \in gapped
  BY Rooms DEF ClientInv, HistoryInv
<1>2. e[1] \in Session /\ e[2] \in 1 .. MaxEvents /\ e[2] \in Nat /\ e = <<e[1], e[2]>>
  BY RelayAssumption DEF Event
<1>3. /\ r = [room EXCEPT !.session = e[1], !.history = h] /\ r.session = e[1] /\ h \in Seq(Event)
      /\ h \in {<< >>, room.history} /\ (room.session # e[1] => h = << >>)
      /\ (room.session = e[1] => h = room.history)
  BY <1>1, <1>2, BoundRoom DEF Bound, RoomType
<1>4. /\ room' = IF new THEN [r EXCEPT !.history = Append(@, e)] ELSE r
      /\ got' = IF new /\ Listening THEN got \cup {e} ELSE got
      /\ HostOrder(e[1], e[2]) /\ UNCHANGED <<peer, known, gapped>>
  BY DEF OnEvent
<1> HIDE DEF r, new, h
<1>5. /\ InFront(h) /\ \A i \in DOMAIN h : h[i][1] = e[1]
      /\ \A i, j \in DOMAIN h : h[i] = h[j] /\ i < j => j - i > DedupWindow
  BY <1>1, <1>3 DEF OneSession, InFront
<1>6. room.ready \/ Attached # {} => GapFree(h) \/ e[1] \in gapped
  BY <1>1, <1>3 DEF GapFree
<1> DEFINE sent == {d[2] : d \in Range(h)}
<1>7. e[2] \in sent \/ sent = 1 .. e[2] - 1
  <2>1. CASE room.session = e[1]
    BY <1>3, <1>4, <2>1 DEF HostOrder
  <2>2. CASE room.session # e[1]
    <3>1. sent = {}
      BY <1>3, <2>2 DEF Range
    <3> QED BY <1>4, <2>2, <3>1 DEF HostOrder
  <2> QED BY <2>1, <2>2
<1>8. \/ \E k \in DOMAIN h : h[k][2] = e[2]
      \/ /\ \A k \in DOMAIN h : h[k][2] < e[2]
         /\ \A m \in 1 .. e[2] - 1 : \E k \in DOMAIN h : h[k][2] = m
  <2>1. CASE e[2] \in sent
    BY <2>1 DEF Range
  <2>2. CASE sent = 1 .. e[2] - 1
    <3>1. \A k \in DOMAIN h : h[k][2] \in sent
      BY DEF Range
    <3>2. \A m \in sent : \E k \in DOMAIN h : h[k][2] = m
      BY DEF Range
    <3> HIDE DEF sent
    <3> QED BY <1>2, <2>2, <3>1, <3>2
  <2> QED BY <1>7, <2>1, <2>2
<1>9. r.ready = room.ready /\ r \in RoomType
  BY <1>1, <1>2, <1>3 DEF RoomType
<1>10. /\ room'.session = e[1] /\ room'.ready = room.ready
       /\ OneSession' /\ InFront(room'.history) /\ (GapFree(h) => GapFree(room'.history))
       /\ Range(room'.history) = IF new THEN Range(h) \cup {e} ELSE Range(h)
  <2>1. CASE new
    <3> DEFINE g == Append(h, e)
    <3>1. /\ Range(g) = Range(h) \cup {e} /\ \A i \in DOMAIN g : g[i][1] = e[1]
          /\ \A i, j \in DOMAIN g : g[i] = g[j] /\ i < j => j - i > DedupWindow
          /\ InFront(g) /\ (GapFree(h) => GapFree(g))
      BY <1>3, <1>5, <1>8, <2>1, Appended DEF new
    <3>2. room'.history = g /\ room'.session = e[1] /\ room'.ready = room.ready
      BY <1>3, <1>4, <1>9, <2>1 DEF RoomType
    <3> HIDE DEF g
    <3> QED BY <2>1, <3>1, <3>2 DEF OneSession
  <2>2. CASE ~new
    BY <1>3, <1>4, <1>5, <1>9, <2>2 DEF OneSession
  <2> QED BY <2>1, <2>2
<1>11. HistoryInv'
  <2>1. Attached' = Attached
    BY <1>4 DEF Attached
  <2> QED BY <1>4, <1>6, <1>10, <2>1 DEF HistoryInv
<1>12. ASSUME Listening, e[1] \notin gapped PROVE Range(h) \subseteq got
  <2>1. CASE room.session = e[1]
    BY <1>1, <1>3, <1>12, <2>1 DEF Listening, ReadyMissesNothing
  <2>2. CASE room.session # e[1]
    BY <1>3, <2>2 DEF Range
  <2> QED BY <2>1, <2>2
<1>13. ReadyMissesNothing'
  <2>1. ASSUME NEW c \in Peer, peer[c].live, peer[c].phase = "ready", e[1] \notin gapped
        PROVE  Range(room'.history) \subseteq got'
    <3>1. Listening
      BY <2>1 DEF Listening
    <3> QED BY <1>4, <1>10, <1>12, <2>1, <3>1
  <2> QED BY <1>4, <1>10, <2>1 DEF ReadyMissesNothing
<1>14. ASSUME Listening, e[1] \notin gapped, NEW m \in 1 .. e[2] PROVE <<e[1], m>> \in got \cup {e}
  <2>1. \A k \in DOMAIN h : h[k] \in got /\ h[k] = <<e[1], h[k][2]>>
    <3>1. \A k \in DOMAIN h : h[k] \in Event /\ h[k] \in Range(h)
      BY <1>3 DEF Range
    <3> QED BY <1>5, <1>12, <1>14, <3>1 DEF Event
  <2>2. CASE \E k \in DOMAIN h : h[k][2] = e[2]
    BY <1>1, <1>2, <1>14, <2>1, <2>2 DEF GotInv
  <2>3. CASE \A p \in 1 .. e[2] - 1 : \E k \in DOMAIN h : h[k][2] = p
    <3>1. CASE m = e[2]
      BY <1>2, <3>1
    <3>2. CASE m # e[2]
      <4>1. m \in 1 .. e[2] - 1
        BY <1>2, <1>14, <3>2
      <4> QED BY <2>1, <2>3, <4>1
    <3> QED BY <3>1, <3>2
  <2> QED BY <1>8, <2>2, <2>3
<1>15. GotInv'
  <2>1. got \subseteq got' /\ peer' = peer /\ gapped' = gapped
    BY <1>4
  <2>2. ASSUME NEW d \in got', d[1] \notin gapped, NEW m \in 1 .. d[2] PROVE <<d[1], m>> \in got'
    <3>1. CASE d \in got
      BY <1>1, <2>1, <2>2, <3>1 DEF GotInv
    <3>2. CASE d \notin got
      <4>1. d = e /\ Listening /\ got' = got \cup {e}
        BY <1>4, <2>2, <3>2
      <4> QED BY <1>14, <2>2, <4>1
    <3> QED BY <3>1, <3>2
  <2>3. \A c \in Peer : peer'[c].cursor # None => peer'[c].cursor \in got'
    BY <1>1, <2>1 DEF GotInv
  <2>4. store'.cursor # None => store'.cursor \in got'
    BY <1>1, <2>1 DEF GotInv
  <2> QED BY <2>1, <2>2, <2>3, <2>4 DEF GotInv
<1> QED BY <1>11, <1>13, <1>15 DEF ClientInv

\* So does a frame: an event, the active session, or the host's word that it is ready.
LEMMA ReadClientInv ==
    ASSUME TypeOK, ClientInv, NEW from \in {link, oldLink}, Read(from)
    PROVE  ClientInv'
<1>1. store' = store
  BY DEF Read
<1>2. ASSUME NEW e \in Event, OnEvent(from, e) PROVE ClientInv'
  BY <1>1, <1>2, EventClientInv
<1>3. ASSUME NEW s \in Session, NEW replace \in BOOLEAN, OnActiveSession(from, s, replace) PROVE ClientInv'
  <2> DEFINE r == Bound(room, s, replace)
  <2>1. /\ r = [room EXCEPT !.session = s, !.history = r.history] /\ r.session = s
        /\ r.history \in {<< >>, room.history} /\ (room.session # s => r.history = << >>)
    BY BoundRoom
  <2>2. room' = r /\ UNCHANGED <<peer, got, gapped>>
    BY <1>3 DEF OnActiveSession
  <2> HIDE DEF r
  <2>3. room'.ready = room.ready /\ Attached' = Attached
    BY <2>1, <2>2, Rooms DEF RoomType, Attached
  <2> QED BY <1>1, <2>1, <2>2, <2>3, KeepsClients
<1>4. CASE OnServerReady(from)
  <2>1. /\ room'.session = room.session /\ room'.history = room.history /\ UNCHANGED <<peer, got, gapped>>
        /\ \A i \in DOMAIN room.history : \E j \in DOMAIN room.history : room.history[j][2] = i
    BY <1>4, Rooms DEF OnServerReady, RoomType, client
  <2>2. GapFree(room.history)
    BY <2>1, Full DEF TypeOK
  <2>3. HistoryInv'
    BY <2>1, <2>2 DEF ClientInv, HistoryInv, OneSession
  <2>4. GotInv' /\ ReadyMissesNothing'
    BY <1>1, <2>1 DEF ClientInv, GotInv, ReadyMissesNothing
  <2> QED BY <2>3, <2>4 DEF ClientInv
<1> QED BY <1>2, <1>3, <1>4 DEF Read

-----------------------------------------------------------------------------
(* What is stored *)

\* A step that leaves history and writes alone keeps the store following.
LEMMA KeepsStore ==
    ASSUME StoreInv, unstored => unstored', room'.inHub => room.inHub,
           room'.history = room.history \/ room'.history = << >>,
           writes \subseteq writes', Wipe \in writes' => Wipe \in writes, store.events \subseteq store'.events
    PROVE  StoreInv'
<1>1. NoWipe'
  BY DEF StoreInv, NoWipe
<1>2. Range(room'.history) \subseteq Range(room.history)
  BY DEF Range
<1>3. Written'
  BY <1>2 DEF StoreInv, Written
<1> QED BY <1>1, <1>3 DEF StoreInv

\* While the room is not in the hub the store has nothing to follow.
LEMMA NoRoomStore ==
    ASSUME ~room'.inHub
    PROVE  StoreInv'
BY DEF StoreInv, NoWipe, Written

\* An event is appended with the goroutine that stores it, and if the room is about to be
\* deleted it is noted.
LEMMA ReadStoreInv ==
    ASSUME TypeOK, StoreInv, NEW from \in {link, oldLink}, Read(from)
    PROVE  StoreInv'
<1>1. store' = store /\ room \in RoomType
  BY Rooms DEF Read
<1>2. ASSUME NEW e \in Event, OnEvent(from, e) PROVE StoreInv'
  <2> DEFINE r == Bound(room, e[1], FALSE)
             new == ~IsDuplicate(r.history, e)
             write == [kind |-> "event", event |-> e]
  <2>1. e[1] \in Session
    BY DEF Event
  <2>2. r = [room EXCEPT !.session = e[1], !.history = r.history] /\ r.history \in {<< >>, room.history}
        /\ r.history \in Seq(Event)
    BY <2>1, BoundRoom
  <2>3. /\ room' = IF new THEN [r EXCEPT !.history = Append(@, e)] ELSE r
        /\ writes' = IF new THEN writes \cup {write} ELSE writes
        /\ unstored' = (unstored \/ (new /\ Wipe \in writes))
    BY <1>2, Zenon DEF OnEvent, Persist
  <2>4. write # Wipe
    BY DEF Wipe
  <2> HIDE DEF r, new, write
  <2>5. CASE ~new
    <3>1. room' = r /\ writes' = writes /\ (unstored => unstored')
      BY <2>3, <2>5
    <3>2. room'.inHub = room.inHub /\ (room'.history = room.history \/ room'.history = << >>)
      BY <1>1, <2>2, <3>1 DEF RoomType
    <3> QED BY <1>1, <3>1, <3>2, KeepsStore
  <2>6. CASE new
    <3>1. r.inHub = room.inHub /\ r \in RoomType
      BY <1>1, <2>1, <2>2 DEF RoomType
    <3>2. room' = [r EXCEPT !.history = Append(r.history, e)] /\ writes' = writes \cup {write}
          /\ (unstored' <=> unstored \/ Wipe \in writes)
      BY <2>3, <2>6
    <3>3. room'.inHub = room.inHub /\ room'.history = Append(r.history, e)
      BY <3>1, <3>2 DEF RoomType
    <3>4. Range(room'.history) \subseteq Range(room.history) \cup {e}
      <4>1. /\ Len(r.history) \in Nat /\ DOMAIN r.history = 1 .. Len(r.history)
            /\ DOMAIN Append(r.history, e) = 1 .. Len(r.history) + 1
            /\ Append(r.history, e)[Len(r.history) + 1] = e
            /\ \A i \in 1 .. Len(r.history) : Append(r.history, e)[i] = r.history[i]
        BY <2>2
      <4>2. Range(r.history) \subseteq Range(room.history)
        BY <2>2 DEF Range
      <4>3. \A i \in 1 .. Len(r.history) + 1 : i \in 1 .. Len(r.history) \/ i = Len(r.history) + 1
        BY <4>1
      <4> QED BY <3>3, <4>1, <4>2, <4>3 DEF Range
    <3>5. NoWipe'
      BY <2>4, <3>2 DEF NoWipe
    <3>6. Written'
      BY <1>1, <3>2, <3>3, <3>4 DEF StoreInv, Written, write
    <3> QED BY <3>5, <3>6 DEF StoreInv
  <2> QED BY <2>5, <2>6
<1>3. ASSUME NEW s \in Session, NEW replace \in BOOLEAN, OnActiveSession(from, s, replace) PROVE StoreInv'
  <2> DEFINE r == Bound(room, s, replace)
  <2>1. r = [room EXCEPT !.session = s, !.history = r.history] /\ r.history \in {<< >>, room.history}
    BY BoundRoom
  <2>2. room' = r /\ writes' = writes \cup {[kind |-> "active", session |-> s]} /\ unstored' = unstored
    BY <1>3 DEF OnActiveSession
  <2> HIDE DEF r
  <2>3. room'.inHub = room.inHub
    BY <1>1, <2>1, <2>2 DEF RoomType
  <2>4. [kind |-> "active", session |-> s] # Wipe
    BY DEF Wipe
  <2> QED BY <1>1, <2>1, <2>2, <2>3, <2>4, KeepsStore
<1>4. CASE OnServerReady(from)
  <2>1. room'.history = room.history /\ room'.inHub = room.inHub /\ UNCHANGED <<writes, unstored>>
    BY <1>1, <1>4 DEF OnServerReady, RoomType
  <2> QED BY <1>1, <2>1, KeepsStore
<1> QED BY <1>2, <1>3, <1>4 DEF Read

\* What is restored is what is stored, and it is noted if that is about to be deleted.
LEMMA HelloStoreInv ==
    ASSUME TypeOK, OneSession, StoreInv, Hello
    PROVE  StoreInv'
<1>1. CASE UNCHANGED <<room, store, writes, unstored>>
  BY <1>1, KeepsStore
<1>2. ASSUME Range(room'.history) \subseteq store'.events,
             unstored' = (unstored \/ (Wipe \in writes' /\ room'.history # << >>))
      PROVE  StoreInv'
  BY <1>2 DEF StoreInv, NoWipe, Written
<1> QED BY <1>1, <1>2, HelloRoom

\* The steps that write no event keep the store following.
LEMMA OthersStoreInv ==
    ASSUME TypeOK, StoreInv,
           \/ StopSharing \/ Detach \/ Retain \/ TakeOver \/ Register
           \/ HostDrop \/ PersistFails \/ Expire \/ Restart
    PROVE  StoreInv'
<1>1. CASE StopSharing \/ Expire \/ Restart
  BY <1>1, NoRoomStore DEF StopSharing, Expire, Restart, EmptyRoom
<1>2. CASE Detach \/ Retain \/ TakeOver \/ Register \/ HostDrop
  <2>1. UNCHANGED <<store, writes, unstored>>
    BY <1>2 DEF Detach, Retain, TakeOver, Register, HostDrop
  <2>2. room'.history = room.history /\ room'.inHub = room.inHub
    <3>1. \/ room' = room
          \/ room' = [room EXCEPT !.server = 0, !.ready = FALSE]
          \/ room' = [room EXCEPT !.retained = room.inHub]
          \/ room' = [room EXCEPT !.server = link, !.ready = FALSE, !.retained = FALSE]
      BY <1>2 DEF Detach, Retain, TakeOver, Register, HostDrop
    <3> QED BY <3>1, Rooms DEF RoomType
  <2> QED BY <2>1, <2>2, KeepsStore
<1>3. CASE PersistFails
  BY <1>3 DEF PersistFails, StoreInv, NoWipe, Written
<1> QED BY <1>1, <1>2, <1>3

LEMMA ClientStoreInv ==
    ASSUME TypeOK, StoreInv, NEW c \in Peer,
           Join(c) \/ ResumeFrom(c) \/ ResumeHello(c) \/ FinishResume(c) \/ DetachClient(c) \/ ClientDrop(c)
    PROVE  StoreInv'
<1>1. CASE Join(c) \/ ResumeFrom(c) \/ FinishResume(c) \/ ClientDrop(c)
  <2>1. UNCHANGED <<room, store, writes, unstored>>
    BY <1>1 DEF Join, ResumeFrom, OnResume, FinishResume, ClientDrop
  <2> QED BY <2>1, KeepsStore
<1>2. CASE ResumeHello(c)
  <2>1. PICK cursor \in SavedCursor : store' = [store EXCEPT !.cursor = cursor] /\ OnResume(c, cursor)
    BY <1>2 DEF ResumeHello
  <2>2. store'.events = store.events /\ UNCHANGED <<room, writes, unstored>>
    BY <2>1, Rooms DEF StoreType, OnResume
  <2> QED BY <2>2, KeepsStore
<1>3. CASE DetachClient(c)
  <2>1. CASE UNCHANGED <<room, writes>>
    BY <1>3, <2>1, KeepsStore DEF DetachClient
  <2>2. CASE room' = [room EXCEPT !.inHub = FALSE]
    <3>1. ~room'.inHub
      BY <2>2, Rooms DEF RoomType
    <3> QED BY <3>1, NoRoomStore
  <2> QED BY <1>3, <2>1, <2>2 DEF DetachClient
<1> QED BY <1>1, <1>2, <1>3

-----------------------------------------------------------------------------
(* The theorems *)

RoomInv == TypeOK /\ HostInv /\ ClientInv /\ StoreInv

\* Initially, by every step, and always.
LEMMA InitRoomInv == Init => RoomInv
<1> SUFFICES ASSUME Init PROVE RoomInv
  OBVIOUS
<1>1. /\ room \in [inHub : BOOLEAN, session : Session \cup {None}, history : Seq(Event),
                   server : 0 .. link, ready : BOOLEAN, retained : BOOLEAN, expired : BOOLEAN]
      /\ ~room.ready /\ ~room.expired /\ room.history = << >>
  <2>1. /\ EmptyRoom \in [inHub : BOOLEAN, session : Session \cup {None}, history : Seq(Event),
                          server : 0 .. 0, ready : BOOLEAN, retained : BOOLEAN, expired : BOOLEAN]
        /\ ~EmptyRoom.ready /\ ~EmptyRoom.expired /\ EmptyRoom.history = << >>
    BY DEF EmptyRoom
  <2>2. room \in {EmptyRoom, [EmptyRoom EXCEPT !.inHub = TRUE, !.retained = TRUE]} /\ link = 0
    BY DEF Init, Reserved
  <2> HIDE DEF EmptyRoom
  <2> QED BY <2>1, <2>2
<1>2. /\ got = {} /\ gapped = {} /\ known = None /\ store = EmptyStore /\ writes = {}
      /\ link = 0 /\ oldLink = 0 /\ faults = 0 /\ phase = "down"
      /\ leaving = FALSE /\ emptied = FALSE /\ unstored = FALSE
      /\ peer = [c \in Peer |-> NoPeer]
  BY DEF Init
<1>3. store \in StoreType /\ store.cursor = None
  BY <1>2 DEF EmptyStore, StoreType
<1>4. TypeOK
  <2>1. RoomTyped /\ PeersTyped
    BY <1>1, <1>2 DEF RoomTyped, PeersTyped, NoPeer
  <2>2. link \in 0 .. MaxFaults + 1 /\ oldLink \in 0 .. link /\ faults \in 0 .. MaxFaults
    BY <1>2, RelayAssumption
  <2>3. LinkTyped /\ StoreTyped
    BY <1>2, <1>3, <2>2 DEF LinkTyped, StoreTyped
  <2> QED BY <2>1, <2>3, Typed
<1>5. HostInv
  BY <1>1, <1>2 DEF HostInv, Links, Handshake, HostHasRoom
<1>6. \A c \in Peer : peer[c].cursor = None
  BY <1>2 DEF NoPeer
<1>7. DOMAIN room.history = {} /\ Range(room.history) = {}
  BY <1>1 DEF Range
<1>8. HistoryInv /\ ReadyMissesNothing
  BY <1>7 DEF HistoryInv, OneSession, InFront, GapFree, ReadyMissesNothing
<1>9. GotInv
  BY <1>2, <1>6, <1>3 DEF GotInv
<1>10. StoreInv
  BY <1>1, <1>7 DEF StoreInv, NoWipe, Written
<1> QED BY <1>8, <1>9, <1>10, <1>4, <1>5 DEF RoomInv, ClientInv

LEMMA NextRoomInv == RoomInv /\ [Next]_vars => RoomInv'
<1> SUFFICES ASSUME RoomInv, [Next]_vars PROVE RoomInv'
  OBVIOUS
<1>1. TypeOK /\ HostInv /\ ClientInv /\ StoreInv /\ Links /\ OneSession
  BY DEF RoomInv, HostInv, ClientInv, HistoryInv
<1>2. ASSUME NEW from \in {link, oldLink}, Read(from) PROVE RoomInv'
  BY <1>1, <1>2, ReadType, ReadHostInv, ReadClientInv, ReadStoreInv DEF RoomInv
<1>3. CASE Hello
  BY <1>1, <1>3, HelloType, HelloHostInv, HelloClientInv, HelloStoreInv DEF RoomInv
<1>4. CASE StopSharing \/ Detach \/ Retain \/ TakeOver \/ Register \/ HostDrop \/ PersistFails
  BY <1>1, <1>4, HostType, OthersHostInv, HostClientInv, OthersStoreInv DEF RoomInv
<1>5. CASE Expire \/ Restart
  BY <1>1, <1>5, RelayType, OthersHostInv, RelayClientInv, OthersStoreInv DEF RoomInv
<1>6. ASSUME NEW c \in Peer,
             Join(c) \/ ResumeFrom(c) \/ ResumeHello(c) \/ FinishResume(c) \/ DetachClient(c) \/ ClientDrop(c)
      PROVE  RoomInv'
  BY <1>1, <1>6, ClientType, ClientHostInv, PeerClientInv, FinishClientInv, ClientStoreInv DEF RoomInv
<1>7. CASE UNCHANGED vars
  <2>1. UNCHANGED <<link, phase, oldLink, leaving, room, store, writes, peer, known, got, gapped,
                    unstored, emptied, faults>>
    BY <1>7 DEF vars, hostLink, client
  <2>2. TypeOK' /\ HostInv' /\ StoreInv'
    BY <1>1, <2>1 DEF TypeOK, HostInv, Links, Handshake, HostHasRoom, StoreInv, NoWipe, Written
  <2>3. ClientInv'
    BY <1>1, <2>1, KeepsClients DEF Attached
  <2> QED BY <2>2, <2>3 DEF RoomInv
<1> QED BY <1>2, <1>3, <1>4, <1>5, <1>6, <1>7 DEF Next

LEMMA RoomInvariant == Spec => []RoomInv
BY InitRoomInv, NextRoomInv, PTL DEF Spec

\* A host that believes it shares is the server of its room, for any number of
\* connections, faults and clients.
THEOREM HostKeepsRoom == Spec => []HostHasRoom
<1>1. RoomInv => HostHasRoom
  BY DEF RoomInv, HostInv
<1> QED BY <1>1, RoomInvariant, PTL

\* A client that is ready has every event of the room, for any number of sessions and
\* events, whatever the relay restarted, restored or replayed.
THEOREM ReadyClientHasAll == Spec => []ReadyMissesNothing
<1>1. RoomInv => ReadyMissesNothing
  BY DEF RoomInv, ClientInv
<1> QED BY <1>1, RoomInvariant, PTL

\* What a room holds is of one session and is stored by every order of the writes that
\* are under way.
THEOREM RoomIsStored == Spec => []StoreFollows
<1>1. RoomInv => StoreFollows
  <2> SUFFICES ASSUME RoomInv PROVE StoreFollows
    OBVIOUS
  <2>1. TypeOK /\ OneSession /\ NoWipe /\ Written
    BY DEF RoomInv, ClientInv, HistoryInv, StoreInv
  <2>2. ASSUME room.inHub, ~unstored, NEW from \in Stores(writes), NEW e \in Range(room.history)
        PROVE  e \in from.events
    <3>1. Wipe \notin writes
      BY <2>1, <2>2 DEF NoWipe, Range
    <3>2. from.events = store.events \cup EventsOf(writes)
      BY <2>1, <2>2, <3>1, StoresType, Rooms DEF TypeOK
    <3>3. e \in store.events \/ [kind |-> "event", event |-> e] \in writes
      BY <2>1, <2>2 DEF Written
    <3> QED BY <3>2, <3>3 DEF EventsOf
  <2> QED BY <2>1, <2>2 DEF StoreFollows, StoreCatchesUp
<1> QED BY <1>1, RoomInvariant, PTL
=============================================================================
