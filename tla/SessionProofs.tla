----------------------------- MODULE SessionProofs -----------------------------
(***************************************************************************)
(* Joining and leaving, for every number of connections, rooms and frames: *)
(* the channel that handlers wait for is closed exactly in a room, a room  *)
(* that was left is shut down, and no stopped orchestrator signs.          *)
(***************************************************************************)
EXTENDS Session, TLAPS

Frame == [type : {"setup", "chat", "force", "leave"}, code : Codes]

RoomRecord ==
    [code : Codes, live : BOOLEAN, ledger : SUBSET Codes,
     batcher : {"empty", "pending", "stopped"}, orch : {"running", "stopped"},
     backlog : Nat, relay : Int, flush : BOOLEAN, turn : Int, signing : Int]

HandlerRecord ==
    [pc : {"rest", "dead", "announce", "wait", "sign", "publish", "batch", "flush",
           "answer", "stopBatcher", "stopOrch", "cancel"},
     room : Nat, chan : Nat, code : Codes \cup {0}, force : BOOLEAN]

\* A room among n rooms; whoever signs has a turn.
RoomOk(r, n) ==
    /\ r \in RoomRecord
    /\ r.relay \in -1 .. n /\ r.turn \in 0 .. n /\ r.signing \in -1 .. n
    /\ r.signing >= 0 => r.turn # 0

RoomsOk(rs) ==
    /\ rs \in Seq(RoomRecord)
    /\ \A g \in DOMAIN rs : RoomOk(rs[g], Len(rs))

\* StoppedIsSilent of any rooms.
Silent(rs) ==
    \A g \in DOMAIN rs : rs[g].signing >= 0 => rs[rs[g].turn].orch = "running"

\* A handler in resetRoom.
Leaving(h) == h.pc \in {"stopBatcher", "stopOrch", "cancel"}

\* A handler among n rooms; one that has a message knows the room it is for.
HandlerOk(h, n) ==
    /\ h \in HandlerRecord
    /\ h.room \in 0 .. n
    /\ h.pc \in {"wait", "sign", "publish"} => h.code \in Codes
    /\ h.pc \in {"flush", "answer"} \/ Leaving(h) => h.room # 0

References ==
    /\ ready \in BOOLEAN /\ (ready <=> cur # 0)
    /\ cur \in 0 .. Len(rooms)
    /\ done \in Nat /\ closed \in SUBSET (0 .. done)
    /\ DoneIffReady

PageOk ==
    /\ page \in [conn : Conns \cup {0}, opened : Nat, code : Codes \cup {0}]
    /\ page.conn # 0 => page.code \in Codes
    /\ frames \in [Conns -> Seq(Frame)]

HandlersOk ==
    /\ handler \in [Conns -> HandlerRecord]
    /\ \A c \in Conns : HandlerOk(handler[c], Len(rooms))

Inv ==
    /\ RoomsOk(rooms) /\ Silent(rooms)
    /\ References /\ PageOk /\ HandlersOk
    /\ OneLiveRoom

-----------------------------------------------------------------------------
(* Rooms.                                                                  *)

\* What most goroutines do to a room: its context and its orchestrator stay, and
\* it signs nothing but the reply of a running orchestrator.
Tame(rs, g, r) ==
    /\ RoomOk(r, Len(rs))
    /\ r.orch = rs[g].orch /\ r.live = rs[g].live
    /\ r.signing >= 0 => rs[r.turn].orch = "running"

\* What is left of the rooms' invariants to show after such changes: nothing.
Alike(rs, us) ==
    /\ RoomsOk(us) /\ Silent(us)
    /\ Len(us) = Len(rs) /\ DOMAIN us = DOMAIN rs
    /\ \A h \in DOMAIN rs : us[h].live = rs[h].live /\ us[h].orch = rs[h].orch

\* main.go:162-184: one room is replaced.
LEMMA PutShape ==
    ASSUME NEW rs, RoomsOk(rs), NEW g \in DOMAIN rs, NEW r, RoomOk(r, Len(rs))
    PROVE  LET us == [rs EXCEPT ![g] = r] IN
           /\ RoomsOk(us)
           /\ Len(us) = Len(rs) /\ DOMAIN us = DOMAIN rs
           /\ us[g] = r /\ \A h \in DOMAIN rs \ {g} : us[h] = rs[h]
<1>. DEFINE us == [rs EXCEPT ![g] = r]
<1>1. rs \in Seq(RoomRecord) /\ r \in RoomRecord
  BY DEF RoomsOk, RoomOk
<1>2. /\ us \in Seq(RoomRecord) /\ Len(us) = Len(rs) /\ DOMAIN us = DOMAIN rs
      /\ us[g] = r /\ \A h \in DOMAIN rs \ {g} : us[h] = rs[h]
  BY <1>1
<1>. HIDE DEF us
<1>3. \A h \in DOMAIN us : RoomOk(us[h], Len(us))
  BY <1>2 DEF RoomsOk
<1>. QED BY <1>2, <1>3 DEF RoomsOk, us

\* main.go:162-184: a tame change of a room keeps what holds of all rooms.
LEMMA PutTame ==
    ASSUME NEW rs, RoomsOk(rs), Silent(rs),
           NEW g \in DOMAIN rs, NEW r, Tame(rs, g, r)
    PROVE  Alike(rs, [rs EXCEPT ![g] = r])
<1>. DEFINE us == [rs EXCEPT ![g] = r]
<1>1. /\ RoomsOk(us) /\ Len(us) = Len(rs) /\ DOMAIN us = DOMAIN rs
      /\ us[g] = r /\ \A h \in DOMAIN rs \ {g} : us[h] = rs[h]
  BY PutShape DEF Tame
<1>. HIDE DEF us
<1>2. \A h \in DOMAIN rs : us[h].live = rs[h].live /\ us[h].orch = rs[h].orch
  BY <1>1 DEF Tame
<1>3. DOMAIN rs = 1 .. Len(rs) /\ Len(rs) \in Nat
  BY DEF RoomsOk
<1>4. Silent(us)
  <2>. SUFFICES ASSUME NEW h \in DOMAIN us, us[h].signing >= 0
                PROVE  us[us[h].turn].orch = "running"
    BY DEF Silent
  <2>1. us[h].turn \in DOMAIN rs
    BY <1>1, <1>3 DEF RoomsOk, RoomOk
  <2>2. rs[us[h].turn].orch = "running"
    BY <1>1 DEF Tame, Silent
  <2>. QED BY <1>2, <2>1, <2>2
<1>. QED BY <1>1, <1>2, <1>4 DEF Alike, us

\* main.go:162-184: two tame changes.
LEMMA AlikeTwice ==
    ASSUME NEW rs, NEW us, NEW vs, Alike(rs, us), Alike(us, vs)
    PROVE  Alike(rs, vs)
BY DEF Alike

\* main.go:162-184: no change at all.
LEMMA AlikeSelf ==
    ASSUME NEW rs, RoomsOk(rs), Silent(rs) PROVE Alike(rs, rs)
BY DEF Alike

-----------------------------------------------------------------------------
(* The goroutines a room leaves behind.                                    *)

\* main.go:162-184: what the invariant says of one room.
LEMMA RoomFacts ==
    ASSUME Inv, NEW g \in Rooms
    PROVE  /\ rooms[g] \in RoomRecord /\ RoomOk(rooms[g], Len(rooms))
           /\ Len(rooms) \in Nat /\ DOMAIN rooms = 1 .. Len(rooms)
           /\ cur \in Nat /\ cur \in 0 .. Len(rooms)
           /\ rooms[g].signing >= 0 => rooms[rooms[g].turn].orch = "running"
BY DEF Inv, References, RoomsOk, RoomOk, Silent, Rooms

\* pubsub.go:240-313: readLoop.
LEMMA ArriveTame ==
    ASSUME Inv, NEW g \in Rooms, Arrive(g) PROVE Alike(rooms, rooms')
<1>. DEFINE r == [rooms[g] EXCEPT !.backlog = @ + 1]
<1>1. /\ rooms[g] \in RoomRecord /\ RoomOk(rooms[g], Len(rooms))
      /\ Len(rooms) \in Nat /\ DOMAIN rooms = 1 .. Len(rooms)
      /\ cur \in Nat /\ cur \in 0 .. Len(rooms)
      /\ rooms[g].signing >= 0 => rooms[rooms[g].turn].orch = "running"
  BY RoomFacts
<1>2. Tame(rooms, g, r)
  BY <1>1 DEF Tame, RoomOk, RoomRecord
<1>3. rooms' = [rooms EXCEPT ![g] = r]
  BY DEF Arrive
<1>. QED BY <1>2, <1>3, PutTame DEF Inv, Rooms

\* main.go:348-363: the relay reads the references.
LEMMA RelayTakesTame ==
    ASSUME Inv, NEW g \in Rooms, RelayTakes(g) PROVE Alike(rooms, rooms')
<1>. DEFINE r == [rooms[g] EXCEPT !.backlog = @ - 1, !.relay = cur]
<1>1. /\ rooms[g] \in RoomRecord /\ RoomOk(rooms[g], Len(rooms))
      /\ Len(rooms) \in Nat /\ DOMAIN rooms = 1 .. Len(rooms)
      /\ cur \in Nat /\ cur \in 0 .. Len(rooms)
      /\ rooms[g].signing >= 0 => rooms[rooms[g].turn].orch = "running"
  BY RoomFacts
<1>2. Tame(rooms, g, r)
  <2>1. rooms[g].backlog - 1 \in Nat
    BY <1>1 DEF RoomRecord, RelayTakes
  <2>2. r \in RoomRecord
    <3>1. cur \in Int
      BY <1>1
    <3>. QED BY <1>1, <2>1, <3>1 DEF RoomRecord
  <2>3. RoomOk(r, Len(rooms))
    BY <1>1, <2>1, <2>2 DEF RoomOk, RoomRecord
  <2>. QED BY <1>1, <2>3 DEF Tame, RoomRecord
<1>3. rooms' = [rooms EXCEPT ![g] = r]
  BY DEF RelayTakes
<1>. QED BY <1>2, <1>3, PutTame DEF Inv, Rooms

\* main.go:365-407: the relay uses what it read.
LEMMA RelayAcceptsTame ==
    ASSUME Inv, NEW g \in Rooms, RelayAccepts(g) PROVE Alike(rooms, rooms')
<1>. DEFINE to == rooms[g].relay
            r == [rooms[g] EXCEPT !.relay = -1]
            free == [rooms EXCEPT ![g] = r]
            u == [free[to] EXCEPT
                    !.ledger = @ \cup {rooms[g].code},
                    !.batcher = IF @ = "empty" THEN "pending" ELSE @]
<1>1. /\ rooms[g] \in RoomRecord /\ RoomOk(rooms[g], Len(rooms))
      /\ Len(rooms) \in Nat /\ DOMAIN rooms = 1 .. Len(rooms)
      /\ cur \in Nat /\ cur \in 0 .. Len(rooms)
      /\ rooms[g].signing >= 0 => rooms[rooms[g].turn].orch = "running"
  BY RoomFacts
<1>2. Tame(rooms, g, r)
  BY <1>1 DEF Tame, RoomOk, RoomRecord
<1>3. Alike(rooms, free)
  BY <1>2, PutTame DEF Inv, Rooms
<1>4. CASE to = 0
  <2>1. rooms' = free
    BY <1>4 DEF RelayAccepts
  <2>. QED BY <1>3, <2>1
<1>5. CASE to # 0
  <2>1. to \in DOMAIN rooms
    <3>1. to >= 0 /\ to \in -1 .. Len(rooms)
      BY <1>1 DEF RelayAccepts, RoomOk
    <3>. HIDE DEF to
    <3>2. to \in 1 .. Len(rooms)
      BY <1>1, <1>5, <3>1
    <3>. QED BY <1>1, <3>2
  <2>2. rooms' = [free EXCEPT ![to] = u]
    <3>1. rooms' = [[rooms EXCEPT ![g].relay = -1] EXCEPT
                        ![to].ledger = @ \cup {rooms[g].code},
                        ![to].batcher = IF @ = "empty" THEN "pending" ELSE @]
      BY <1>5 DEF RelayAccepts
    <3>2. [rooms EXCEPT ![g].relay = -1] = free
      OBVIOUS
    <3>3. rooms' = [free EXCEPT
                        ![to].ledger = @ \cup {rooms[g].code},
                        ![to].batcher = IF @ = "empty" THEN "pending" ELSE @]
      BY <3>1, <3>2
    <3>. HIDE DEF free, to
    <3>. QED BY <3>3
  <2>. HIDE DEF free
  <2>3. RoomOk(free[to], Len(free)) /\ free[to] \in RoomRecord
    BY <1>3, <2>1 DEF Alike, RoomsOk, RoomOk
  <2>4. rooms[g].code \in Codes
    BY <1>1 DEF RoomRecord
  <2>5. Tame(free, to, u)
    <3>1. u \in RoomRecord
      BY <2>3, <2>4 DEF RoomRecord
    <3>2. /\ u.relay = free[to].relay /\ u.turn = free[to].turn
          /\ u.signing = free[to].signing
          /\ u.orch = free[to].orch /\ u.live = free[to].live
      BY <2>3 DEF RoomRecord
    <3>. HIDE DEF u
    <3>3. RoomOk(u, Len(free))
      BY <2>3, <3>1, <3>2 DEF RoomOk
    <3>4. u.signing >= 0 => free[u.turn].orch = "running"
      BY <1>3, <2>1, <3>2 DEF Alike, Silent
    <3>. QED BY <3>2, <3>3, <3>4 DEF Tame
  <2>6. Alike(free, rooms')
    <3>1. RoomsOk(free) /\ Silent(free) /\ to \in DOMAIN free
      BY <1>3, <2>1 DEF Alike
    <3>. HIDE DEF u, to
    <3>. QED BY <2>2, <2>5, <3>1, PutTame
  <2>. QED BY <1>3, <2>6, AlikeTwice
<1>. QED BY <1>4, <1>5

\* batcher.go:99-125: a timer drains the batcher.
LEMMA DrainTame ==
    ASSUME Inv, NEW g \in Rooms, Drain(g) PROVE Alike(rooms, rooms')
<1>. DEFINE r == [rooms[g] EXCEPT !.batcher = "empty", !.flush = TRUE]
<1>1. /\ rooms[g] \in RoomRecord /\ RoomOk(rooms[g], Len(rooms))
      /\ Len(rooms) \in Nat /\ DOMAIN rooms = 1 .. Len(rooms)
      /\ cur \in Nat /\ cur \in 0 .. Len(rooms)
      /\ rooms[g].signing >= 0 => rooms[rooms[g].turn].orch = "running"
  BY RoomFacts
<1>2. Tame(rooms, g, r)
  BY <1>1 DEF Tame, RoomOk, RoomRecord
<1>3. rooms' = [rooms EXCEPT ![g] = r]
  BY DEF Drain
<1>. QED BY <1>2, <1>3, PutTame DEF Inv, Rooms

\* main.go:918-920: a turn begins with the orchestrator of the moment.
LEMMA FlushTame ==
    ASSUME Inv, NEW g \in Rooms, Flush(g) PROVE Alike(rooms, rooms')
<1>. DEFINE turn == IF cur = 0 \/ rooms[cur].orch = "stopped" THEN 0 ELSE cur
            r == [rooms[g] EXCEPT !.flush = FALSE, !.turn = turn]
<1>1. /\ rooms[g] \in RoomRecord /\ RoomOk(rooms[g], Len(rooms))
      /\ Len(rooms) \in Nat /\ DOMAIN rooms = 1 .. Len(rooms)
      /\ cur \in Nat /\ cur \in 0 .. Len(rooms)
      /\ rooms[g].signing >= 0 => rooms[rooms[g].turn].orch = "running"
  BY RoomFacts
<1>2. Tame(rooms, g, r)
  <2>1. turn \in 0 .. Len(rooms) /\ turn \in Int
    BY <1>1
  <2>2. rooms[g].turn = 0 /\ rooms[g].signing = -1
    BY <1>1 DEF Flush, RoomOk
  <2>. HIDE DEF turn
  <2>3. r \in RoomRecord
    BY <1>1, <2>1 DEF RoomRecord
  <2>. QED BY <1>1, <2>1, <2>2, <2>3 DEF Tame, RoomOk, RoomRecord
<1>3. rooms' = [rooms EXCEPT ![g] = r]
  BY DEF Flush
<1>. QED BY <1>2, <1>3, PutTame DEF Inv, Rooms

\* orchestrator.go:286-300: a turn ends without a reply.
LEMMA SilenceTame ==
    ASSUME Inv, NEW g \in Rooms, Silence(g) PROVE Alike(rooms, rooms')
<1>. DEFINE r == [rooms[g] EXCEPT !.turn = 0]
<1>1. /\ rooms[g] \in RoomRecord /\ RoomOk(rooms[g], Len(rooms))
      /\ Len(rooms) \in Nat /\ DOMAIN rooms = 1 .. Len(rooms)
      /\ cur \in Nat /\ cur \in 0 .. Len(rooms)
      /\ rooms[g].signing >= 0 => rooms[rooms[g].turn].orch = "running"
  BY RoomFacts
<1>2. Tame(rooms, g, r)
  <2>1. r \in RoomRecord
    BY <1>1 DEF RoomRecord
  <2>2. rooms[g].signing = -1
    BY DEF Silence
  <2>. QED BY <1>1, <2>1, <2>2 DEF Tame, RoomOk, RoomRecord
<1>3. rooms' = [rooms EXCEPT ![g] = r]
  BY DEF Silence
<1>. QED BY <1>2, <1>3, PutTame DEF Inv, Rooms

\* orchestrator.go:290-305, main.go:186-197: a running orchestrator signs.
LEMMA SignReplyTame ==
    ASSUME Inv, NEW g \in Rooms, SignReply(g) PROVE Alike(rooms, rooms')
<1>. DEFINE r == [rooms[g] EXCEPT !.signing = InRoom]
<1>1. /\ rooms[g] \in RoomRecord /\ RoomOk(rooms[g], Len(rooms))
      /\ Len(rooms) \in Nat /\ DOMAIN rooms = 1 .. Len(rooms)
      /\ cur \in Nat /\ cur \in 0 .. Len(rooms)
      /\ rooms[g].signing >= 0 => rooms[rooms[g].turn].orch = "running"
  BY RoomFacts
<1>2. Tame(rooms, g, r)
  <2>1. InRoom \in 0 .. Len(rooms) /\ InRoom \in Int
    BY <1>1 DEF InRoom
  <2>2. rooms[g].turn # 0 /\ rooms[rooms[g].turn].orch = "running"
    BY DEF SignReply
  <2>3. r \in RoomRecord
    BY <1>1, <2>1 DEF RoomRecord
  <2>. QED BY <1>1, <2>1, <2>2, <2>3 DEF Tame, RoomOk, RoomRecord
<1>3. rooms' = [rooms EXCEPT ![g] = r]
  BY DEF SignReply
<1>. QED BY <1>2, <1>3, PutTame DEF Inv, Rooms

\* main.go:210-217: what a publish comes to.
LEMMA OutcomesTame ==
    ASSUME NEW rs, RoomsOk(rs), Silent(rs),
           NEW g \in 0 .. Len(rs), NEW code \in Codes,
           NEW us \in Outcomes(rs, g, code)
    PROVE  Alike(rs, us)
<1>1. CASE us = rs
  BY <1>1, AlikeSelf
<1>2. CASE us # rs
  <2>. DEFINE r == [rs[g] EXCEPT !.ledger = @ \cup {code}]
  <2>1. g \in DOMAIN rs /\ us = [rs EXCEPT ![g] = r]
    <3>1. g # 0 /\ us = [rs EXCEPT ![g].ledger = @ \cup {code}]
      BY <1>2 DEF Outcomes
    <3>2. DOMAIN rs = 1 .. Len(rs)
      BY DEF RoomsOk
    <3>. QED BY <3>1, <3>2
  <2>2. RoomOk(rs[g], Len(rs)) /\ rs[g] \in RoomRecord
    BY <2>1 DEF RoomsOk, RoomOk
  <2>3. Tame(rs, g, r)
    BY <2>1, <2>2 DEF Tame, RoomOk, RoomRecord, Silent
  <2>. QED BY <2>1, <2>3, PutTame
<1>. QED BY <1>1, <1>2

\* main.go:210-217: a reply is published.
LEMMA PublishReplyTame ==
    ASSUME Inv, NEW g \in Rooms, PublishReply(g) PROVE Alike(rooms, rooms')
<1>. DEFINE r == [rooms[g] EXCEPT !.signing = -1, !.turn = 0]
            over == [rooms EXCEPT ![g] = r]
            code == rooms[rooms[g].turn].code
<1>1. /\ rooms[g] \in RoomRecord /\ RoomOk(rooms[g], Len(rooms))
      /\ Len(rooms) \in Nat /\ DOMAIN rooms = 1 .. Len(rooms)
      /\ cur \in Nat /\ cur \in 0 .. Len(rooms)
      /\ rooms[g].signing >= 0 => rooms[rooms[g].turn].orch = "running"
  BY RoomFacts
<1>2. Tame(rooms, g, r)
  <2>1. r \in RoomRecord
    <3>1. -1 \in Int /\ 0 \in Int
      OBVIOUS
    <3>. QED BY <1>1, <3>1 DEF RoomRecord
  <2>2. r.signing = -1 /\ r.turn = 0
    BY <1>1 DEF RoomRecord
  <2>. QED BY <1>1, <2>1, <2>2 DEF Tame, RoomOk, RoomRecord
<1>3. Alike(rooms, over)
  BY <1>2, PutTame DEF Inv, Rooms
<1>4. code \in Codes
  <2>1. rooms[g].turn \in DOMAIN rooms
    BY <1>1 DEF PublishReply, RoomOk
  <2>. QED BY <2>1 DEF Inv, RoomsOk, RoomOk, RoomRecord
<1>5. rooms[g].signing \in 0 .. Len(over)
  BY <1>1, <1>3 DEF PublishReply, RoomOk, Alike
<1>6. rooms' \in Outcomes(over, rooms[g].signing, code)
  BY DEF PublishReply
<1>. HIDE DEF over, code
<1>7. Alike(over, rooms')
  BY <1>3, <1>4, <1>5, <1>6, OutcomesTame DEF Alike
<1>. QED BY <1>3, <1>7, AlikeTwice

-----------------------------------------------------------------------------
(* Steps that keep the references.                                         *)

\* main.go:1127-1184: a handler goes on, or a goroutine does, and no room comes,
\* goes or is shut down.
LEMMA HandlersMove ==
    ASSUME Inv, Alike(rooms, rooms'), UNCHANGED <<state, page>>,
           frames' \in [Conns -> Seq(Frame)],
           handler' \in [Conns -> HandlerRecord],
           \A c \in Conns : HandlerOk(handler'[c], Len(rooms)),
           \A c \in Conns : Leaving(handler[c]) =>
                Leaving(handler'[c]) /\ handler'[c].room = handler[c].room
    PROVE  Inv'
<1>1. RoomsOk(rooms)' /\ Silent(rooms)' /\ Len(rooms') = Len(rooms)
  BY DEF Alike, RoomsOk, Silent
<1>2. References'
  BY <1>1 DEF Inv, References, DoneIffReady, state
<1>3. PageOk'
  BY DEF Inv, PageOk
<1>4. HandlersOk'
  BY <1>1 DEF HandlersOk
<1>5. OneLiveRoom'
  <2>. SUFFICES ASSUME NEW g \in DOMAIN rooms', rooms'[g].live, g # cur'
                PROVE  \E c \in Conns : handler'[c].room = g /\ Leaving(handler'[c])
    BY DEF OneLiveRoom, Rooms, Leaving
  <2>1. g \in DOMAIN rooms /\ rooms[g].live /\ g # cur
    BY DEF Alike, state
  <2>2. PICK c \in Conns : handler[c].room = g /\ Leaving(handler[c])
    BY <2>1 DEF Inv, OneLiveRoom, Rooms, Leaving
  <2>. QED BY <2>2
<1>. QED BY <1>1, <1>2, <1>3, <1>4, <1>5 DEF Inv

\* main.go:1127-1184: one handler goes on.
LEMMA HandlerMoves ==
    ASSUME Inv, NEW c \in Conns, NEW h, HandlerOk(h, Len(rooms)),
           handler' = [handler EXCEPT ![c] = h],
           Leaving(handler[c]) => Leaving(h) /\ h.room = handler[c].room,
           Alike(rooms, rooms'), UNCHANGED <<state, page>>,
           frames' \in [Conns -> Seq(Frame)]
    PROVE  Inv'
<1>1. /\ handler \in [Conns -> HandlerRecord] /\ h \in HandlerRecord
      /\ \A d \in Conns : HandlerOk(handler[d], Len(rooms))
  BY DEF Inv, HandlersOk, HandlerOk
<1>2. /\ handler' \in [Conns -> HandlerRecord]
      /\ handler'[c] = h /\ \A d \in Conns \ {c} : handler'[d] = handler[d]
  BY <1>1
<1>3. \A d \in Conns : HandlerOk(handler'[d], Len(rooms))
  BY <1>1, <1>2
<1>4. \A d \in Conns : Leaving(handler[d]) =>
                Leaving(handler'[d]) /\ handler'[d].room = handler[d].room
  BY <1>2
<1>. QED BY <1>2, <1>3, <1>4, HandlersMove

\* main.go:1127-1134: a handler takes a frame.
LEMMA TakesFrame ==
    ASSUME Inv, NEW c \in Conns, NEW types, Takes(c, types)
    PROVE  /\ frames' \in [Conns -> Seq(Frame)]
           /\ Head(frames[c]).code \in Codes
           /\ handler[c].pc = "rest" /\ ~ Leaving(handler[c])
<1>1. frames \in [Conns -> Seq(Frame)] /\ frames[c] # << >>
  BY DEF Inv, PageOk, Takes
<1>2. frames[c] \in Seq(Frame)
  BY <1>1
<1>3. Head(frames[c]) \in Frame /\ Tail(frames[c]) \in Seq(Frame)
  BY <1>1, <1>2
<1>4. frames' = [frames EXCEPT ![c] = Tail(frames[c])] /\ handler[c].pc = "rest"
  BY DEF Takes
<1>5. frames' \in [Conns -> Seq(Frame)]
  BY <1>1, <1>3, <1>4
<1>. QED BY <1>3, <1>4, <1>5 DEF Frame, Leaving

\* main.go:1127-1184: a handler that is not leaving goes on with the message, if
\* any, and the room it has.
LEMMA GoesOn ==
    ASSUME Inv, NEW c \in Conns, NEW pc, Go(c, pc),
           \/ pc \in {"rest", "dead", "announce", "batch"}
           \/ pc = "sign" /\ handler[c].code \in Codes
           \/ pc = "answer" /\ handler[c].room # 0,
           ~ Leaving(handler[c]),
           Alike(rooms, rooms'), UNCHANGED <<state, page>>,
           frames' \in [Conns -> Seq(Frame)]
    PROVE  Inv'
<1>. DEFINE h == [handler[c] EXCEPT !.pc = pc]
<1>1. handler[c] \in HandlerRecord /\ HandlerOk(handler[c], Len(rooms))
  BY DEF Inv, HandlersOk, HandlerOk
<1>2. /\ h \in HandlerRecord
      /\ h.pc = pc /\ h.room = handler[c].room /\ h.code = handler[c].code
  BY <1>1 DEF HandlerRecord
<1>3. handler' = [handler EXCEPT ![c] = h]
  BY DEF Go
<1>. HIDE DEF h
<1>4. HandlerOk(h, Len(rooms))
  BY <1>1, <1>2 DEF HandlerOk, Leaving
<1>. QED BY <1>3, <1>4, HandlerMoves

\* main.go:348-407, batcher.go, orchestrator.go: the goroutines of a room.
LEMMA GoroutineStep ==
    ASSUME Inv, NEW g \in Rooms, Goroutines(g) PROVE Inv'
<1>1. Alike(rooms, rooms')
  BY ArriveTame, RelayTakesTame, RelayAcceptsTame, DrainTame, FlushTame, SilenceTame,
     SignReplyTame, PublishReplyTame DEF Goroutines
<1>2. UNCHANGED <<state, page, frames, handler>>
  BY DEF Goroutines, Arrive, RelayTakes, RelayAccepts, Drain, Flush, Silence, SignReply,
         PublishReply, quiet, browser
<1>3. /\ frames' \in [Conns -> Seq(Frame)] /\ handler' \in [Conns -> HandlerRecord]
      /\ \A c \in Conns : HandlerOk(handler'[c], Len(rooms))
  BY <1>2 DEF Inv, PageOk, HandlersOk
<1>. QED BY <1>1, <1>2, <1>3, HandlersMove

-----------------------------------------------------------------------------
(* The handlers.                                                           *)

\* main.go:162-184: what the invariant says of one handler.
LEMMA HandlerFacts ==
    ASSUME Inv, NEW c \in Conns
    PROVE  /\ handler[c] \in HandlerRecord /\ HandlerOk(handler[c], Len(rooms))
           /\ frames \in [Conns -> Seq(Frame)]
           /\ RoomsOk(rooms) /\ Silent(rooms) /\ Alike(rooms, rooms)
           /\ Len(rooms) \in Nat /\ DOMAIN rooms = 1 .. Len(rooms)
           /\ cur \in 0 .. Len(rooms) /\ done \in Nat
BY AlikeSelf DEF Inv, PageOk, HandlersOk, References, RoomsOk

\* main.go:818-836: a setup that fails.
LEMMA SetupFailsStep == ASSUME Inv, NEW c \in Conns, SetupFails(c) PROVE Inv'
<1>1. frames' \in [Conns -> Seq(Frame)] /\ UNCHANGED <<state, page, rooms, handler>>
  BY TakesFrame DEF SetupFails
<1>2. Alike(rooms, rooms')
  BY <1>1, HandlerFacts
<1>. QED BY <1>1, <1>2, HandlersMove DEF Inv, HandlersOk

\* main.go:818-825, 1136-1149: a setup that finds a room, and its answer.
LEMMA SetupFindsRoomStep == ASSUME Inv, NEW c \in Conns, SetupFindsRoom(c) PROVE Inv'
<1>1. frames' \in [Conns -> Seq(Frame)] /\ ~ Leaving(handler[c])
  BY TakesFrame DEF SetupFindsRoom
<1>2. Alike(rooms, rooms') /\ UNCHANGED <<state, page>> /\ Go(c, "announce")
  BY HandlerFacts DEF SetupFindsRoom
<1>. QED BY <1>1, <1>2, GoesOn

\* main.go:1138-1149: the answer to a setup, or the end of the handler.
LEMMA AnnounceStep == ASSUME Inv, NEW c \in Conns, Announce(c) PROVE Inv'
<1>1. ~ Leaving(handler[c]) /\ frames' = frames /\ UNCHANGED <<state, page>> /\ rooms' = rooms
  BY DEF Announce, Leaving, browser
<1>2. Alike(rooms, rooms') /\ frames' \in [Conns -> Seq(Frame)]
  BY <1>1, HandlerFacts
<1>3. Go(c, "dead") \/ Go(c, "rest")
  BY DEF Announce
<1>. QED BY <1>1, <1>2, <1>3, GoesOn

\* main.go:1151-1179: a chat or a force_reply frame.
LEMMA TakesInputStep == ASSUME Inv, NEW c \in Conns, TakesInput(c) PROVE Inv'
<1>. DEFINE h == [pc |-> "wait", room |-> 0, chan |-> done, code |-> Head(frames[c]).code,
                  force |-> Head(frames[c]).type = "force"]
<1>1. /\ frames' \in [Conns -> Seq(Frame)] /\ ~ Leaving(handler[c])
      /\ Head(frames[c]).code \in Codes
  BY TakesFrame DEF TakesInput
<1>2. HandlerOk(h, Len(rooms))
  <2>1. (Head(frames[c]).type = "force") \in BOOLEAN
    OBVIOUS
  <2>2. h \in HandlerRecord
    BY <1>1, <2>1, HandlerFacts DEF HandlerRecord
  <2>. QED BY <1>1, <2>2, HandlerFacts DEF HandlerOk, Leaving
<1>3. Alike(rooms, rooms') /\ UNCHANGED <<state, page>> /\ handler' = [handler EXCEPT ![c] = h]
  BY HandlerFacts DEF TakesInput
<1>. HIDE DEF h
<1>. QED BY <1>1, <1>2, <1>3, HandlerMoves

\* main.go:1152,1178: a handler that waited gets through.
LEMMA ProceedsStep == ASSUME Inv, NEW c \in Conns, Proceeds(c) PROVE Inv'
<1>1. /\ handler[c].pc = "wait" /\ frames' = frames /\ UNCHANGED <<state, page>>
      /\ rooms' = rooms
  BY DEF Proceeds, browser
<1>2. ~ Leaving(handler[c]) /\ handler[c].code \in Codes
  BY <1>1, HandlerFacts DEF HandlerOk, Leaving
<1>3. Alike(rooms, rooms') /\ frames' \in [Conns -> Seq(Frame)]
  BY <1>1, HandlerFacts
<1>4. Go(c, "batch") \/ Go(c, "sign")
  BY DEF Proceeds
<1>. QED BY <1>1, <1>2, <1>3, <1>4, GoesOn

\* main.go:186-217: the handler signs in the room of the moment ...
LEMMA SignChatStep == ASSUME Inv, NEW c \in Conns, SignChat(c) PROVE Inv'
<1>. DEFINE h == [handler[c] EXCEPT !.pc = "publish", !.room = InRoom]
<1>1. /\ handler[c].pc = "sign" /\ frames' = frames /\ UNCHANGED <<state, page>>
      /\ rooms' = rooms /\ handler' = [handler EXCEPT ![c] = h]
  BY DEF SignChat, browser
<1>2. ~ Leaving(handler[c]) /\ handler[c].code \in Codes
  BY <1>1, HandlerFacts DEF HandlerOk, Leaving
<1>3. InRoom \in 0 .. Len(rooms) /\ InRoom \in Nat
  BY HandlerFacts DEF InRoom
<1>4. /\ h \in HandlerRecord
      /\ h.pc = "publish" /\ h.room = InRoom /\ h.code = handler[c].code
  BY <1>3, HandlerFacts DEF HandlerRecord
<1>. HIDE DEF h
<1>5. HandlerOk(h, Len(rooms))
  BY <1>2, <1>3, <1>4 DEF HandlerOk, Leaving
<1>6. Alike(rooms, rooms') /\ frames' \in [Conns -> Seq(Frame)]
  BY <1>1, HandlerFacts
<1>. QED BY <1>1, <1>2, <1>5, <1>6, HandlerMoves

\* ... and publishes in it.
LEMMA PublishChatStep == ASSUME Inv, NEW c \in Conns, PublishChat(c) PROVE Inv'
<1>1. /\ handler[c].pc = "publish" /\ frames' = frames /\ UNCHANGED <<state, page>>
      /\ rooms' \in Outcomes(rooms, handler[c].room, handler[c].code) /\ Go(c, "batch")
  BY DEF PublishChat, browser
<1>2. /\ ~ Leaving(handler[c]) /\ handler[c].code \in Codes
      /\ handler[c].room \in 0 .. Len(rooms)
  BY <1>1, HandlerFacts DEF HandlerOk, Leaving
<1>3. Alike(rooms, rooms')
  BY <1>1, <1>2, HandlerFacts, OutcomesTame
<1>4. frames' \in [Conns -> Seq(Frame)]
  BY <1>1, HandlerFacts
<1>. QED BY <1>1, <1>2, <1>3, <1>4, GoesOn

\* batcher.go:44-97: a message is added to a batcher, or a stopped one ignores it.
LEMMA AddTame ==
    ASSUME RoomsOk(rooms), Silent(rooms), NEW g \in DOMAIN rooms
    PROVE  Alike(rooms, [rooms EXCEPT ![g].batcher = IF @ = "empty" THEN "pending" ELSE @])
<1>. DEFINE r == [rooms[g] EXCEPT !.batcher = IF @ = "empty" THEN "pending" ELSE @]
<1>1. rooms[g] \in RoomRecord /\ RoomOk(rooms[g], Len(rooms))
  BY DEF RoomsOk, RoomOk
<1>2. Tame(rooms, g, r)
  <2>1. r \in RoomRecord
    BY <1>1 DEF RoomRecord
  <2>2. /\ r.relay = rooms[g].relay /\ r.turn = rooms[g].turn
        /\ r.signing = rooms[g].signing
        /\ r.orch = rooms[g].orch /\ r.live = rooms[g].live
    BY <1>1 DEF RoomRecord
  <2>. HIDE DEF r
  <2>. QED BY <1>1, <2>1, <2>2 DEF Tame, RoomOk, Silent
<1>. QED BY <1>2, PutTame

\* main.go:1163-1181: the batcher gets the message, or has to flush.
LEMMA BatchStep == ASSUME Inv, NEW c \in Conns, Batch(c) PROVE Inv'
<1>1. handler[c].pc = "batch" /\ frames' = frames /\ UNCHANGED <<state, page>>
  BY DEF Batch, browser
<1>2. ~ Leaving(handler[c]) /\ frames' \in [Conns -> Seq(Frame)]
  BY <1>1, HandlerFacts DEF Leaving
<1>3. CASE cur = 0
  <2>1. Go(c, "dead") /\ rooms' = rooms
    BY <1>3 DEF Batch
  <2>. QED BY <1>1, <1>2, <2>1, HandlerFacts, GoesOn
<1>4. CASE cur # 0 /\ handler[c].force
  <2>. DEFINE h == [handler[c] EXCEPT !.pc = "flush", !.room = cur]
  <2>1. handler' = [handler EXCEPT ![c] = h] /\ rooms' = rooms
    BY <1>4 DEF Batch
  <2>2. cur \in 0 .. Len(rooms) /\ cur \in Nat
    BY HandlerFacts
  <2>3. h \in HandlerRecord /\ h.pc = "flush" /\ h.room = cur
    BY <2>2, HandlerFacts DEF HandlerRecord
  <2>. HIDE DEF h
  <2>4. HandlerOk(h, Len(rooms))
    BY <1>4, <2>2, <2>3 DEF HandlerOk, Leaving
  <2>. QED BY <1>1, <1>2, <2>1, <2>4, HandlerFacts, HandlerMoves
<1>5. CASE cur # 0 /\ ~ handler[c].force
  <2>1. /\ Go(c, "rest")
        /\ rooms' = [rooms EXCEPT ![cur].batcher = IF @ = "empty" THEN "pending" ELSE @]
    BY <1>5 DEF Batch
  <2>2. cur \in DOMAIN rooms
    BY <1>5, HandlerFacts
  <2>3. Alike(rooms, rooms')
    BY <2>1, <2>2, HandlerFacts, AddTame
  <2>. QED BY <1>1, <1>2, <2>1, <2>3, GoesOn
<1>. QED BY <1>3, <1>4, <1>5

\* main.go:918-920: a forced flush starts a turn in the handler's goroutine.
LEMMA FlushInHandlerStep == ASSUME Inv, NEW c \in Conns, FlushInHandler(c) PROVE Inv'
<1>. DEFINE g == handler[c].room
<1>1. handler[c].pc = "flush" /\ frames' = frames /\ UNCHANGED <<state, page>>
  BY DEF FlushInHandler, browser
<1>2. ~ Leaving(handler[c]) /\ frames' \in [Conns -> Seq(Frame)]
  BY <1>1, HandlerFacts DEF Leaving
<1>3. CASE cur = 0
  <2>1. Go(c, "dead") /\ rooms' = rooms
    BY <1>3 DEF FlushInHandler
  <2>. QED BY <1>1, <1>2, <2>1, HandlerFacts, GoesOn
<1>4. CASE cur # 0
  <2>. DEFINE r == [rooms[g] EXCEPT !.turn = cur]
  <2>1. /\ Go(c, "answer") /\ rooms' = [rooms EXCEPT ![g] = r]
        /\ rooms[g].turn = 0
    BY <1>4 DEF FlushInHandler
  <2>2. handler[c].room # 0 /\ g \in DOMAIN rooms
    BY <1>1, HandlerFacts DEF HandlerOk
  <2>3. rooms[g] \in RoomRecord /\ RoomOk(rooms[g], Len(rooms))
    BY <2>2, HandlerFacts DEF RoomsOk, RoomOk
  <2>4. cur \in 0 .. Len(rooms) /\ cur \in Int
    BY HandlerFacts
  <2>5. Tame(rooms, g, r)
    <3>1. r \in RoomRecord
      BY <2>3, <2>4 DEF RoomRecord
    <3>2. /\ r.relay = rooms[g].relay /\ r.turn = cur
          /\ r.signing = rooms[g].signing /\ ~ rooms[g].signing >= 0
          /\ r.orch = rooms[g].orch /\ r.live = rooms[g].live
      BY <2>1, <2>3 DEF RoomRecord, RoomOk
    <3>. HIDE DEF r
    <3>. QED BY <2>3, <2>4, <3>1, <3>2 DEF Tame, RoomOk
  <2>. HIDE DEF r
  <2>6. Alike(rooms, rooms')
    BY <2>1, <2>2, <2>5, HandlerFacts, PutTame
  <2>. QED BY <1>1, <1>2, <2>1, <2>2, <2>6, GoesOn
<1>. QED BY <1>3, <1>4

\* batcher.go:132-136: a forced flush returns.
LEMMA AnsweredStep == ASSUME Inv, NEW c \in Conns, Answered(c) PROVE Inv'
<1>1. /\ ~ Leaving(handler[c]) /\ frames' = frames /\ UNCHANGED <<state, page>>
      /\ rooms' = rooms /\ Go(c, "rest")
  BY DEF Answered, Leaving, browser
<1>2. Alike(rooms, rooms') /\ frames' \in [Conns -> Seq(Frame)]
  BY <1>1, HandlerFacts
<1>. QED BY <1>1, <1>2, GoesOn

-----------------------------------------------------------------------------
(* The page.                                                               *)

\* app.js:590-700: what the page sends is a frame.
LEMMA SendsFrame ==
    ASSUME Inv, NEW c, NEW f \in Frame, Send(c, f)
    PROVE  frames' \in [Conns -> Seq(Frame)]
<1>1. frames \in [Conns -> Seq(Frame)] /\ frames' = [frames EXCEPT ![c] = Append(@, f)]
  BY DEF Inv, PageOk, Send
<1>2. CASE c \in Conns
  <2>1. Append(frames[c], f) \in Seq(Frame)
    BY <1>1, <1>2
  <2>. QED BY <1>1, <2>1
<1>3. CASE c \notin Conns
  BY <1>1, <1>3
<1>. QED BY <1>2, <1>3

\* app.js: nothing the page does changes the program before a handler takes it.
LEMMA PageStep == ASSUME Inv, Page PROVE Inv'
<1>1. UNCHANGED <<state, rooms, handler>>
  BY DEF Page, Open, Type, PressLeave, Reload
<1>2. /\ page \in [conn : Conns \cup {0}, opened : Nat, code : Codes \cup {0}]
      /\ page.conn # 0 => page.code \in Codes
      /\ frames \in [Conns -> Seq(Frame)]
  BY DEF Inv, PageOk
<1>3. PageOk'
  <2>1. ASSUME NEW c \in Conns, NEW code \in Codes, Open(c, code) PROVE PageOk'
    <3>1. frames' \in [Conns -> Seq(Frame)]
      BY <2>1, SendsFrame DEF Open, Frame
    <3>2. page' = [conn |-> c, opened |-> c, code |-> code] /\ c \in Nat
      BY <2>1 DEF Open, Conns
    <3>. QED BY <3>1, <3>2 DEF PageOk
  <2>2. ASSUME NEW type \in {"chat", "force"}, Type(type) PROVE PageOk'
    <3>1. page.code \in Codes /\ page' = page
      BY <1>2, <2>2 DEF Type
    <3>2. [type |-> type, code |-> page.code] \in Frame
      BY <3>1 DEF Frame
    <3>3. frames' \in [Conns -> Seq(Frame)]
      BY <2>2, <3>2, SendsFrame DEF Type
    <3>. QED BY <1>2, <3>1, <3>3 DEF PageOk
  <2>3. CASE PressLeave
    <3>1. page.code \in Codes /\ page' = [page EXCEPT !.conn = 0]
      BY <1>2, <2>3 DEF PressLeave
    <3>2. [type |-> "leave", code |-> page.code] \in Frame
      BY <3>1 DEF Frame
    <3>3. frames' \in [Conns -> Seq(Frame)]
      BY <2>3, <3>2, SendsFrame DEF PressLeave
    <3>4. page' \in [conn : Conns \cup {0}, opened : Nat, code : Codes \cup {0}] /\ page'.conn = 0
      BY <1>2, <3>1
    <3>. QED BY <3>3, <3>4 DEF PageOk
  <2>4. CASE Reload
    <3>1. page' = [page EXCEPT !.conn = 0] /\ frames' = frames
      BY <2>4 DEF Reload
    <3>2. page' \in [conn : Conns \cup {0}, opened : Nat, code : Codes \cup {0}] /\ page'.conn = 0
      BY <1>2, <3>1
    <3>. QED BY <1>2, <3>1, <3>2 DEF PageOk
  <2>. QED BY <2>1, <2>2, <2>3, <2>4 DEF Page
<1>4. References' /\ HandlersOk' /\ OneLiveRoom'
  BY <1>1 DEF Inv, References, DoneIffReady, HandlersOk, OneLiveRoom, Rooms, state
<1>. QED BY <1>1, <1>3, <1>4 DEF Inv

-----------------------------------------------------------------------------
(* The steps of init and resetRoom.                                        *)

\* main.go:236-259: the references are cleared, the handler that did it is to shut
\* the room down, and the new channel was never closed.
LEMMA LeaveClearsStep == ASSUME Inv, NEW c \in Conns, LeaveClears(c) PROVE Inv'
<1>. DEFINE pc == IF cur = 0 THEN "rest" ELSE "stopBatcher"
            h == [handler[c] EXCEPT !.pc = pc, !.room = cur]
<1>1. frames' \in [Conns -> Seq(Frame)] /\ ~ Leaving(handler[c])
  BY TakesFrame DEF LeaveClears
<1>2. /\ ready' = FALSE /\ cur' = 0 /\ done' = done + 1 /\ UNCHANGED <<closed, rooms, page>>
      /\ handler' = [handler EXCEPT ![c] = h]
  BY DEF LeaveClears, NewDone
<1>3. cur \in 0 .. Len(rooms) /\ cur \in Nat
  BY HandlerFacts
<1>4. h \in HandlerRecord /\ h.pc = pc /\ h.room = cur
  BY <1>3, HandlerFacts DEF HandlerRecord
<1>. HIDE DEF h
<1>5. HandlerOk(h, Len(rooms))
  BY <1>3, <1>4 DEF HandlerOk, Leaving
<1>6. /\ handler \in [Conns -> HandlerRecord]
      /\ \A d \in Conns : HandlerOk(handler[d], Len(rooms))
  BY DEF Inv, HandlersOk
<1>7. /\ handler' \in [Conns -> HandlerRecord]
      /\ handler'[c] = h /\ \A d \in Conns \ {c} : handler'[d] = handler[d]
  BY <1>2, <1>4, <1>6
<1>8. HandlersOk'
  BY <1>2, <1>5, <1>6, <1>7 DEF HandlersOk
<1>9. References'
  <2>1. /\ done \in Nat /\ closed \in SUBSET (0 .. done) /\ Len(rooms) \in Nat
    BY HandlerFacts DEF Inv, References
  <2>2. closed \in SUBSET (0 .. done + 1) /\ done + 1 \notin closed /\ done + 1 \in Nat
    BY <2>1
  <2>3. done' \in Nat /\ closed' \in SUBSET (0 .. done') /\ done' \notin closed'
    BY <1>2, <2>2
  <2>4. cur' = 0 /\ cur' \in 0 .. Len(rooms')
    BY <1>2, <2>1
  <2>5. ready' \in BOOLEAN /\ (ready' <=> cur' # 0) /\ (ready' <=> done' \in closed')
    BY <1>2, <2>3, <2>4, Zenon
  <2>. QED BY <2>3, <2>4, <2>5, Zenon DEF References, DoneIffReady
<1>10. OneLiveRoom'
  <2>. SUFFICES ASSUME NEW g \in DOMAIN rooms, rooms[g].live
                PROVE  \E d \in Conns : handler'[d].room = g /\ Leaving(handler'[d])
    BY <1>2 DEF OneLiveRoom, Rooms, Leaving
  <2>1. CASE g = cur
    <3>1. cur # 0
      BY <2>1, HandlerFacts
    <3>. QED BY <1>4, <1>7, <2>1, <3>1 DEF Leaving
  <2>2. CASE g # cur
    <3>1. PICK d \in Conns : handler[d].room = g /\ Leaving(handler[d])
      BY <2>2 DEF Inv, OneLiveRoom, Rooms, Leaving
    <3>. QED BY <1>1, <1>7, <3>1
  <2>. QED BY <2>1, <2>2
<1>11. RoomsOk(rooms)' /\ Silent(rooms)'
  BY <1>2 DEF Inv
<1>12. PageOk'
  BY <1>1, <1>2 DEF Inv, PageOk
<1>. QED BY <1>8, <1>9, <1>10, <1>11, <1>12 DEF Inv

\* main.go:818-867, 1035: the new room is the current one, and the channel of
\* this moment is closed.
LEMMA SetupJoinsStep == ASSUME Inv, NEW c \in Conns, SetupJoins(c) PROVE Inv'
<1>. DEFINE code == Head(frames[c]).code
            n == Len(rooms)
            h == [handler[c] EXCEPT !.pc = "announce"]
<1>1. frames' \in [Conns -> Seq(Frame)] /\ ~ Leaving(handler[c]) /\ code \in Codes
  BY TakesFrame DEF SetupJoins
<1>2. /\ ~ ready /\ rooms' = Append(rooms, NewRoom(code))
      /\ ready' = TRUE /\ cur' = Len(rooms') /\ closed' = closed \cup {done}
      /\ UNCHANGED <<done, page>> /\ handler' = [handler EXCEPT ![c] = h]
  BY DEF SetupJoins, Go
<1>3. /\ rooms \in Seq(RoomRecord) /\ n \in Nat /\ DOMAIN rooms = 1 .. n
      /\ \A g \in 1 .. n : RoomOk(rooms[g], n)
  BY DEF Inv, RoomsOk
<1>4. NewRoom(code) \in RoomRecord /\ RoomOk(NewRoom(code), n + 1) /\ NewRoom(code).signing = -1
  <2>1. -1 \in Int /\ 0 \in Int /\ 0 \in Nat
    OBVIOUS
  <2>2. NewRoom(code) \in RoomRecord
    BY <1>1, <2>1 DEF NewRoom, RoomRecord
  <2>3. NewRoom(code).relay = -1 /\ NewRoom(code).turn = 0 /\ NewRoom(code).signing = -1
    BY DEF NewRoom
  <2>. QED BY <1>3, <2>2, <2>3 DEF RoomOk
<1>. HIDE DEF code, h
<1>5. /\ rooms' \in Seq(RoomRecord) /\ Len(rooms') = n + 1 /\ DOMAIN rooms' = 1 .. n + 1
      /\ rooms'[n + 1] = NewRoom(code) /\ \A g \in 1 .. n : rooms'[g] = rooms[g]
  BY <1>2, <1>3, <1>4
<1>. HIDE DEF n
<1>6. RoomsOk(rooms)'
  <2>1. \A g \in 1 .. n : RoomOk(rooms[g], n + 1)
    BY <1>3 DEF RoomOk
  <2>. QED BY <1>3, <1>4, <1>5, <2>1 DEF RoomsOk
<1>7. Silent(rooms)'
  <2>. SUFFICES ASSUME NEW g \in 1 .. n + 1, rooms'[g].signing >= 0
                PROVE  rooms'[rooms'[g].turn].orch = "running"
    BY <1>5 DEF Silent
  <2>1. g \in 1 .. n /\ rooms'[g] = rooms[g]
    BY <1>3, <1>4, <1>5
  <2>2. rooms[g].turn \in 1 .. n
    BY <1>3, <2>1 DEF RoomOk
  <2>. QED BY <1>3, <1>5, <2>1, <2>2 DEF Inv, Silent
<1>8. HandlersOk'
  <2>1. /\ handler \in [Conns -> HandlerRecord]
        /\ \A d \in Conns : HandlerOk(handler[d], n + 1)
    BY <1>3 DEF Inv, HandlersOk, HandlerOk, n
  <2>2. /\ h \in HandlerRecord /\ h.pc = "announce" /\ h.room = handler[c].room
    BY <2>1 DEF HandlerRecord, h
  <2>3. HandlerOk(h, n + 1)
    BY <2>1, <2>2 DEF HandlerOk, Leaving
  <2>. QED BY <1>2, <1>5, <2>1, <2>2, <2>3 DEF HandlersOk
<1>9. References'
  <2>1. done \in Nat /\ closed \in SUBSET (0 .. done)
    BY DEF Inv, References
  <2>2. closed' \in SUBSET (0 .. done) /\ done \in closed'
    BY <1>2, <2>1
  <2>. QED BY <1>2, <1>3, <1>5, <2>1, <2>2 DEF References, DoneIffReady
<1>10. OneLiveRoom'
  <2>. SUFFICES ASSUME NEW g \in 1 .. n, rooms[g].live
                PROVE  \E d \in Conns : handler'[d].room = g /\ Leaving(handler'[d])
    BY <1>2, <1>3, <1>5 DEF OneLiveRoom, Rooms, Leaving
  <2>1. cur = 0 /\ g # 0
    BY <1>2 DEF Inv, References
  <2>2. PICK d \in Conns : handler[d].room = g /\ Leaving(handler[d])
    BY <1>3, <2>1 DEF Inv, OneLiveRoom, Rooms, Leaving
  <2>3. handler'[d] = handler[d]
    BY <1>1, <1>2, <2>2 DEF Inv, HandlersOk
  <2>. QED BY <2>2, <2>3
<1>11. PageOk'
  BY <1>1, <1>2 DEF Inv, PageOk
<1>. QED BY <1>6, <1>7, <1>8, <1>9, <1>10, <1>11 DEF Inv

\* main.go:261-264: the batcher is stopped.
LEMMA StopBatcherStep == ASSUME Inv, NEW c \in Conns, StopBatcher(c) PROVE Inv'
<1>. DEFINE g == handler[c].room
            r == [rooms[g] EXCEPT !.batcher = "stopped"]
            h == [handler[c] EXCEPT !.pc = "stopOrch"]
<1>1. /\ handler[c].pc = "stopBatcher" /\ frames' = frames /\ UNCHANGED <<state, page>>
      /\ rooms' = [rooms EXCEPT ![g] = r] /\ handler' = [handler EXCEPT ![c] = h]
  BY DEF StopBatcher, Go, browser
<1>2. handler[c].room # 0 /\ g \in DOMAIN rooms
  BY <1>1, HandlerFacts DEF HandlerOk, Leaving
<1>3. rooms[g] \in RoomRecord /\ RoomOk(rooms[g], Len(rooms))
  BY <1>2, HandlerFacts DEF RoomsOk, RoomOk
<1>4. Tame(rooms, g, r)
  <2>1. rooms[g].signing >= 0 => rooms[rooms[g].turn].orch = "running"
    BY <1>2 DEF Inv, Silent
  <2>. QED BY <1>3, <2>1 DEF Tame, RoomOk, RoomRecord
<1>. HIDE DEF r
<1>5. Alike(rooms, rooms')
  BY <1>1, <1>2, <1>4, HandlerFacts, PutTame
<1>6. /\ h \in HandlerRecord
      /\ h.pc = "stopOrch" /\ h.room = handler[c].room
  BY HandlerFacts DEF HandlerRecord
<1>. HIDE DEF h
<1>7. HandlerOk(h, Len(rooms)) /\ Leaving(h)
  BY <1>2, <1>6, HandlerFacts DEF HandlerOk, Leaving
<1>8. frames' \in [Conns -> Seq(Frame)]
  BY <1>1, HandlerFacts
<1>. QED BY <1>1, <1>5, <1>6, <1>7, <1>8, HandlerMoves

\* main.go:265-267, orchestrator.go:77-82: the orchestrator is stopped when none
\* of its replies is being signed.
LEMMA StopOrchStep == ASSUME Inv, NEW c \in Conns, StopOrch(c) PROVE Inv'
<1>. DEFINE g == handler[c].room
            r == [rooms[g] EXCEPT !.orch = "stopped"]
            h == [handler[c] EXCEPT !.pc = "cancel"]
<1>1. /\ handler[c].pc = "stopOrch" /\ frames' = frames /\ UNCHANGED <<state, page>>
      /\ rooms' = [rooms EXCEPT ![g] = r] /\ handler' = [handler EXCEPT ![c] = h]
      /\ \A f \in DOMAIN rooms : rooms[f].signing >= 0 => rooms[f].turn # g
  BY DEF StopOrch, Go, Signing, Rooms, browser
<1>2. handler[c].room # 0 /\ g \in DOMAIN rooms
  BY <1>1, HandlerFacts DEF HandlerOk, Leaving
<1>3. rooms[g] \in RoomRecord /\ RoomOk(rooms[g], Len(rooms))
  BY <1>2, HandlerFacts DEF RoomsOk, RoomOk
<1>4. /\ r \in RoomRecord /\ RoomOk(r, Len(rooms))
      /\ r.live = rooms[g].live /\ r.signing = rooms[g].signing /\ r.turn = rooms[g].turn
  <2>1. r \in RoomRecord
    BY <1>3 DEF RoomRecord
  <2>. QED BY <1>3, <2>1 DEF RoomOk, RoomRecord
<1>. HIDE DEF r
<1>5. /\ RoomsOk(rooms') /\ Len(rooms') = Len(rooms) /\ DOMAIN rooms' = DOMAIN rooms
      /\ rooms'[g] = r /\ \A f \in DOMAIN rooms \ {g} : rooms'[f] = rooms[f]
  <2>1. RoomsOk(rooms) /\ RoomOk(r, Len(rooms)) /\ rooms' = [rooms EXCEPT ![g] = r]
    BY <1>1, <1>4, HandlerFacts
  <2>2. g \in DOMAIN rooms
    BY <1>2
  <2>. HIDE DEF g
  <2>. DEFINE us == [rooms EXCEPT ![g] = r]
  <2>3. /\ RoomsOk(us) /\ Len(us) = Len(rooms) /\ DOMAIN us = DOMAIN rooms
        /\ us[g] = r /\ \A f \in DOMAIN rooms \ {g} : us[f] = rooms[f]
    BY <2>1, <2>2, PutShape
  <2>. QED BY <2>1, <2>3
<1>6. Silent(rooms')
  <2>. SUFFICES ASSUME NEW f \in DOMAIN rooms, rooms'[f].signing >= 0
                PROVE  rooms'[rooms'[f].turn].orch = "running"
    BY <1>5 DEF Silent
  <2>1. rooms[f].signing >= 0 /\ rooms'[f].turn = rooms[f].turn
    BY <1>4, <1>5
  <2>2. rooms[f].turn \in DOMAIN rooms \ {g}
    BY <1>1, <2>1, HandlerFacts DEF RoomsOk, RoomOk
  <2>. QED BY <1>5, <2>1, <2>2 DEF Inv, Silent
<1>7. \A f \in DOMAIN rooms : rooms'[f].live = rooms[f].live
  BY <1>4, <1>5
<1>8. /\ h \in HandlerRecord
      /\ h.pc = "cancel" /\ h.room = handler[c].room
  BY HandlerFacts DEF HandlerRecord
<1>. HIDE DEF h
<1>9. HandlersOk' /\ handler'[c] = h /\ \A d \in Conns \ {c} : handler'[d] = handler[d]
  <2>1. HandlerOk(h, Len(rooms))
    BY <1>2, <1>8, HandlerFacts DEF HandlerOk, Leaving
  <2>. QED BY <1>1, <1>5, <1>8, <2>1 DEF Inv, HandlersOk
<1>10. References' /\ PageOk'
  BY <1>1, <1>5 DEF Inv, References, DoneIffReady, PageOk, state
<1>11. OneLiveRoom'
  <2>. SUFFICES ASSUME NEW f \in DOMAIN rooms, rooms[f].live, f # cur
                PROVE  \E d \in Conns : handler'[d].room = f /\ Leaving(handler'[d])
    BY <1>1, <1>5, <1>7 DEF OneLiveRoom, Rooms, Leaving, state
  <2>1. PICK d \in Conns : handler[d].room = f /\ Leaving(handler[d])
    BY DEF Inv, OneLiveRoom, Rooms, Leaving
  <2>. QED BY <1>8, <1>9, <2>1 DEF Leaving
<1>. QED BY <1>5, <1>6, <1>9, <1>10, <1>11 DEF Inv

\* main.go:268-272: the context of the room that was left is cancelled.
LEMMA CancelStep == ASSUME Inv, NEW c \in Conns, Cancel(c) PROVE Inv'
<1>. DEFINE g == handler[c].room
            r == [rooms[g] EXCEPT !.live = FALSE]
            h == [handler[c] EXCEPT !.pc = "rest"]
<1>1. /\ handler[c].pc = "cancel" /\ frames' = frames /\ UNCHANGED <<state, page>>
      /\ rooms' = [rooms EXCEPT ![g] = r] /\ handler' = [handler EXCEPT ![c] = h]
  BY DEF Cancel, Cancelled, Go, browser
<1>2. handler[c].room # 0 /\ g \in DOMAIN rooms
  BY <1>1, HandlerFacts DEF HandlerOk, Leaving
<1>3. rooms[g] \in RoomRecord /\ RoomOk(rooms[g], Len(rooms))
  BY <1>2, HandlerFacts DEF RoomsOk, RoomOk
<1>4. /\ r \in RoomRecord /\ RoomOk(r, Len(rooms)) /\ ~ r.live
      /\ r.orch = rooms[g].orch /\ r.signing = rooms[g].signing /\ r.turn = rooms[g].turn
  <2>1. r \in RoomRecord
    BY <1>3 DEF RoomRecord
  <2>. QED BY <1>3, <2>1 DEF RoomOk, RoomRecord
<1>. HIDE DEF r
<1>5. /\ RoomsOk(rooms') /\ Len(rooms') = Len(rooms) /\ DOMAIN rooms' = DOMAIN rooms
      /\ rooms'[g] = r /\ \A f \in DOMAIN rooms \ {g} : rooms'[f] = rooms[f]
  <2>1. RoomsOk(rooms) /\ RoomOk(r, Len(rooms)) /\ rooms' = [rooms EXCEPT ![g] = r]
    BY <1>1, <1>4, HandlerFacts
  <2>2. g \in DOMAIN rooms
    BY <1>2
  <2>. HIDE DEF g
  <2>. DEFINE us == [rooms EXCEPT ![g] = r]
  <2>3. /\ RoomsOk(us) /\ Len(us) = Len(rooms) /\ DOMAIN us = DOMAIN rooms
        /\ us[g] = r /\ \A f \in DOMAIN rooms \ {g} : us[f] = rooms[f]
    BY <2>1, <2>2, PutShape
  <2>. QED BY <2>1, <2>3
<1>6. Silent(rooms')
  <2>. SUFFICES ASSUME NEW f \in DOMAIN rooms, rooms'[f].signing >= 0
                PROVE  rooms'[rooms'[f].turn].orch = "running"
    BY <1>5 DEF Silent
  <2>1. rooms[f].signing >= 0 /\ rooms'[f].turn = rooms[f].turn
    BY <1>4, <1>5
  <2>2. rooms[f].turn \in DOMAIN rooms
    BY <2>1, HandlerFacts DEF RoomsOk, RoomOk
  <2>. QED BY <1>4, <1>5, <2>1, <2>2 DEF Inv, Silent
<1>7. /\ h \in HandlerRecord
      /\ h.pc = "rest" /\ h.room = handler[c].room
  BY HandlerFacts DEF HandlerRecord
<1>. HIDE DEF h
<1>8. HandlersOk' /\ handler'[c] = h /\ \A d \in Conns \ {c} : handler'[d] = handler[d]
  <2>1. HandlerOk(h, Len(rooms))
    BY <1>2, <1>7, HandlerFacts DEF HandlerOk, Leaving
  <2>. QED BY <1>1, <1>5, <1>7, <2>1 DEF Inv, HandlersOk
<1>9. References' /\ PageOk'
  BY <1>1, <1>5 DEF Inv, References, DoneIffReady, PageOk, state
<1>10. OneLiveRoom'
  <2>. SUFFICES ASSUME NEW f \in DOMAIN rooms, rooms'[f].live, f # cur
                PROVE  \E d \in Conns : handler'[d].room = f /\ Leaving(handler'[d])
    BY <1>1, <1>5 DEF OneLiveRoom, Rooms, Leaving, state
  <2>1. f # g /\ rooms[f].live
    BY <1>4, <1>5
  <2>2. PICK d \in Conns : handler[d].room = f /\ Leaving(handler[d])
    BY <2>1 DEF Inv, OneLiveRoom, Rooms, Leaving
  <2>. QED BY <1>8, <2>1, <2>2
<1>. QED BY <1>5, <1>6, <1>8, <1>9, <1>10 DEF Inv

-----------------------------------------------------------------------------
(* The theorems.                                                           *)

\* main.go:162-184: a program that was just started.
LEMMA InitInv == Init => Inv
<1>. SUFFICES ASSUME Init PROVE Inv
  OBVIOUS
<1>1. /\ ready = FALSE /\ cur = 0 /\ done = 0 /\ closed = {} /\ rooms = << >>
      /\ page = [conn |-> 0, opened |-> 0, code |-> 0]
      /\ frames = [c \in Conns |-> << >>] /\ handler = [c \in Conns |-> Resting]
  BY DEF Init
<1>2. Len(rooms) = 0 /\ DOMAIN rooms = {} /\ rooms \in Seq(RoomRecord)
  BY <1>1
<1>3. Resting \in HandlerRecord /\ HandlerOk(Resting, 0)
  BY DEF Resting, HandlerRecord, HandlerOk, Leaving
<1>4. RoomsOk(rooms) /\ Silent(rooms) /\ OneLiveRoom
  BY <1>2 DEF RoomsOk, Silent, OneLiveRoom, Rooms
<1>5. References
  <2>1. cur \in 0 .. Len(rooms) /\ done \in Nat /\ closed \in SUBSET (0 .. done)
    BY <1>1, <1>2
  <2>2. ready \in BOOLEAN /\ (ready <=> cur # 0) /\ (ready <=> done \in closed)
    BY <1>1, Zenon
  <2>. QED BY <2>1, <2>2, Zenon DEF References, DoneIffReady
<1>6. PageOk
  BY <1>1 DEF PageOk
<1>7. HandlersOk
  BY <1>1, <1>2, <1>3 DEF HandlersOk
<1>. QED BY <1>4, <1>5, <1>6, <1>7 DEF Inv

\* main.go: every step keeps the invariant.
LEMMA NextInv == Inv /\ [Next]_vars => Inv'
<1>. SUFFICES ASSUME Inv, [Next]_vars PROVE Inv'
  OBVIOUS
<1>1. CASE Page
  BY <1>1, PageStep
<1>2. ASSUME NEW c \in Conns, Handler(c) PROVE Inv'
  BY <1>2, SetupJoinsStep, SetupFailsStep, SetupFindsRoomStep, AnnounceStep, TakesInputStep,
     ProceedsStep, SignChatStep, PublishChatStep, BatchStep, FlushInHandlerStep, AnsweredStep,
     LeaveClearsStep, StopBatcherStep, StopOrchStep, CancelStep DEF Handler
<1>3. ASSUME NEW g \in Rooms, Goroutines(g) PROVE Inv'
  BY <1>3, GoroutineStep
<1>4. CASE UNCHANGED vars
  BY <1>4 DEF vars, Inv, References, DoneIffReady, PageOk, HandlersOk, OneLiveRoom, Rooms
<1>. QED BY <1>1, <1>2, <1>3, <1>4 DEF Next

\* main.go: the invariant always holds.
LEMMA SpecInv == Spec => []Inv
<1>. QED BY InitInv, NextInv, PTL DEF Spec

\* main.go:244,1035: for every number of connections and rooms, init never closes
\* a closed channel and no handler waits in a room.
THEOREM DoneWithReady == Spec => []DoneIffReady
<1>1. Inv => DoneIffReady
  BY DEF Inv, References
<1>. QED BY <1>1, SpecInv, PTL

\* main.go:236-272: for every number of connections and rooms, a room that was left
\* is shut down or about to be.
THEOREM LeftIsShutDown == Spec => []OneLiveRoom
<1>1. Inv => OneLiveRoom
  BY DEF Inv
<1>. QED BY <1>1, SpecInv, PTL

\* orchestrator.go:77-82,290-294: for every number of connections and rooms, no
\* stopped orchestrator signs a reply.
THEOREM StoppedStaysSilent == Spec => []StoppedIsSilent
<1>1. Inv => StoppedIsSilent
  BY DEF Inv, Silent, StoppedIsSilent, Rooms
<1>. QED BY <1>1, SpecInv, PTL

\* main.go:162-184: the references of a room come and go together, and a ledger
\* holds room codes.
THEOREM TypeCorrect == Spec => []TypeOK
<1>1. Inv => TypeOK
  <2>. SUFFICES ASSUME Inv PROVE TypeOK
    OBVIOUS
  <2>1. Len(rooms) \in Nat /\ DOMAIN rooms = 1 .. Len(rooms)
    BY DEF Inv, RoomsOk
  <2>2. cur \in {0} \cup Rooms /\ (ready <=> cur # 0) /\ closed \subseteq 0 .. done
    BY <2>1 DEF Inv, References, Rooms
  <2>3. \A g \in Rooms : rooms[g].ledger \subseteq Codes
    BY DEF Inv, RoomsOk, RoomOk, RoomRecord, Rooms
  <2>. QED BY <2>2, <2>3 DEF TypeOK
<1>. QED BY <1>1, SpecInv, PTL
=============================================================================
