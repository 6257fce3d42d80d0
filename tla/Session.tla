-------------------------------- MODULE Session --------------------------------
(***************************************************************************)
(* cmd/main.go: joining and leaving rooms.  One program serves one web     *)
(* page; each web socket connection has a handler goroutine that takes the *)
(* page's frames in order, and each room leaves goroutines behind: the     *)
(* relay of its messages, the batcher with its timers, an orchestrator     *)
(* that may be answering.  They share appState, whose references init and  *)
(* resetRoom set and clear under s.mu; most of the others read them        *)
(* without it, when they happen to need one.                               *)
(*                                                                         *)
(* Rooms are numbered as they are joined and 0 is nil: `cur` stands for    *)
(* node, room, vc, ledger, batcher, orch and memStore, which change        *)
(* together.  A message is only the code of the room it was written for.   *)
(* The send path, the ledger and the batcher have modules of their own.    *)
(***************************************************************************)
EXTENDS Integers, Sequences

CONSTANTS Codes,     \* room codes
          MaxConns,  \* bound: connections of the page, one after the other
          MaxRooms,  \* bound: rooms joined
          MaxFrames, \* bound: chat and force_reply frames
          MaxRemote  \* bound: messages that arrive from other peers

ASSUME SessionAssumption ==
    /\ 0 \notin Codes
    /\ {MaxConns, MaxRooms, MaxFrames, MaxRemote} \subseteq Nat

VARIABLES
    ready, cur,   \* appState
    done,         \* the channel in s.done, numbered as they are made
    closed,       \* the done channels that were closed
    rooms,        \* per room, its code, context, ledger and goroutines
    page,         \* the page's connection (0: none), the room it shows, and how
                  \* many connections it opened
    frames,       \* per connection, frames on their way
    handler,      \* per connection, its goroutine
    told,         \* per connection, the code of the room it was told is ready
    sent, remote, \* how many frames and remote messages there were
    crashed       \* a panic in a goroutine nobody recovers

vars == <<ready, cur, done, closed, rooms, page, frames, handler, told, sent,
          remote, crashed>>
state == <<ready, cur, done, closed>>
browser == <<page, frames, sent>>

Conns == 1 .. MaxConns
Rooms == DOMAIN rooms

\* A room with its goroutines.  turn is the orchestrator that handles a batch
\* of this room's batcher, signing the room its reply is signed in.
NewRoom(code) ==
    [code |-> code, live |-> TRUE, ledger |-> {},
     batcher |-> "empty", orch |-> "running",
     backlog |-> 0, relay |-> -1,
     flush |-> FALSE, turn |-> 0, signing |-> -1]

Resting == [pc |-> "rest", room |-> 0, chan |-> 0, code |-> 0, force |-> FALSE]

Init ==
    /\ ready = FALSE /\ cur = 0 /\ done = 0 /\ closed = {}
    /\ rooms = << >>
    /\ page = [conn |-> 0, opened |-> 0, code |-> 0] /\ frames = [c \in Conns |-> << >>]
    /\ handler = [c \in Conns |-> Resting]
    /\ told = [c \in Conns |-> 0]
    /\ sent = 0 /\ remote = 0
    /\ crashed = FALSE

\* The program goes on.
Running == ~ crashed /\ crashed' = FALSE

-----------------------------------------------------------------------------
\* The page (web/app.js).  It sends setup when a connection opens, leave before
\* it closes one on purpose, and nothing when it is reloaded.
Send(c, frame) == frames' = [frames EXCEPT ![c] = Append(@, frame)]

Open(c, code) ==
    /\ page.conn = 0
    /\ c = page.opened + 1 /\ c \in Conns
    /\ page' = [conn |-> c, opened |-> c, code |-> code]
    /\ Send(c, [type |-> "setup", code |-> code])
    /\ UNCHANGED <<state, rooms, handler, told, sent, remote>> /\ Running

\* The input is enabled by the answer to setup.
Type(type) ==
    /\ page.conn # 0 /\ sent < MaxFrames
    /\ type = "chat" => told[page.conn] # 0
    /\ sent' = sent + 1
    /\ Send(page.conn, [type |-> type, code |-> page.code])
    /\ UNCHANGED <<state, rooms, page, handler, told, remote>> /\ Running

PressLeave ==
    /\ page.conn # 0
    /\ Send(page.conn, [type |-> "leave", code |-> page.code])
    /\ page' = [page EXCEPT !.conn = 0]
    /\ UNCHANGED <<state, rooms, handler, told, sent, remote>> /\ Running

Reload ==
    /\ page.conn # 0
    /\ page' = [page EXCEPT !.conn = 0]
    /\ UNCHANGED <<state, rooms, frames, handler, told, sent, remote>> /\ Running

-----------------------------------------------------------------------------
\* The handlers.
Go(c, pc) == handler' = [handler EXCEPT ![c].pc = pc]

\* Handler c takes its next frame, which has this type.
Takes(c, types) ==
    /\ handler[c].pc = "rest" /\ frames[c] # << >>
    /\ Head(frames[c]).type \in types
    /\ frames' = [frames EXCEPT ![c] = Tail(@)]

\* init, in one critical section.  It may fail to make a node or to join.
SetupJoins(c) ==
    /\ Takes(c, {"setup"})
    /\ ~ ready /\ Len(rooms) < MaxRooms
    /\ rooms' = Append(rooms, NewRoom(Head(frames[c]).code))
    /\ ready' = TRUE /\ cur' = Len(rooms')
    /\ closed' = closed \cup {done}
    /\ Go(c, "announce")
    /\ UNCHANGED <<done, page, told, sent, remote>> /\ Running

\* Mutant: the room counts as ready before it is joined.
SetupFailsReady(c) ==
    /\ Takes(c, {"setup"})
    /\ ~ ready
    /\ ready' = TRUE
    /\ UNCHANGED <<cur, done, closed, rooms, page, handler, told, sent, remote>>
    /\ Running

SetupFails(c) ==
    /\ Takes(c, {"setup"})
    /\ ~ ready
    /\ UNCHANGED <<state, rooms, page, handler, told, sent, remote>> /\ Running

\* init does nothing in a room, whatever room the page asks for.
SetupFindsRoom(c) ==
    /\ Takes(c, {"setup"})
    /\ ready
    /\ Go(c, "announce")
    /\ UNCHANGED <<state, rooms, page, told, sent, remote>> /\ Running

\* The answer to setup and the announcements, with the room there is by now; a
\* nil room is a panic, which net/http recovers by closing the connection.
Announce(c) ==
    /\ handler[c].pc = "announce"
    /\ IF cur = 0
       THEN Go(c, "dead") /\ UNCHANGED told
       ELSE Go(c, "rest") /\ told' = [told EXCEPT ![c] = rooms[cur].code]
    /\ UNCHANGED <<state, rooms, browser, remote>> /\ Running

\* <-state.done: the channel of this moment.
TakesInput(c) ==
    /\ Takes(c, {"chat", "force"})
    /\ handler' = [handler EXCEPT ![c] =
                     [pc |-> "wait", room |-> 0, chan |-> done,
                      code |-> Head(frames[c]).code,
                      force |-> Head(frames[c]).type = "force"]]
    /\ UNCHANGED <<state, rooms, page, told, sent, remote>> /\ Running

Proceeds(c) ==
    /\ handler[c].pc = "wait" /\ handler[c].chan \in closed
    /\ Go(c, IF handler[c].force THEN "batch" ELSE "sign")
    /\ UNCHANGED <<state, rooms, browser, told, remote>> /\ Running

\* signAndPublish takes its references under s.mu ...
InRoom == IF ready THEN cur ELSE 0

SignChat(c) ==
    /\ handler[c].pc = "sign"
    /\ handler' = [handler EXCEPT ![c].pc = "publish", ![c].room = InRoom]
    /\ UNCHANGED <<state, rooms, browser, told, remote>> /\ Running

\* What publishing comes to, which on a closed node may fail.
Outcomes(rs, g, code) ==
    IF g = 0 THEN {rs}
    ELSE LET listed == [rs EXCEPT ![g].ledger = @ \cup {code}] IN
         IF rs[g].live THEN {listed} ELSE {listed, rs}

\* ... and uses them.
PublishChat(c) ==
    LET g == handler[c].room IN
    /\ handler[c].pc = "publish"
    /\ rooms' \in Outcomes(rooms, g, handler[c].code)
    /\ Go(c, "batch")
    /\ UNCHANGED <<state, browser, told, remote>> /\ Running

\* state.batcher.Add or ForceFlush.  A stopped batcher ignores the one and not
\* the other.
Batch(c) ==
    /\ handler[c].pc = "batch"
    /\ IF cur = 0
       THEN Go(c, "dead") /\ UNCHANGED rooms
       ELSE IF handler[c].force
       THEN handler' = [handler EXCEPT ![c].pc = "flush", ![c].room = cur]
            /\ UNCHANGED rooms
       ELSE /\ Go(c, "rest")
            /\ rooms' = [rooms EXCEPT ![cur].batcher =
                           IF @ = "empty" THEN "pending" ELSE @]
    /\ UNCHANGED <<state, browser, told, remote>> /\ Running

\* onFlush in the handler's goroutine: s.orch is read here.
FlushInHandler(c) ==
    /\ handler[c].pc = "flush" /\ rooms[handler[c].room].turn = 0
    /\ IF cur = 0
       THEN Go(c, "dead") /\ UNCHANGED rooms
       ELSE /\ Go(c, "answer")
            /\ rooms' = [rooms EXCEPT ![handler[c].room].turn = cur]
    /\ UNCHANGED <<state, browser, told, remote>> /\ Running

Answered(c) ==
    /\ handler[c].pc = "answer" /\ rooms[handler[c].room].turn = 0
    /\ Go(c, "rest")
    /\ UNCHANGED <<state, rooms, browser, told, remote>> /\ Running

-----------------------------------------------------------------------------
\* Mutant: the channel that was closed is kept.
NewDoneSame == done

NewDone == done + 1

\* resetRoom: the references are cleared in one critical section ...
LeaveClears(c) ==
    /\ Takes(c, {"leave"})
    /\ ready' = FALSE /\ cur' = 0 /\ done' = NewDone
    /\ handler' = [handler EXCEPT ![c].pc = IF cur = 0 THEN "rest" ELSE "stopBatcher",
                                  ![c].room = cur]
    /\ UNCHANGED <<closed, rooms, page, told, sent, remote>> /\ Running

\* ... and what they referred to is stopped after it, step by step.
StopBatcher(c) ==
    /\ handler[c].pc = "stopBatcher"
    /\ rooms' = [rooms EXCEPT ![handler[c].room].batcher = "stopped"]
    /\ Go(c, "stopOrch")
    /\ UNCHANGED <<state, browser, told, remote>> /\ Running

\* Mutant: Stop waits for the answer that is being generated.
SigningOrThinking(o) == \E g \in Rooms : rooms[g].turn = o

\* Mutant: Stop does not take the orchestrator's mutex.
SigningNobody(o) == FALSE

\* A reply of orchestrator o is being signed, which holds its mutex.
Signing(o) == \E g \in Rooms : rooms[g].turn = o /\ rooms[g].signing >= 0

StopOrch(c) ==
    /\ handler[c].pc = "stopOrch" /\ ~ Signing(handler[c].room)
    /\ rooms' = [rooms EXCEPT ![handler[c].room].orch = "stopped"]
    /\ Go(c, "cancel")
    /\ UNCHANGED <<state, browser, told, remote>> /\ Running

\* Mutant: the context of the room is forgotten.
CancelledNot(g) == rooms

Cancelled(g) == [rooms EXCEPT ![g].live = FALSE]

Cancel(c) ==
    /\ handler[c].pc = "cancel"
    /\ rooms' = Cancelled(handler[c].room)
    /\ Go(c, "rest")
    /\ UNCHANGED <<state, browser, told, remote>> /\ Running

-----------------------------------------------------------------------------
\* The goroutines of room g, which outlive it.
quiet == <<state, browser, handler, told>>

\* readLoop: a message of another peer waits for the relay.
Arrive(g) ==
    /\ rooms[g].live /\ remote < MaxRemote
    /\ remote' = remote + 1
    /\ rooms' = [rooms EXCEPT ![g].backlog = @ + 1]
    /\ UNCHANGED quiet /\ Running

\* The relay: acceptMessage takes the references of this moment under s.mu ...
RelayTakes(g) ==
    /\ rooms[g].backlog > 0 /\ rooms[g].relay = -1
    /\ rooms' = [rooms EXCEPT ![g].backlog = @ - 1, ![g].relay = cur]
    /\ UNCHANGED <<quiet, remote>> /\ Running

\* ... then inserts the message and gives it to the batcher.
RelayAccepts(g) ==
    LET to == rooms[g].relay
        free == [rooms EXCEPT ![g].relay = -1]
    IN
    /\ to >= 0
    /\ rooms' = IF to = 0 THEN free
                ELSE [free EXCEPT
                        ![to].ledger = @ \cup {rooms[g].code},
                        ![to].batcher = IF @ = "empty" THEN "pending" ELSE @]
    /\ UNCHANGED <<quiet, remote>> /\ Running

\* A timer of the batcher fires and drains it.
Drain(g) ==
    /\ rooms[g].batcher = "pending" /\ ~ rooms[g].flush
    /\ rooms' = [rooms EXCEPT ![g].batcher = "empty", ![g].flush = TRUE]
    /\ UNCHANGED <<quiet, remote>> /\ Running

\* onFlush in the timer's goroutine: s.orch is read here, and a nil one is a
\* panic of the whole program.  A stopped orchestrator does nothing.
Flush(g) ==
    /\ rooms[g].flush /\ rooms[g].turn = 0
    /\ ~ crashed /\ crashed' = (cur = 0)
    /\ rooms' = [rooms EXCEPT
                   ![g].flush = FALSE,
                   ![g].turn = IF cur = 0 \/ rooms[cur].orch = "stopped" THEN 0 ELSE cur]
    /\ UNCHANGED <<quiet, remote>>

\* The turn ends in silence, or because the orchestrator was stopped ...
Silence(g) ==
    /\ rooms[g].turn # 0 /\ rooms[g].signing = -1
    /\ rooms' = [rooms EXCEPT ![g].turn = 0]
    /\ UNCHANGED <<quiet, remote>> /\ Running

\* ... or in a reply, which signAndPublish signs in the room there is by now.
SignReply(g) ==
    LET o == rooms[g].turn IN
    /\ o # 0 /\ rooms[g].signing = -1
    /\ rooms[o].orch = "running"
    /\ \A h \in Rooms : rooms[h].turn = o => rooms[h].signing = -1
    /\ rooms' = [rooms EXCEPT ![g].signing = InRoom]
    /\ UNCHANGED <<quiet, remote>> /\ Running

PublishReply(g) ==
    LET to == rooms[g].signing
        over == [rooms EXCEPT ![g].signing = -1, ![g].turn = 0]
    IN
    /\ to >= 0
    /\ rooms' \in Outcomes(over, to, rooms[rooms[g].turn].code)
    /\ UNCHANGED <<quiet, remote>> /\ Running

Page ==
    \/ \E c \in Conns, code \in Codes : Open(c, code)
    \/ Type("chat") \/ Type("force")
    \/ PressLeave \/ Reload

Handler(c) ==
    \/ SetupJoins(c) \/ SetupFails(c) \/ SetupFindsRoom(c) \/ Announce(c)
    \/ TakesInput(c) \/ Proceeds(c)
    \/ SignChat(c) \/ PublishChat(c)
    \/ Batch(c) \/ FlushInHandler(c) \/ Answered(c)
    \/ LeaveClears(c) \/ StopBatcher(c) \/ StopOrch(c) \/ Cancel(c)

Goroutines(g) ==
    \/ Arrive(g) \/ RelayTakes(g) \/ RelayAccepts(g)
    \/ Drain(g) \/ Flush(g)
    \/ Silence(g) \/ SignReply(g) \/ PublishReply(g)

Next ==
    \/ Page
    \/ \E c \in Conns : Handler(c)
    \/ \E g \in Rooms : Goroutines(g)

Spec == Init /\ [][Next]_vars

\* The steps of resetRoom and of a reply that is being signed wait for nothing
\* but each other.
FairSpec ==
    /\ Spec
    /\ \A c \in Conns :
          WF_vars(StopBatcher(c) \/ StopOrch(c) \/ Cancel(c))
    /\ \A g \in 1 .. MaxRooms : WF_vars(g \in Rooms /\ PublishReply(g))

-----------------------------------------------------------------------------
\* main.go:162-184: the fields of appState agree with each other.
TypeOK ==
    /\ ready <=> cur # 0
    /\ cur \in {0} \cup Rooms
    /\ closed \subseteq 0 .. done
    /\ \A g \in Rooms : rooms[g].ledger \subseteq Codes

\* main.go:244,1035: the current channel is closed exactly in a room, so that
\* no handler waits in one, none gets through without one, and init never
\* closes a channel twice, which would end the program.
DoneIffReady == ready <=> done \in closed

\* main.go:236-272: a room that was left is shut down, or a handler is about to.
OneLiveRoom ==
    \A g \in Rooms :
       rooms[g].live =>
          \/ g = cur
          \/ \E c \in Conns : /\ handler[c].room = g
                              /\ handler[c].pc \in {"stopBatcher", "stopOrch", "cancel"}

\* orchestrator.go:77-82,290-294: no stopped orchestrator signs a reply.
StoppedIsSilent ==
    \A g \in Rooms :
       rooms[g].signing >= 0 => rooms[rooms[g].turn].orch = "running"

\* main.go:261-272: a leave that was begun is finished: what resetRoom waits for
\* never waits for resetRoom.
LeaveCompletes ==
    \A c \in Conns :
       handler[c].pc = "stopBatcher" ~> handler[c].pc = "rest" \/ crashed

\* README.md:11: "room codes map to isolated pub/sub topics": a ledger holds
\* messages written for its room only.
LedgerIsolated == \A g \in Rooms : rooms[g].ledger \subseteq {rooms[g].code}

\* README.md:11: a page that is told its room is ready is in the room it asked
\* for.
ReadyInRoom ==
    \A c \in Conns : told[c] # 0 /\ page.conn = c => told[c] = page.code

\* batcher.go:44: "Stop cancels all pending timers and prevents further
\* flushes": no flush finds the orchestrator gone.
NoOrphanFlush == ~ crashed
=============================================================================
