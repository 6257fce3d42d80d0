--------------------------------- MODULE Room ---------------------------------
(***************************************************************************)
(* A chat room: the peers that joined one topic, each with its vector      *)
(* clock, its ledger, the goroutines that send (the web socket handler and *)
(* the AI), the relays that drain the topic's channels (cmd/main.go) and   *)
(* the topic between them (internal/p2p/pubsub.go).                        *)
(*                                                                         *)
(* Every action is a stretch of one goroutine between two points where     *)
(* another can run: a critical section of sendMu, of the clock or of the   *)
(* ledger, a publish, a channel receive.                                   *)
(*                                                                         *)
(* The topic is go-libp2p-pubsub, modelled from how the code uses it: a    *)
(* published packet reaches each other subscriber at most once, after any  *)
(* delay and in any order (the validators run concurrently), or never.     *)
(* Peers are honest here and their packets pass validation.                *)
(***************************************************************************)
EXTENDS LedgerOps

CONSTANTS Personas,  \* the peers whose AI persona answers
          SyncLimit, \* messages a sync response takes at most, 80
          ChanCap,   \* capacity of the Messages and Controls channels
          MaxSends,  \* bound: messages signed in a behaviour
          Syncers    \* bound: the peers whose requestSync is scheduled

ASSUME RoomAssumption ==
    /\ 0 \notin Peers
    /\ {SyncLimit, ChanCap} \subseteq Nat \ {0}
    /\ MaxSends \in Nat
    /\ Syncers \subseteq Peers /\ Personas \subseteq Peers

\* The goroutines of peer n that call signAndPublish.
Threads(n) == {"human"} \cup (IF n \in Personas THEN {"ai"} ELSE {})

VARIABLES
    joined,   \* joined[n]: the room of peer n is set up
    vc,       \* vc[n]: the vector clock of peer n
    prevHash, \* prevHash[n]: hash of the last message peer n signed
    ledger,   \* ledger[n]: its ledger record
    shown,    \* shown[n]: the messages broadcast to its web sockets
    sending,  \* sending[n][t]: where goroutine t is in signAndPublish
    net,      \* packets published and not yet received
    messages, \* messages[n]: the Messages channel
    controls, \* controls[n]: the Controls channel
    merging,  \* merging[n]: what the relay of Messages accepted last
    repair,   \* repair[n]: the sync response its relay of Controls works on
    sync,     \* sync[n]: where requestSync and its timer are
    sent      \* history: every message ever signed

nodeVars == <<vc, prevHash, ledger, shown>>
goVars   == <<sending, merging, repair, sync>>
topicVars == <<net, messages, controls>>
vars == <<joined, nodeVars, goVars, topicVars, sent>>

-----------------------------------------------------------------------------
None == [id |-> 0]

\* SHA-256 over a signed message with a fresh uuid: as good as its id.
Hash(m) == m.id

\* types.NewMessage: a fresh id per sender and counter.
NewMessage(n, snap, prev) ==
    [id |-> n * (MaxSends + 1) + snap[n], sender |-> n, vc |-> snap,
     prevHash |-> prev]

\* What topic.Publish puts on the way to every other subscriber.
Packets(n, content) ==
    {[to |-> q, from |-> n, content |-> content] :
        q \in {p \in Peers \ {n} : joined[p]}}

Chat(m) == [kind |-> "chat", msg |-> m]
Request(known) == [kind |-> "sync_request", known |-> known]
Response(msgs) == [kind |-> "sync_response", msgs |-> msgs]

Idle == [pc |-> "idle", msg |-> None]

NoRepair == [pc |-> "idle", msgs |-> << >>, done |-> 0, repaired |-> 0]

Init ==
    /\ joined = [n \in Peers |-> FALSE]
    /\ vc = [n \in Peers |-> New]
    /\ prevHash = [n \in Peers |-> NoHash]
    /\ ledger = [n \in Peers |-> NewLedger]
    /\ shown = [n \in Peers |-> {}]
    /\ sending = [n \in Peers |-> [t \in Threads(n) |-> Idle]]
    /\ net = {}
    /\ messages = [n \in Peers |-> << >>]
    /\ controls = [n \in Peers |-> << >>]
    /\ merging = [n \in Peers |-> None]
    /\ repair = [n \in Peers |-> NoRepair]
    /\ sync = [n \in Peers |-> "sleeping"]
    /\ sent = {}

\* init: the room is joined, the relays run, requestSync is 1.5 s away.
Join(n) ==
    /\ ~ joined[n]
    /\ joined' = [joined EXCEPT ![n] = TRUE]
    /\ UNCHANGED <<nodeVars, goVars, topicVars, sent>>

-----------------------------------------------------------------------------
(* signAndPublish.                                                         *)

\* Mutant: the hash of the signed message is not remembered.
SignUnlinked(n, t) ==
    /\ joined[n]
    /\ sending[n][t].pc = "idle"
    /\ Cardinality(sent) < MaxSends
    /\ LET snap == Increment(vc[n], n)
           m == NewMessage(n, snap, n)
       IN  /\ vc' = [vc EXCEPT ![n] = snap]
           /\ sending' = [sending EXCEPT
                            ![n][t] = [pc |-> "signed", msg |-> m]]
           /\ sent' = sent \cup {m}
    /\ UNCHANGED <<joined, prevHash, ledger, shown, merging, repair, sync,
                   topicVars>>

\* The section under sendMu: count, snapshot, link, sign.
Sign(n, t) ==
    /\ joined[n]
    /\ sending[n][t].pc = "idle"
    /\ Cardinality(sent) < MaxSends
    /\ LET snap == Increment(vc[n], n)
           m == NewMessage(n, snap, prevHash[n])
       IN  /\ vc' = [vc EXCEPT ![n] = snap]
           /\ prevHash' = [prevHash EXCEPT ![n] = Hash(m)]
           /\ sending' = [sending EXCEPT
                            ![n][t] = [pc |-> "signed", msg |-> m]]
           /\ sent' = sent \cup {m}
    /\ UNCHANGED <<joined, ledger, shown, merging, repair, sync, topicVars>>

\* Publish, after sendMu is released.
Publish(n, t) ==
    /\ sending[n][t].pc = "signed"
    /\ net' = net \cup Packets(n, Chat(sending[n][t].msg))
    /\ sending' = [sending EXCEPT ![n][t].pc = "published"]
    /\ UNCHANGED <<joined, nodeVars, merging, repair, sync, messages, controls,
                   sent>>

\* Publish returns an error: the message is logged and forgotten.
PublishFails(n, t) ==
    /\ sending[n][t].pc = "signed"
    /\ sending' = [sending EXCEPT ![n][t] = Idle]
    /\ UNCHANGED <<joined, nodeVars, merging, repair, sync, topicVars, sent>>

\* The own ledger's verdict is ignored: the message is shown all the same.
AddOwn(n, t) ==
    /\ sending[n][t].pc = "published"
    /\ ledger' = [ledger EXCEPT ![n] = AddWithReason(@, sending[n][t].msg)]
    /\ shown' = [shown EXCEPT ![n] = @ \cup {sending[n][t].msg}]
    /\ sending' = [sending EXCEPT ![n][t] = Idle]
    /\ UNCHANGED <<joined, vc, prevHash, merging, repair, sync, topicVars,
                   sent>>

-----------------------------------------------------------------------------
(* readLoop and the relays.                                                *)

\* Mutant: the send to a channel never gives up.
ReceiveAlways(p) ==
    /\ p.content.kind = "chat"
    /\ net' = net \ {p}
    /\ messages' = [messages EXCEPT ![p.to] = Append(@, p.content.msg)]
    /\ UNCHANGED <<joined, nodeVars, goVars, controls, sent>>

\* A packet goes to its channel; a full channel drops it.
Receive(p) ==
    /\ net' = net \ {p}
    /\ \/ /\ p.content.kind = "chat"
          /\ messages' = IF Len(messages[p.to]) < ChanCap
                         THEN [messages EXCEPT ![p.to] = Append(@, p.content.msg)]
                         ELSE messages
          /\ UNCHANGED controls
       \/ /\ p.content.kind # "chat"
          /\ controls' = IF Len(controls[p.to]) < ChanCap
                         THEN [controls EXCEPT ![p.to] = Append(@, p.content)]
                         ELSE controls
          /\ UNCHANGED messages
    /\ UNCHANGED <<joined, nodeVars, goVars, sent>>

\* The ledger part of acceptMessage.
Accept(l, m) ==
    LET reason == AddReason(l, m) IN
    IF reason \in {NoReason, "duplicate_message"} THEN AddWithReason(l, m)
    ELSE MarkRejectedReason(AddWithReason(l, m), reason)

\* The relay of Messages: acceptMessage up to the ledger's verdict...
AcceptLive(n) ==
    /\ messages[n] # << >>
    /\ merging[n] = None
    /\ LET m == Head(messages[n]) IN
       /\ ledger' = [ledger EXCEPT ![n] = Accept(@, m)]
       /\ merging' = [merging EXCEPT
                        ![n] = IF AddReason(ledger[n], m) = NoReason
                               THEN m ELSE None]
    /\ messages' = [messages EXCEPT ![n] = Tail(@)]
    /\ UNCHANGED <<joined, vc, prevHash, shown, sending, repair, sync, net,
                   controls, sent>>

\* Mutant: the message is shown and the clock not merged.
ShowLive(n) ==
    /\ merging[n] # None
    /\ shown' = [shown EXCEPT ![n] = @ \cup {merging[n]}]
    /\ merging' = [merging EXCEPT ![n] = None]
    /\ UNCHANGED <<joined, vc, prevHash, ledger, sending, repair, sync,
                   topicVars, sent>>

\* ...and from the merge of the clock to the broadcast.
MergeLive(n) ==
    /\ merging[n] # None
    /\ vc' = [vc EXCEPT ![n] = Merge(@, merging[n].vc)]
    /\ shown' = [shown EXCEPT ![n] = @ \cup {merging[n]}]
    /\ merging' = [merging EXCEPT ![n] = None]
    /\ UNCHANGED <<joined, prevHash, ledger, sending, repair, sync, topicVars,
                   sent>>

\* The relay of Controls answers a request with what the requester lacks.
AnswerRequest(n) ==
    /\ repair[n].pc = "idle"
    /\ controls[n] # << >>
    /\ Head(controls[n]).kind = "sync_request"
    /\ LET missing == MissingFrom(ledger[n], Head(controls[n]).known, SyncLimit)
       IN  net' = IF missing # << >>
                  THEN net \cup Packets(n, Response(missing))
                  ELSE net
    /\ controls' = [controls EXCEPT ![n] = Tail(@)]
    /\ UNCHANGED <<joined, nodeVars, goVars, messages, sent>>

\* It works through a response, whoever asked for it, message by message.
StartRepair(n) ==
    /\ repair[n].pc = "idle"
    /\ controls[n] # << >>
    /\ Head(controls[n]).kind = "sync_response"
    /\ ledger' = [ledger EXCEPT ![n] = SetSyncStatus(@, "repairing")]
    /\ repair' = [repair EXCEPT
                    ![n] = [NoRepair EXCEPT !.pc = "add",
                                            !.msgs = Head(controls[n]).msgs]]
    /\ controls' = [controls EXCEPT ![n] = Tail(@)]
    /\ UNCHANGED <<joined, vc, prevHash, shown, sending, merging, sync, net,
                   messages, sent>>

RepairAdd(n) ==
    /\ repair[n].pc = "add"
    /\ repair[n].done < Len(repair[n].msgs)
    /\ LET m == repair[n].msgs[repair[n].done + 1] IN
       /\ ledger' = [ledger EXCEPT ![n] = Accept(@, m)]
       /\ repair' = [repair EXCEPT
                       ![n].done = @ + 1,
                       ![n].pc = IF AddReason(ledger[n], m) = NoReason
                                 THEN "merge" ELSE "add"]
    /\ UNCHANGED <<joined, vc, prevHash, shown, sending, merging, sync,
                   topicVars, sent>>

RepairMerge(n) ==
    /\ repair[n].pc = "merge"
    /\ LET m == repair[n].msgs[repair[n].done] IN
       /\ vc' = [vc EXCEPT ![n] = Merge(@, m.vc)]
       /\ shown' = [shown EXCEPT ![n] = @ \cup {m}]
    /\ repair' = [repair EXCEPT ![n].pc = "add", ![n].repaired = @ + 1]
    /\ UNCHANGED <<joined, prevHash, ledger, sending, merging, sync, topicVars,
                   sent>>

FinishRepair(n) ==
    /\ repair[n].pc = "add"
    /\ repair[n].done = Len(repair[n].msgs)
    /\ ledger' = [ledger EXCEPT
                    ![n] = SetSyncStatus(AddRepaired(@, repair[n].repaired),
                                         IF repair[n].repaired > 0
                                         THEN "repaired" ELSE "idle")]
    /\ repair' = [repair EXCEPT ![n] = NoRepair]
    /\ UNCHANGED <<joined, vc, prevHash, shown, sending, merging, sync,
                   topicVars, sent>>

-----------------------------------------------------------------------------
(* requestSync, once after the room was joined, and its timer.             *)

RequestSync(n) ==
    /\ joined[n] /\ n \in Syncers
    /\ sync[n] = "sleeping"
    /\ ledger' = [ledger EXCEPT ![n] = SetSyncStatus(@, "requesting")]
    /\ sync' = [sync EXCEPT ![n] = "publishing"]
    /\ UNCHANGED <<joined, vc, prevHash, shown, sending, merging, repair,
                   topicVars, sent>>

PublishRequest(n) ==
    /\ sync[n] = "publishing"
    /\ net' = net \cup Packets(n, Request(IDs(ledger[n])))
    /\ sync' = [sync EXCEPT ![n] = "waiting"]
    /\ UNCHANGED <<joined, nodeVars, sending, merging, repair, messages,
                   controls, sent>>

\* Mutant: nobody looks at the status when the timer ends.
TimerEnds(n) ==
    /\ sync[n] = "waiting"
    /\ sync' = [sync EXCEPT ![n] = "done"]
    /\ UNCHANGED <<joined, nodeVars, sending, merging, repair, topicVars, sent>>

\* After 3 s the timer reads the status in one critical section...
TimerReads(n) ==
    /\ sync[n] = "waiting"
    /\ sync' = [sync EXCEPT
                  ![n] = IF ledger[n].syncStatus = "requesting"
                         THEN "expired" ELSE "done"]
    /\ UNCHANGED <<joined, nodeVars, sending, merging, repair, topicVars, sent>>

\* ...and writes it in another.
TimerSetsIdle(n) ==
    /\ sync[n] = "expired"
    /\ ledger' = [ledger EXCEPT ![n] = SetSyncStatus(@, "idle")]
    /\ sync' = [sync EXCEPT ![n] = "done"]
    /\ UNCHANGED <<joined, vc, prevHash, shown, sending, merging, repair,
                   topicVars, sent>>

Send(n) ==
    \E t \in Threads(n) :
       Sign(n, t) \/ Publish(n, t) \/ PublishFails(n, t) \/ AddOwn(n, t)

MessagesRelay(n) == AcceptLive(n) \/ MergeLive(n)

ControlsRelay(n) ==
    \/ AnswerRequest(n)
    \/ StartRepair(n) \/ RepairAdd(n) \/ RepairMerge(n) \/ FinishRepair(n)

Sync(n) ==
    RequestSync(n) \/ PublishRequest(n) \/ TimerReads(n) \/ TimerSetsIdle(n)

Next ==
    \/ \E n \in Peers :
          Join(n) \/ Send(n) \/ MessagesRelay(n) \/ ControlsRelay(n) \/ Sync(n)
    \/ \E p \in net : Receive(p)

Spec == Init /\ [][Next]_vars

\* Each goroutine runs when it can, the two sleeps end.  Nothing is assumed of
\* the topic, of the users, nor of the relay of Messages, which waits for the
\* AI's turn inside batcher.Add.
FairSpec ==
    /\ Spec
    /\ \A n \in Peers : WF_vars(ControlsRelay(n)) /\ WF_vars(Sync(n))

-----------------------------------------------------------------------------
\* Every variable holds a value of its shape and no channel overflows.
TypeOK ==
    /\ joined \in [Peers -> BOOLEAN]
    /\ vc \in [Peers -> VectorClocks]
    /\ prevHash \in [Peers -> Nat]
    /\ ledger \in [Peers -> LedgerRecord]
    /\ \A n \in Peers : shown[n] \subseteq sent
    /\ \A n \in Peers : \A t \in Threads(n) :
          \/ sending[n][t] = Idle
          \/ sending[n][t].pc \in {"signed", "published"}
             /\ sending[n][t].msg \in sent
    /\ \A p \in net : {p.from, p.to} \subseteq Peers /\ p.from # p.to
    /\ \A n \in Peers :
          /\ messages[n] \in Seq(sent) /\ Len(messages[n]) <= ChanCap
          /\ Len(controls[n]) <= ChanCap
          /\ merging[n] \in sent \cup {None}
          /\ repair[n].msgs \in Seq(sent)
          /\ repair[n].repaired <= repair[n].done
          /\ repair[n].done <= Len(repair[n].msgs)
          /\ repair[n].pc \in {"idle", "add", "merge"}
    /\ sync \in [Peers -> {"sleeping", "publishing", "waiting", "expired",
                           "done"}]
    /\ sent \subseteq Message

\* vector.go:26-52, main.go:199-208: a message whose clock counts m's sender
\* as far as m does was signed by a peer that knew all that m's sender knew.
CausalClocks ==
    \A m1, m2 \in sent :
       m1.vc[m1.sender] <= m2.vc[m1.sender] => Leq(m1.vc, m2.vc)

\* main.go:382-386: whatever a peer has on its screen is in its clock, so that
\* its next message is ordered behind everything its user can have read.
ScreenIsKnown ==
    \A n \in Peers : \A m \in shown[n] : Leq(m.vc, vc[n])

\* main.go:199-208: the clock and the predecessor are taken in one critical
\* section, so that two honest sending goroutines never look like a fork.
HonestNeverFork == \A n \in Peers : ledger[n].equivocation = 0

\* The ledger that was empty and then got the messages of s.
Replayed(s) ==
    LET After[i \in 0 .. Len(s)] ==
           IF i = 0 THEN NewLedger ELSE AddWithReason(After[i - 1], s[i])
    IN  After[Len(s)]

\* main.go:961-964: a peer with an empty ledger accepts every message of any
\* sync response, in the order of the response.
ResponseReplayable ==
    \A p \in net :
       p.content.kind = "sync_response" =>
          Replayed(p.content.msgs).verified = Len(p.content.msgs)

\* ledger.go:237-257: two peers that list the same messages list them in the
\* same order.
ReplicasAgree ==
    \A n, q \in Peers :
       ToSet(ledger[n].messages) = ToSet(ledger[q].messages)
          => ledger[n].messages = ledger[q].messages

\* main.go:967-980: a message that was gone through in a sync response is in
\* the ledger.
RepairLists ==
    \A n \in Peers :
       \A i \in 1 .. repair[n].done : repair[n].msgs[i].id \in ledger[n].ids

\* What the relays of peer n accepted and are about to broadcast.
InHand(n) ==
    ({merging[n]} \ {None})
       \cup (IF repair[n].pc = "merge"
             THEN {repair[n].msgs[repair[n].done]} ELSE {})

\* The messages peer n shows or is about to.
Taken(n) == shown[n] \cup InHand(n)

\* Those of them whose fate at peer n a ledger decides: all but the own
\* messages of a peer with two sending goroutines, which can reach its ledger
\* in the other order and are shown whatever it says of them.
Decided(taken, n) == {m \in taken : m.sender = n => n \notin Personas}

Heard(n) == Decided(Taken(n), n)

\* The hash of the c-th message peer n signs.
Nth(n, c) == IF c = 0 THEN NoHash ELSE n * (MaxSends + 1) + c

\* What peer n can sign: its next message, whatever its clock counts.
Signable ==
    {NewMessage(n, Increment(known, n), Nth(n, known[n])) :
        n \in Peers, known \in [Peers -> 0 .. MaxSends - 1]}

Abs == INSTANCE RoomAbs
          WITH Messages <- Signable, written <- sent,
               heard <- [n \in Peers |-> Heard(n)]

\* main.go:188-233, 350-390: whatever is lost, reordered, repeated or repaired,
\* a peer hears of every sender a part of one chain of messages, in its order
\* and each of them once, and what was skipped is never heard.
ImplementsAbs == Abs!Spec

\* main.go:471-499: no sync status is left hanging, not even when no peer
\* answers: the timer or the relay settles it, and again and again every peer's
\* is settled.
SyncSettles ==
    []<>(\A n \in Peers : ledger[n].syncStatus \in {"idle", "repaired"})
=============================================================================
