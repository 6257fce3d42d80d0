-------------------------------- MODULE AIChain --------------------------------
(***************************************************************************)
(* internal/ai/orchestrator.go: the AI personas of a room talk to each     *)
(* other.  Each peer runs one persona next to its human.  A batch of       *)
(* messages is put in the persona's history, in the order of the vector    *)
(* clocks; the last of them decides whether a turn starts; the turn asks   *)
(* the model with no lock held and signs what it answers.                  *)
(*                                                                         *)
(* A message is who wrote it, whether an AI did, its clock and whom it is  *)
(* for.  The model's answer, the scores and the rolls are choices.  What   *)
(* the network and the ledger do (Room) is reduced to: messages may be     *)
(* lost or overtaken, those of one sender are accepted in order only.      *)
(*                                                                         *)
(* Turn is the same file seen from inside one turn; no name is in both.    *)
(***************************************************************************)
EXTENDS LogicalClock, SequencesExt

CONSTANTS HardStop,   \* aiHardStopDepth, 6; chainDecay is 0 from there on
          MaxHistory, \* maxHistory, 30
          HumanKinds, \* bound: whom humans write to
          AIKinds,    \* bound: whom personas write to
          MaxHumans   \* bound: messages written by humans

VARIABLES
    sent,    \* every message published
    clock,   \* per peer, its vector clock
    seen,    \* per peer, the last counter its ledger accepted of each sender
    pending, \* per peer, messages in its batcher or in batches of it that wait
    history, \* per peer, the history of its orchestrator
    asking,  \* per peer, the turn that asks the model
    chain    \* per peer, its replies since a human message entered its history

chainVars == <<sent, clock, seen, pending, history, asking, chain>>

\* Whom a message is for: a persona by name, everyone, an open question or a
\* group greeting, nobody in particular.
All == -1
Question == -2
Plain == -3
Kinds == Peers \cup {All, Question, Plain}

\* A history shorter than HardStop would never hold a run that stops anybody.
ASSUME ChainAssumption ==
    /\ HardStop \in Nat \ {0} /\ MaxHistory \in Nat /\ HardStop <= MaxHistory
    /\ 0 \notin Peers
    /\ HumanKinds \subseteq Kinds /\ AIKinds \subseteq Kinds
    /\ MaxHumans \in Nat

\* A turn: whether it must reply, and the clock when it started.
Turn(must, vc) == [on |-> TRUE, must |-> must, clock |-> vc]
Idle == [on |-> FALSE, must |-> FALSE, clock |-> New]

ChainInit ==
    /\ sent = {}
    /\ clock = [p \in Peers |-> New] /\ seen = [p \in Peers |-> New]
    /\ pending = [p \in Peers |-> << >>] /\ history = [p \in Peers |-> << >>]
    /\ asking = [p \in Peers |-> Idle]
    /\ chain = [p \in Peers |-> 0]

-----------------------------------------------------------------------------
(* The history.                                                            *)

\* The reply that could not be published has no clock and no sender.
Unpublished == [from |-> 0, ai |-> TRUE, vc |-> New, to |-> Plain]

\* compareVectorClock: a message without a clock is comparable to none.
Before(a, b) ==
    a.vc # New /\ b.vc # New /\ Compare(a.vc, b.vc) = "before"

\* compareChatMessage(a, b) < 0.  Two messages of one sender have different
\* clocks: the comparison never gets to the ids.
Less(a, b) == Before(a, b) \/ (~ Before(b, a) /\ a.from < b.from)

\* Mutant: one message too many is kept.
CompactedLate(h) ==
    IF Len(h) > MaxHistory + 1 THEN SubSeq(h, Len(h) - MaxHistory, Len(h)) ELSE h

Compacted(h) ==
    IF Len(h) > MaxHistory THEN SubSeq(h, Len(h) - MaxHistory + 1, Len(h)) ELSE h

\* The sort is stable and what it sorts was sorted before the append: every
\* new message moves forward past those it is less than.
Inserted(h, m) ==
    InsertAt(h, SelectLastInSeq(h, LAMBDA x : ~ Less(m, x)) + 1, m)

\* compactHistoryLocked after an append.
Remembered(h, batch) == Compacted(FoldLeft(Inserted, h, batch))

\* Mutant: the messages of others are counted, an own one ends the run.
TrailingOthers(h, p) ==
    Len(h) - SelectLastInSeq(h, LAMBDA x : ~ x.ai \/ x.from \in {0, p})

\* How many messages at the end of the history are of an AI.
TrailingAI(h, p) == Len(h) - SelectLastInSeq(h, LAMBDA x : ~ x.ai)

-----------------------------------------------------------------------------
(* The decision.                                                           *)

\* Mutant: the depth alone stops the persona.
HardStoppedByDepth(latest, depth) == depth >= HardStop

HardStopped(latest, depth) == latest.ai /\ depth >= HardStop

\* len(latest.Mentions) > 0 and none of them is this persona.
ForOthers(latest, p) == latest.to \in Peers \ {p}

\* The answers of shouldRespondLocked: a score in (0, 1) may win the roll or
\* lose it, and chainDecay makes it 0.  A human message that is not for a group
\* is answered now and then, by surprise.
MayRespond(latest, depth, p) ==
    IF ~ latest.ai /\ latest.to \in {p, All} THEN {TRUE}
    ELSE IF latest.ai /\ latest.to = Plain THEN {FALSE}
    ELSE IF depth >= HardStop THEN {FALSE}
    ELSE BOOLEAN

MustReply(latest, p) == latest.to = p \/ (latest.to = All /\ ~ latest.ai)

\* Process up to the call of the model.
Eligible(latest, depth, p) ==
    IF HardStopped(latest, depth) \/ ForOthers(latest, p) THEN {FALSE}
    ELSE MayRespond(latest, depth, p)

-----------------------------------------------------------------------------
(* The actions.                                                            *)

\* signAndPublish: the next tick of the peer's clock.
Signed(p, ai, to) ==
    [from |-> p, ai |-> ai, vc |-> Increment(clock[p], p), to |-> to]

\* A human writes; the own persona gets the message as well.
HumanWrites(p, to) ==
    LET m == Signed(p, FALSE, to) IN
    /\ Cardinality({x \in sent : ~ x.ai}) < MaxHumans
    /\ sent' = sent \cup {m}
    /\ clock' = [clock EXCEPT ![p] = m.vc]
    /\ seen' = [seen EXCEPT ![p][p] = m.vc[p]]
    /\ pending' = [pending EXCEPT ![p] = Append(@, m)]
    /\ UNCHANGED <<history, asking, chain>>

\* The ledger accepts m, from the room or from a sync response.
Accept(p, m) ==
    /\ m.from # p /\ m.vc[m.from] > seen[p][m.from]
    /\ seen' = [seen EXCEPT ![p][m.from] = m.vc[m.from]]
    /\ clock' = [clock EXCEPT ![p] = Merge(@, m.vc)]
    /\ UNCHANGED <<sent, asking>>

\* acceptMessage for the room's messages: the batcher gets them.
Receive(p, m) ==
    /\ Accept(p, m)
    /\ pending' = [pending EXCEPT ![p] = Append(@, m)]
    /\ UNCHANGED <<history, chain>>

\* acceptMessage for a sync response: the history gets them, turn or no turn.
Repair(p, m) ==
    /\ Accept(p, m)
    /\ history' = [history EXCEPT ![p] = Remembered(@, <<m>>)]
    /\ chain' = [chain EXCEPT ![p] = IF m.ai THEN @ ELSE 0]
    /\ UNCHANGED pending

\* Process: the batch is the messages up to any flush of the batcher.  Batches
\* wait for each other (Batcher), so a persona has one turn at a time.
ProcessBatch(p) ==
    /\ ~ asking[p].on
    /\ \E n \in 1 .. Len(pending[p]) :
          LET batch  == SubSeq(pending[p], 1, n)
              latest == batch[n]
              h      == Remembered(history[p], batch) IN
          /\ pending' = [pending EXCEPT ![p] = SubSeq(@, n + 1, Len(@))]
          /\ history' = [history EXCEPT ![p] = h]
          /\ chain' = [chain EXCEPT ![p] = IF \A i \in 1 .. n : batch[i].ai THEN @ ELSE 0]
          /\ \E respond \in Eligible(latest, TrailingAI(h, p), p) :
                asking' = [asking EXCEPT ![p] =
                    IF respond THEN Turn(MustReply(latest, p), clock[p])
                    ELSE Idle]
    /\ UNCHANGED <<sent, clock, seen>>

\* Mutant: the reply is stamped with the clock the turn started with.
StampAtStart(p) == asking[p].clock

\* The clock the reply is stamped with, before its own tick.
Stamp(p) == clock[p]

\* The model answered and the answer is published.
Reply(p, to) ==
    LET m == [Signed(p, TRUE, to) EXCEPT !.vc = Increment(Stamp(p), p)] IN
    /\ asking[p].on
    /\ sent' = sent \cup {m}
    /\ clock' = [clock EXCEPT ![p] = Increment(@, p)]
    /\ seen' = [seen EXCEPT ![p][p] = m.vc[p]]
    /\ history' = [history EXCEPT ![p] = Remembered(@, <<m>>)]
    /\ chain' = [chain EXCEPT ![p] = @ + 1]
    /\ asking' = [asking EXCEPT ![p] = Idle]
    /\ UNCHANGED pending

\* The publish failed: the clock ticked, the reply stays in the own history.
ReplyUnpublished(p) ==
    /\ asking[p].on
    /\ clock' = [clock EXCEPT ![p] = Increment(@, p)]
    /\ history' = [history EXCEPT ![p] = Remembered(@, <<Unpublished>>)]
    /\ asking' = [asking EXCEPT ![p] = Idle]
    /\ UNCHANGED <<sent, seen, pending, chain>>

\* Silence, or a suppressed duplicate.
KeepSilent(p) ==
    /\ asking[p].on /\ ~ asking[p].must
    /\ asking' = [asking EXCEPT ![p] = Idle]
    /\ UNCHANGED <<sent, clock, seen, pending, history, chain>>

ChainNext ==
    \E p \in Peers :
        \/ \E to \in HumanKinds : HumanWrites(p, to)
        \/ \E to \in AIKinds : Reply(p, to)
        \/ \E m \in sent : Receive(p, m) \/ Repair(p, m)
        \/ ProcessBatch(p) \/ ReplyUnpublished(p) \/ KeepSilent(p)

ChainSpec == ChainInit /\ [][ChainNext]_chainVars

-----------------------------------------------------------------------------
(* Properties.                                                             *)

\* orchestrator.go:225: the history keeps to its limit and a persona that is
\* thinking is thinking about something.
ChainTypeOK ==
    /\ \A m \in sent : m.from \in Peers /\ m.ai \in BOOLEAN /\ m.to \in Kinds
    /\ clock \in [Peers -> VectorClocks] /\ seen \in [Peers -> VectorClocks]
    /\ \A p \in Peers :
          /\ Len(history[p]) <= MaxHistory
          /\ asking[p].on => history[p] # << >>
          /\ chain[p] \in Nat

\* orchestrator.go:224-230: a persona makes at most HardStop replies before a
\* human message enters its history, whatever the other personas say, in
\* whatever order it arrives and however it is sorted: the agents of a room
\* cannot keep each other talking.
ChainBounded == \A p \in Peers : chain[p] <= HardStop

\* orchestrator.go:302-314: a reply comes last in the history of the persona
\* that made it, after messages that a sync put there while the model was
\* thinking too: the run of AI messages that the hard stop counts, and the own
\* replies the duplicate check looks at, are where the code looks for them.
ReplyComesLast ==
    [][\A p \in Peers, m \in sent' \ sent :
          m.ai /\ m.from = p => Last(history'[p]) = m]_chainVars

\* orchestrator.go:660-666: a human who addresses a persona, or everyone, in
\* the last message of a batch gets a turn, however long the run of AI messages
\* in the history is and wherever the message was sorted.
HumansGetATurn ==
    [][\A p \in Peers :
          LET n == Len(pending[p]) - Len(pending'[p]) IN
          n > 0 /\ ~ pending[p][n].ai /\ pending[p][n].to \in {p, All}
              => asking'[p].on]_chainVars

\* docs/report_discussion_notes.md:211: a human mention is answered with high
\* probability or always: the batch it is in starts a turn.  Violated, because
\* only the last message of a batch is looked at.
MentionsGetATurn ==
    [][\A p \in Peers : \A i \in 1 .. Len(pending[p]) - Len(pending'[p]) :
          ~ pending[p][i].ai /\ pending[p][i].to = p => asking'[p].on]_chainVars
=============================================================================
