--------------------------------- MODULE Trust ---------------------------------
(***************************************************************************)
(* internal/p2p/validate.go and the receiving half of pubsub.go: one node, *)
(* the validators that GossipSub runs concurrently on arriving packets,    *)
(* the one readLoop behind them, and the trust tracker all of them share.  *)
(*                                                                         *)
(* A packet is its kind, the peers it names (names[1] signed the chat      *)
(* message or sent the control; a sync response goes on with the senders   *)
(* of the messages it carries) and what is wrong with it:                  *)
(*    unreadable   empty, too large or not JSON of the shape of its kind   *)
(*    malformed    a control without peer or request id                    *)
(*    unverifiable a message that fails a check of ValidateSignedMessage   *)
(* A validator reads the time, then takes the tracker's mutex once for the *)
(* token bucket, once for every name it looks up and once for a reject;    *)
(* between these anything may happen.                                      *)
(***************************************************************************)
EXTENDS TrustOps, SequencesExt

CONSTANTS Self,      \* this node; its own publishes are validated too
          Arrivals,  \* the packets that may arrive, each with its forwarder
          Slots,     \* validators that run at the same time
          ChannelSize, \* of the topic subscription and of Rejected, 32
          MaxPackets,\* bound: packets that arrive
          MaxTime    \* bound: ticks

Kinds == {"activity", "chat", "sync_request", "sync_response"}
Defects == {"none", "unreadable", "malformed", "unverifiable"}

Packets == [kind : Kinds, names : Seq(Peers), defect : Defects]

ASSUME ArrivalsAssumption ==
    /\ Self \in Peers
    /\ Arrivals \subseteq [packet : Packets, from : Peers]
    /\ \A e \in Arrivals : e.packet.names # << >>
    /\ ChannelSize \in Nat /\ MaxPackets \in Nat /\ MaxTime \in Nat

VARIABLES
    trust,
    now,       \* the clock of the node
    job,       \* what each validator does
    inbox,     \* accepted packets on their way to readLoop, with their forwarder
    reading,   \* what readLoop does
    rejected,  \* rejects on their way to the ledger's counter
    counted,   \* the ledger's counter of rejected packets
    arrived,   \* how many packets arrived
    first,     \* history: the time of each peer's first paid packet
    allowed,   \* history: packets each peer's bucket paid for
    rewound,   \* history: ticks by which each bucket's Last moved back
    lastWords  \* history: packets with a message of the peer that were delivered
               \* while it was in quarantine

vars == <<trust, now, job, inbox, reading, rejected, counted, arrived, first,
          allowed, rewound, lastWords>>
history == <<first, allowed, rewound, lastWords>>

NoPacket == [kind |-> "activity", names |-> << >>, defect |-> "none"]
Idle == [stage |-> "idle", packet |-> NoPacket, from |-> Self, at |-> 0, next |-> 1]

Init ==
    /\ trust = NewTrust /\ now = 0
    /\ job = [s \in Slots |-> Idle]
    /\ inbox = << >> /\ reading = Idle
    /\ rejected = 0 /\ counted = 0 /\ arrived = 0
    /\ first = [p \in Peers |-> 0]
    /\ allowed = [p \in Peers |-> 0]
    /\ rewound = [p \in Peers |-> 0]
    /\ lastWords = [p \in Peers |-> 0]

Tick ==
    /\ now < MaxTime
    /\ now' = now + 1
    /\ UNCHANGED <<trust, job, inbox, reading, rejected, counted, arrived, history>>

Control(k) == k.kind \in {"sync_request", "sync_response"}

\* Refused before the token bucket is asked.  A control has to come from the
\* peer that sent it, whoever else relays it.
RefusedEarly(k, from) ==
    \/ k.defect = "unreadable"
    \/ Control(k) /\ (k.defect = "malformed" \/ k.names[1] # from)

\* Mutant: the subscription has no limit.
DeliveredAlways(k, from) == Append(inbox, [packet |-> k, from |-> from])

\* The subscription drops what does not fit.
Delivered(k, from) ==
    IF Len(inbox) < ChannelSize THEN Append(inbox, [packet |-> k, from |-> from])
    ELSE inbox

\* validateEnvelopeData, up to its reading of the clock.
Arrive(s, k, from) ==
    /\ job[s] = Idle
    /\ arrived < MaxPackets
    /\ arrived' = arrived + 1
    /\ IF k.kind = "activity" /\ k.defect = "none"
       THEN inbox' = Delivered(k, from) /\ UNCHANGED job
       ELSE /\ job' = [job EXCEPT ![s] =
                         [stage  |-> IF RefusedEarly(k, from) THEN "reject"
                                     ELSE "rate",
                          packet |-> k, from |-> from, at |-> now, next |-> 1]]
            /\ UNCHANGED inbox
    /\ UNCHANGED <<trust, now, reading, rejected, counted, history>>

\* AllowRate, with the time read before.
Rate(s) ==
    LET p == job[s].from
        at == job[s].at
        ok == Allowed(trust, p, at)
        last == trust.rates[p].last
    IN
    /\ job[s].stage = "rate"
    /\ trust' = AllowRate(trust, p, at)
    /\ job' = [job EXCEPT ![s] = IF ok THEN [@ EXCEPT !.stage = "check"] ELSE Idle]
    /\ first' = [first EXCEPT ![p] = IF last = NoTime THEN at ELSE @]
    /\ allowed' = [allowed EXCEPT ![p] = IF ok THEN @ + 1 ELSE @]
    /\ rewound' = [rewound EXCEPT ![p] = IF at < last THEN @ + (last - at) ELSE @]
    /\ UNCHANGED <<now, inbox, reading, rejected, counted, arrived, lastWords>>

\* IsQuarantined of one name after the other, then the checks of the last.
Check(s) ==
    LET k == job[s].packet
        i == job[s].next
        refused == \/ IsQuarantined(trust, k.names[i])
                   \/ i = Len(k.names) /\ k.defect # "none"
    IN
    /\ job[s].stage = "check"
    /\ job' = [job EXCEPT ![s] =
                 IF refused THEN [@ EXCEPT !.stage = "reject"]
                 ELSE IF i < Len(k.names) THEN [@ EXCEPT !.next = i + 1]
                 ELSE Idle]
    /\ inbox' = IF ~ refused /\ i = Len(k.names) THEN Delivered(k, job[s].from)
                ELSE inbox
    /\ UNCHANGED <<trust, now, reading, rejected, counted, arrived, history>>

\* recordValidationReject: the forwarder is blamed.
Reject(s) ==
    /\ job[s].stage = "reject"
    /\ trust' = RecordReject(trust, job[s].from)
    /\ job' = [job EXCEPT ![s] = Idle]
    /\ UNCHANGED <<now, inbox, reading, rejected, counted, arrived, history>>

-----------------------------------------------------------------------------
\* readLoop takes the next packet, unless this node sent it.
Read ==
    LET e == Head(inbox)
        skip == e.from = Self \/ (Control(e.packet) /\ e.packet.names[1] = Self)
        names == IF Control(e.packet) THEN Tail(e.packet.names) ELSE e.packet.names
        verify == e.packet.kind \in {"chat", "sync_response"} /\ names # << >>
    IN
    /\ reading = Idle /\ inbox # << >>
    /\ inbox' = Tail(inbox)
    /\ reading' =
         IF skip THEN Idle
         ELSE [stage  |-> IF verify THEN "check" ELSE "deliver",
               packet |-> [e.packet EXCEPT !.names = IF verify THEN names ELSE << >>],
               from   |-> e.from, at |-> 0, next |-> 1]
    /\ UNCHANGED <<trust, now, job, rejected, counted, arrived, history>>

\* Mutant: readLoop trusts the validator.
QuarantinedNever(p) == FALSE

\* verifyMessage: the signature was checked by the validator, but its sender may
\* be in quarantine by now.
QuarantinedSince(p) == IsQuarantined(trust, p)

\* What is left of the packet after the verdict on its next message; a chat
\* message is dropped whole, a response goes on without the message.
AfterVerdict(keep) ==
    LET i == reading.next
        k == reading.packet
        names == IF keep THEN k.names
                 ELSE SubSeq(k.names, 1, i - 1) \o SubSeq(k.names, i + 1, Len(k.names))
        next == IF keep THEN i + 1 ELSE i
    IN
    IF ~ keep /\ k.kind = "chat" THEN Idle
    ELSE [stage  |-> IF next > Len(names) THEN "deliver" ELSE "check",
          packet |-> [k EXCEPT !.names = names],
          from   |-> reading.from, at |-> reading.at, next |-> next]

ReadCheck ==
    /\ reading.stage = "check"
    /\ reading' = IF QuarantinedSince(reading.packet.names[reading.next])
                  THEN [reading EXCEPT !.stage = "reject"]
                  ELSE AfterVerdict(TRUE)
    /\ UNCHANGED <<trust, now, job, inbox, rejected, counted, arrived, history>>

\* The sender is blamed, and the ledger told through a channel.
ReadReject ==
    /\ reading.stage = "reject"
    /\ trust' = RecordReject(trust, reading.packet.names[reading.next])
    /\ rejected' = IF rejected < ChannelSize THEN rejected + 1 ELSE rejected
    /\ reading' = AfterVerdict(FALSE)
    /\ UNCHANGED <<now, job, inbox, counted, arrived, history>>

\* The packet goes to the channel of its kind and to the relay behind it.
Deliver ==
    /\ reading.stage = "deliver"
    /\ reading' = Idle
    /\ lastWords' = [p \in Peers |->
                       IF p \in trust.quarantine /\ p \in ToSet(reading.packet.names)
                       THEN lastWords[p] + 1 ELSE lastWords[p]]
    /\ UNCHANGED <<trust, now, job, inbox, rejected, counted, arrived, first,
                   allowed, rewound>>

\* The relay of Rejected calls the ledger's MarkRejected.
MarkRejected ==
    /\ rejected > 0
    /\ rejected' = rejected - 1
    /\ counted' = counted + 1
    /\ UNCHANGED <<trust, now, job, inbox, reading, arrived, history>>

Next ==
    \/ Tick
    \/ \E s \in Slots :
          \/ \E e \in Arrivals : Arrive(s, e.packet, e.from)
          \/ Rate(s) \/ Check(s) \/ Reject(s)
    \/ Read \/ ReadCheck \/ ReadReject \/ Deliver
    \/ MarkRejected

Spec == Init /\ [][Next]_vars

-----------------------------------------------------------------------------
\* pubsub.go:49-61, trust.go:27-34: the tracker, the buffers and the validators
\* keep their shapes.
TypeOK ==
    /\ trust.invalid \in [Peers -> Nat]
    /\ trust.quarantine \in SUBSET Peers
    /\ trust.rates \in [Peers -> Bucket]
    /\ trust.rateLimited \in Nat
    /\ now \in 0 .. MaxTime /\ arrived \in 0 .. MaxPackets
    /\ \A s \in Slots : job[s].stage \in {"idle", "rate", "check", "reject"}
    /\ reading.stage \in {"idle", "check", "reject", "deliver"}
    /\ Len(inbox) <= ChannelSize /\ rejected \in 0 .. ChannelSize

\* trust.go:59-62,110-114: a peer is in quarantine exactly when enough of its
\* packets were invalid, the packets its token bucket refused among them.
QuarantineExact ==
    trust.quarantine = {p \in Peers : trust.invalid[p] >= Threshold}

\* trust.go:96-120: the bucket creates no tokens and loses none but at its rim:
\* what a peer has spent and still has is at least the burst and at most the
\* burst and one token per tick, plus what the bucket gained from validators
\* that came with an earlier time than the one before.
BucketConserves ==
    \A p \in Peers :
       LET b == trust.rates[p] IN
       IF b.last = NoTime THEN allowed[p] = 0
       ELSE /\ b.tokens \in 0 .. Burst
            /\ b.tokens + Cost * allowed[p] >= Burst
            /\ b.tokens + Cost * allowed[p]
                  <= Burst + (b.last - first[p]) + rewound[p]

\* pubsub.go:295: a peer in quarantine gets at most one more message through,
\* the one readLoop had just verified, however many of its packets passed the
\* validators before.
OneLastWord == \A p \in Peers : lastWords[p] <= 1
=============================================================================
