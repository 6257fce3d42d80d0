-------------------------------- MODULE Gossip --------------------------------
(***************************************************************************)
(* A room of honest nodes: every node runs the validator of validate.go    *)
(* with a trust tracker of its own, and GossipSub carries what a node      *)
(* accepted to its neighbours, each packet once per node, from whichever   *)
(* neighbour is first.  The validator is one step here; Trust has its      *)
(* interleavings.  Everything is well-formed and well-signed.              *)
(***************************************************************************)
EXTENDS TrustOps, FiniteSets

CONSTANTS Links,      \* pairs of nodes with a connection
          Published,  \* what is published, of "chat" and "sync_request"
          MaxPublished, \* bound: packets published
          MaxTicks    \* bound: ticks

VARIABLES
    trusts,   \* per node, what it thinks of the others
    wire,     \* packets on a link
    seen,     \* per node, GossipSub's cache of packet ids
    accepted, \* per node, the packets that passed its validator
    published,\* how many packets were published
    time

gossipVars == <<trusts, wire, seen, accepted, published, time>>

Neighbours(n) == {p \in Peers : p # n /\ {n, p} \in Links}

GossipInit ==
    /\ trusts = [n \in Peers |-> NewTrust]
    /\ wire = {}
    /\ seen = [n \in Peers |-> {}]
    /\ accepted = [n \in Peers |-> {}]
    /\ published = 0 /\ time = 0

TimePasses ==
    /\ time < MaxTicks
    /\ time' = time + 1
    /\ UNCHANGED <<trusts, wire, seen, accepted, published>>

Mismatch(k, from) == k.kind # "chat" /\ k.author # from

\* validateEnvelopeData of a well-formed packet, with its verdict.
Passes(t, k, from) ==
    /\ ~ Mismatch(k, from)
    /\ Allowed(t, from, time)
    /\ ~ IsQuarantined(AllowRate(t, from, time), k.author)

TrustAfter(t, k, from) ==
    LET paid == AllowRate(t, from, time) IN
    IF Mismatch(k, from) THEN RecordReject(t, from)
    ELSE IF Allowed(t, from, time) /\ IsQuarantined(paid, k.author)
         THEN RecordReject(paid, from)
    ELSE paid

\* GossipSub passes an accepted packet on, but not back.
Copies(n, k, from) ==
    {[packet |-> k, from |-> n, to |-> p] : p \in Neighbours(n) \ {from, k.author}}

\* Node n validates packet k that `from` brought.
Validate(n, k, from, gone) ==
    LET ok == Passes(trusts[n], k, from) IN
    /\ trusts' = [trusts EXCEPT ![n] = TrustAfter(@, k, from)]
    /\ seen' = [seen EXCEPT ![n] = @ \cup {k}]
    /\ accepted' = [accepted EXCEPT ![n] = IF ok THEN @ \cup {k} ELSE @]
    /\ wire' = (wire \ gone) \cup (IF ok THEN Copies(n, k, from) ELSE {})

\* A node's own packet passes its own validator before it goes out.
Publish(n, kind) ==
    /\ published < MaxPublished
    /\ published' = published + 1
    /\ Validate(n, [kind |-> kind, author |-> n, id |-> published'], n, {})
    /\ UNCHANGED time

ReceiveCopy(m) ==
    /\ m \in wire
    /\ IF m.packet \in seen[m.to]
       THEN wire' = wire \ {m} /\ UNCHANGED <<trusts, seen, accepted>>
       ELSE Validate(m.to, m.packet, m.from, {m})
    /\ UNCHANGED <<published, time>>

GossipNext ==
    \/ TimePasses
    \/ \E n \in Peers, kind \in Published : Publish(n, kind)
    \/ \E m \in wire : ReceiveCopy(m)

GossipSpec == GossipInit /\ [][GossipNext]_gossipVars

-----------------------------------------------------------------------------
\* README.md:191: "Repeated invalid messages from the same sender place that
\* sender in local quarantine."  Nobody here sends an invalid message.
HonestNotQuarantined == \A n \in Peers : trusts[n].quarantine = {}
=============================================================================
