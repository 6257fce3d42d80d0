------------------------------ MODULE TrustProofs ------------------------------
(***************************************************************************)
(* The trust tracker for any peers, packets, threshold, burst and cost,    *)
(* and any number of validators at work at the same time; and what it does *)
(* in a room of honest nodes with any connections.                         *)
(***************************************************************************)
EXTENDS Trust, Gossip, FiniteSetTheorems, SequenceTheorems, TLAPS

Tracker ==
    [invalid : [Peers -> Nat], quarantine : SUBSET Peers,
     rates : [Peers -> Bucket], rateLimited : Nat]

\* A tracker whose quarantine is exact.
Exact(t) == t.quarantine = {p \in Peers : t.invalid[p] >= Threshold}

-----------------------------------------------------------------------------
(* The tracker's operations.                                               *)

\* trust.go:49-64: a reject leaves the buckets alone and the quarantine exact.
LEMMA RejectKeeps ==
    ASSUME NEW t \in Tracker, NEW p \in Peers, Exact(t)
    PROVE  /\ RecordReject(t, p) \in Tracker
           /\ Exact(RecordReject(t, p))
           /\ RecordReject(t, p).rates = t.rates
<1>1. t.invalid \in [Peers -> Nat] /\ Threshold \in Nat
  BY TrustAssumption DEF Tracker
<1>2. RecordReject(t, p) \in Tracker
  BY <1>1 DEF RecordReject, Tracker
<1>. QED BY <1>1, <1>2 DEF RecordReject, Exact, Tracker

\* trust.go:96-108: what a refilled bucket is like.
LEMMA RefillShape ==
    ASSUME NEW b \in Bucket, NEW at \in Nat
    PROVE  /\ Refilled(b, at) \in Bucket
           /\ Refilled(b, at).last = at
BY TrustAssumption DEF Refilled, Capped, Bucket

\* trust.go:87-122: a rate check keeps the tracker and the exact quarantine, and
\* its bucket is the refilled one, less the price when the packet is paid for.
LEMMA RateKeeps ==
    ASSUME NEW t \in Tracker, NEW p \in Peers, NEW at \in Nat, Exact(t)
    PROVE  /\ AllowRate(t, p, at) \in Tracker
           /\ Exact(AllowRate(t, p, at))
           /\ AllowRate(t, p, at).rates =
                 [t.rates EXCEPT ![p] =
                     IF Allowed(t, p, at)
                     THEN [Refilled(t.rates[p], at) EXCEPT !.tokens = @ - Cost]
                     ELSE Refilled(t.rates[p], at)]
<1>. DEFINE bucket == Refilled(t.rates[p], at)
<1>1. bucket \in Bucket
  BY RefillShape DEF Tracker
<1>2. CASE Allowed(t, p, at)
  <2>. DEFINE paid == [bucket EXCEPT !.tokens = @ - Cost]
  <2>1. paid \in Bucket
    <3>. HIDE DEF bucket
    <3>. QED BY <1>1, TrustAssumption DEF Bucket
  <2>2. AllowRate(t, p, at) = [t EXCEPT !.rates[p] = paid]
    BY <1>2 DEF AllowRate
  <2>. HIDE DEF paid
  <2>3. [t EXCEPT !.rates[p] = paid] =
           [invalid |-> t.invalid, quarantine |-> t.quarantine,
            rates |-> [t.rates EXCEPT ![p] = paid], rateLimited |-> t.rateLimited]
    BY DEF Tracker
  <2>4. AllowRate(t, p, at) \in Tracker /\ Exact(AllowRate(t, p, at))
    BY <2>1, <2>2, <2>3 DEF Tracker, Exact
  <2>5. AllowRate(t, p, at).rates = [t.rates EXCEPT ![p] = paid]
    BY <2>2, <2>3
  <2>. QED BY <1>2, <2>4, <2>5 DEF paid
<1>3. CASE ~ Allowed(t, p, at)
  <2>. DEFINE asked == [t EXCEPT !.rates[p] = bucket]
              blamed == RecordReject(asked, p)
  <2>1. AllowRate(t, p, at) = [blamed EXCEPT !.rateLimited = @ + 1]
    BY <1>3 DEF AllowRate
  <2>. HIDE DEF bucket
  <2>2. asked = [invalid |-> t.invalid, quarantine |-> t.quarantine,
                 rates |-> [t.rates EXCEPT ![p] = bucket],
                 rateLimited |-> t.rateLimited]
    BY DEF Tracker
  <2>3. asked \in Tracker /\ Exact(asked)
    BY <1>1, <2>2 DEF Tracker, Exact
  <2>. HIDE DEF asked
  <2>4. blamed \in Tracker /\ Exact(blamed) /\ blamed.rates = asked.rates
    BY <2>3, RejectKeeps
  <2>. HIDE DEF blamed
  <2>5. /\ [blamed EXCEPT !.rateLimited = @ + 1] \in Tracker
        /\ Exact([blamed EXCEPT !.rateLimited = @ + 1])
        /\ [blamed EXCEPT !.rateLimited = @ + 1].rates = blamed.rates
    BY <2>4 DEF Tracker, Exact
  <2>6. AllowRate(t, p, at).rates = [t.rates EXCEPT ![p] = bucket]
    BY <2>1, <2>2, <2>4, <2>5
  <2>. QED BY <1>3, <2>1, <2>5, <2>6 DEF bucket
<1>. QED BY <1>2, <1>3

\* BucketConserves of one bucket that paid for n packets, the first at time f,
\* and was moved back by r ticks.
Conserves(b, n, f, r) ==
    IF b.last = NoTime THEN n = 0
    ELSE /\ b.tokens \in 0 .. Burst
         /\ b.tokens + Cost * n >= Burst
         /\ b.tokens + Cost * n <= Burst + (b.last - f) + r

\* trust.go:96-120: a rate check at any time, earlier ones included, conserves.
LEMMA RateConserves ==
    ASSUME NEW b \in Bucket, NEW at \in Nat, NEW n \in Nat, NEW f \in Nat,
           NEW r \in Nat, Conserves(b, n, f, r)
    PROVE  LET u == Refilled(b, at)
               f1 == IF b.last = NoTime THEN at ELSE f
               r1 == IF at < b.last THEN r + (b.last - at) ELSE r
           IN /\ Conserves(u, n, f1, r1) \/ b.last = NoTime
              /\ u.tokens >= Cost =>
                    Conserves([u EXCEPT !.tokens = @ - Cost], n + 1, f1, r1)
              /\ b.last = NoTime => u.tokens >= Cost
<1>. DEFINE u == Refilled(b, at)
            f1 == IF b.last = NoTime THEN at ELSE f
            r1 == IF at < b.last THEN r + (b.last - at) ELSE r
            spent == Cost * n
<1>1. /\ b.tokens \in Int /\ b.last \in Int
      /\ Burst \in Nat /\ Cost \in Nat \ {0} /\ Cost <= Burst
  BY TrustAssumption DEF Bucket
<1>2. spent \in Nat /\ Cost * (n + 1) = spent + Cost /\ Cost * 1 = Cost /\ Cost * 0 = 0
  BY <1>1
<1>3. u \in Bucket /\ u.last = at /\ u.last # NoTime
  <2>1. at # NoTime
    BY DEF NoTime
  <2>. HIDE DEF u
  <2>2. u \in Bucket /\ u.last = at
    BY RefillShape DEF u
  <2>. QED BY <2>1, <2>2
<1>4. CASE b.last = NoTime
  <2>1. u = [tokens |-> Burst, last |-> at] /\ n = 0 /\ f1 = at /\ r1 = r
    BY <1>1, <1>4 DEF Refilled, Conserves, NoTime
  <2>2. [u EXCEPT !.tokens = @ - Cost] = [tokens |-> Burst - Cost, last |-> at]
    BY <2>1
  <2>3. Conserves([tokens |-> Burst - Cost, last |-> at], 0 + 1, at, r)
    BY <1>1, <1>2 DEF Conserves, NoTime
  <2>4. u.tokens >= Cost
    BY <1>1, <2>1
  <2>. HIDE DEF u, f1, r1
  <2>5. Conserves([u EXCEPT !.tokens = @ - Cost], n + 1, f1, r1)
    BY <2>1, <2>2, <2>3
  <2>. QED BY <1>4, <2>4, <2>5 DEF u, f1, r1
<1>5. CASE b.last # NoTime
  <2>1. /\ b.tokens \in 0 .. Burst
        /\ b.tokens + spent >= Burst
        /\ b.tokens + spent <= Burst + (b.last - f) + r
    BY <1>5 DEF Conserves
  <2>2. f1 = f /\ u.tokens = IF at > b.last THEN Capped(b.tokens + (at - b.last))
                              ELSE b.tokens
    BY <1>5 DEF Refilled
  <2>. HIDE DEF u, spent
  <2>3. /\ u.tokens \in 0 .. Burst
        /\ u.tokens + spent >= Burst
        /\ u.tokens + spent <= Burst + (at - f) + r1
    BY <1>1, <1>2, <2>1, <2>2 DEF Capped
  <2>4. Conserves(u, n, f1, r1)
    BY <1>3, <2>2, <2>3 DEF Conserves, spent
  <2>5. ASSUME u.tokens >= Cost
        PROVE  Conserves([u EXCEPT !.tokens = @ - Cost], n + 1, f1, r1)
    <3>. DEFINE paid == [u EXCEPT !.tokens = @ - Cost]
    <3>1. paid.tokens = u.tokens - Cost /\ paid.last = at
      BY <1>3 DEF Bucket
    <3>. HIDE DEF paid, r1, f1
    <3>2. r1 \in Int
      BY <1>1 DEF r1
    <3>3. /\ paid.tokens \in 0 .. Burst
          /\ paid.tokens + Cost * (n + 1) >= Burst
          /\ paid.tokens + Cost * (n + 1) <= Burst + (paid.last - f) + r1
      BY <1>1, <1>2, <2>3, <2>5, <3>1, <3>2
    <3>4. paid.last # NoTime
      BY <3>1 DEF NoTime
    <3>. QED BY <2>2, <3>3, <3>4 DEF Conserves, paid
  <2>. QED BY <1>5, <2>4, <2>5 DEF u
<1>. QED BY <1>4, <1>5

-----------------------------------------------------------------------------
(* The validators, readLoop and their shared tracker.                      *)

Work ==
    [stage : {"idle", "rate", "check", "reject", "deliver"},
     packet : Packets, from : Peers, at : Nat, next : Nat]

\* readLoop looks at one of the names of its packet.
Points(r) ==
    r.stage \in {"check", "reject"} => r.next \in 1 .. Len(r.packet.names)

Shape ==
    /\ trust \in Tracker /\ now \in Nat
    /\ job \in [Slots -> Work]
    /\ inbox \in Seq([packet : Packets, from : Peers])
    /\ reading \in Work /\ Points(reading)
    /\ first \in [Peers -> Nat] /\ allowed \in [Peers -> Nat]
    /\ rewound \in [Peers -> Nat]

Inv ==
    /\ Shape
    /\ Exact(trust)
    /\ \A p \in Peers :
          Conserves(trust.rates[p], allowed[p], first[p], rewound[p])

\* pubsub.go:240: a goroutine at rest.
LEMMA IdleIsWork == Idle \in Work /\ Points(Idle)
<1>1. << >> \in Seq(Peers)
  OBVIOUS
<1>2. NoPacket \in Packets
  BY <1>1 DEF NoPacket, Packets, Kinds, Defects
<1>. QED BY <1>2, ArrivalsAssumption DEF Idle, Work, Points

\* validate.go:118-134: a packet that fits is appended, any other is dropped.
LEMMA DeliveredShape ==
    ASSUME NEW k \in Packets, NEW p \in Peers,
           inbox \in Seq([packet : Packets, from : Peers])
    PROVE  Delivered(k, p) \in Seq([packet : Packets, from : Peers])
<1>. DEFINE E == [packet : Packets, from : Peers]
            e == [packet |-> k, from |-> p]
<1>1. e \in E
  OBVIOUS
<1>. HIDE DEF E, e
<1>2. inbox \in Seq(E) => Append(inbox, e) \in Seq(E)
  BY <1>1
<1>. QED BY <1>2 DEF Delivered, E, e

\* pubsub.go:291-298: a list without one of its elements.
LEMMA VerdictNames ==
    ASSUME NEW names \in Seq(Peers), NEW i \in 1 .. Len(names)
    PROVE  SubSeq(names, 1, i - 1) \o SubSeq(names, i + 1, Len(names)) \in Seq(Peers)
<1>1. \A m, n \in Int : m >= 1 /\ n <= Len(names) =>
         SubSeq(names, m, n) \in Seq(Peers)
  BY SubSeqProperties
<1>2. /\ SubSeq(names, 1, i - 1) \in Seq(Peers)
      /\ SubSeq(names, i + 1, Len(names)) \in Seq(Peers)
  BY <1>1
<1>. QED BY <1>2, ConcatProperties

\* pubsub.go:272-298: after a verdict readLoop looks at a name of what is left
\* of the packet, or at none.
LEMMA VerdictShape ==
    ASSUME NEW keep \in BOOLEAN, reading \in Work,
           reading.next \in 1 .. Len(reading.packet.names)
    PROVE  AfterVerdict(keep) \in Work /\ Points(AfterVerdict(keep))
<1>. DEFINE i == reading.next
            k == reading.packet
            names == IF keep THEN k.names
                     ELSE SubSeq(k.names, 1, i - 1)
                             \o SubSeq(k.names, i + 1, Len(k.names))
            next == IF keep THEN i + 1 ELSE i
            rest == [k EXCEPT !.names = names]
            left == [stage  |-> IF next > Len(names) THEN "deliver" ELSE "check",
                     packet |-> rest,
                     from   |-> reading.from, at |-> reading.at, next |-> next]
<1>1. AfterVerdict(keep) = IF ~ keep /\ k.kind = "chat" THEN Idle ELSE left
  BY DEF AfterVerdict
<1>2. k \in Packets /\ k.names \in Seq(Peers) /\ i \in 1 .. Len(k.names)
  BY DEF Work, Packets
<1>3. next \in Nat /\ next >= 1
  BY <1>2
<1>4. names \in Seq(Peers)
  <2>. HIDE DEF k, i
  <2>. QED BY <1>2, VerdictNames
<1>. HIDE DEF names, next
<1>5. rest \in Packets /\ rest.names = names
  BY <1>2, <1>4 DEF Packets
<1>. HIDE DEF rest
<1>6. left \in Work
  BY <1>3, <1>5 DEF Work
<1>7. Points(left)
  <2>1. /\ left.packet.names = names /\ left.next = next
        /\ next \in Nat /\ Len(names) \in Nat
    BY <1>3, <1>4, <1>5
  <2>2. left.stage \in {"check", "reject"} => ~ (next > Len(names))
    OBVIOUS
  <2>. QED BY <1>3, <2>1, <2>2 DEF Points
<1>. HIDE DEF left
<1>. QED BY <1>1, <1>6, <1>7, IdleIsWork

\* trust.go:36-47: a tracker that was just made.
LEMMA InitInv == Init => Inv
<1>. SUFFICES ASSUME Init PROVE Inv
  OBVIOUS
<1>1. trust = NewTrust /\ trust \in Tracker
  BY TrustAssumption DEF Init, NewTrust, Tracker, Bucket, NoTime
<1>2. Exact(trust)
  BY <1>1, TrustAssumption DEF NewTrust, Exact
<1>3. Shape
  BY <1>1, IdleIsWork DEF Init, Shape
<1>4. ASSUME NEW p \in Peers
      PROVE  Conserves(trust.rates[p], allowed[p], first[p], rewound[p])
  <2>1. trust.rates[p].last = NoTime /\ allowed[p] = 0
    BY <1>1 DEF NewTrust, Init
  <2>. QED BY <2>1 DEF Conserves
<1>. QED BY <1>2, <1>3, <1>4 DEF Inv

\* validate.go, pubsub.go: every step keeps the invariant.
LEMMA NextInv == Inv /\ [Next]_vars => Inv'
<1>. SUFFICES ASSUME Inv, [Next]_vars PROVE Inv'
  OBVIOUS
<1>. USE DEF Inv
<1>1. CASE Tick
  <2>1. now' \in Nat
    BY <1>1 DEF Tick, Shape
  <2>. QED BY <1>1, <2>1 DEF Tick, Shape, Points, Exact, history
<1>2. ASSUME NEW s \in Slots, NEW e \in Arrivals, Arrive(s, e.packet, e.from)
      PROVE  Inv'
  <2>1. e.packet \in Packets /\ e.from \in Peers
    BY ArrivalsAssumption
  <2>2. inbox' \in Seq([packet : Packets, from : Peers])
    BY <1>2, <2>1, DeliveredShape DEF Arrive, Shape
  <2>3. job' \in [Slots -> Work]
    <3>. DEFINE w == [stage  |-> IF RefusedEarly(e.packet, e.from) THEN "reject"
                                 ELSE "rate",
                      packet |-> e.packet, from |-> e.from, at |-> now, next |-> 1]
    <3>1. w \in Work
      BY <2>1 DEF Shape, Work
    <3>. HIDE DEF w
    <3>2. job' = job \/ job' = [job EXCEPT ![s] = w]
      BY <1>2 DEF Arrive, w
    <3>. QED BY <3>1, <3>2 DEF Shape
  <2>. QED BY <1>2, <2>2, <2>3 DEF Arrive, Shape, Points, Exact, history
<1>3. ASSUME NEW s \in Slots, Rate(s) PROVE Inv'
  <2>. DEFINE p == job[s].from
              at == job[s].at
              b == trust.rates[p]
              u == Refilled(b, at)
              ok == u.tokens >= Cost
  <2>1. p \in Peers /\ at \in Nat /\ b \in Bucket /\ Allowed(trust, p, at) = ok
    BY DEF Shape, Work, Tracker, Allowed
  <2>2. /\ trust' \in Tracker /\ Exact(trust')
        /\ trust'.rates = [trust.rates EXCEPT ![p] =
                             IF ok THEN [u EXCEPT !.tokens = @ - Cost] ELSE u]
    <3>1. trust \in Tracker /\ Exact(trust) /\ trust' = AllowRate(trust, p, at)
      BY <1>3 DEF Rate, Shape
    <3>. HIDE DEF p, at
    <3>2. /\ AllowRate(trust, p, at) \in Tracker /\ Exact(AllowRate(trust, p, at))
          /\ AllowRate(trust, p, at).rates = [trust.rates EXCEPT ![p] =
                IF Allowed(trust, p, at) THEN [u EXCEPT !.tokens = @ - Cost] ELSE u]
      BY <2>1, <3>1, RateKeeps
    <3>. HIDE DEF b, u, ok
    <3>. QED BY <2>1, <3>1, <3>2
  <2>3. u \in Bucket /\ u.last = at
    BY <2>1, RefillShape
  <2>4. /\ first' = [first EXCEPT ![p] = IF b.last = NoTime THEN at ELSE @]
        /\ allowed' = [allowed EXCEPT ![p] = IF ok THEN @ + 1 ELSE @]
        /\ rewound' = [rewound EXCEPT ![p] = IF at < b.last THEN @ + (b.last - at) ELSE @]
    BY <1>3, <2>1 DEF Rate
  <2>5. job' \in [Slots -> Work]
    <3>1. [job[s] EXCEPT !.stage = "check"] \in Work
      BY DEF Shape, Work
    <3>2. job' = [job EXCEPT ![s] = IF ok THEN [job[s] EXCEPT !.stage = "check"] ELSE Idle]
      BY <1>3, <2>1 DEF Rate
    <3>. HIDE DEF ok
    <3>. QED BY <3>1, <3>2, IdleIsWork DEF Shape
  <2>. HIDE DEF p, at, b, u, ok
  <2>6. /\ first' \in [Peers -> Nat] /\ allowed' \in [Peers -> Nat]
        /\ rewound' \in [Peers -> Nat]
    BY <2>1, <2>4 DEF Shape, Bucket
  <2>7. Shape'
    BY <1>3, <2>2, <2>5, <2>6 DEF Rate, Shape, Points
  <2>8. ASSUME NEW q \in Peers
        PROVE  Conserves(trust.rates[q], allowed[q], first[q], rewound[q])'
    <3>1. CASE q # p
      BY <2>2, <2>4, <3>1 DEF Shape, Tracker
    <3>2. CASE q = p
      <4>. DEFINE f1 == IF b.last = NoTime THEN at ELSE first[p]
                  r1 == IF at < b.last THEN rewound[p] + (b.last - at) ELSE rewound[p]
                  n1 == IF ok THEN allowed[p] + 1 ELSE allowed[p]
                  u1 == IF ok THEN [u EXCEPT !.tokens = @ - Cost] ELSE u
      <4>1. /\ trust'.rates[q] = u1 /\ allowed'[q] = n1
            /\ first'[q] = f1 /\ rewound'[q] = r1
        BY <2>1, <2>2, <2>4, <3>2 DEF Shape, Tracker
      <4>2. /\ first[p] \in Nat /\ allowed[p] \in Nat /\ rewound[p] \in Nat
            /\ Conserves(b, allowed[p], first[p], rewound[p])
        BY <2>1 DEF Shape, b
      <4>3. /\ Conserves(u, allowed[p], f1, r1) \/ b.last = NoTime
            /\ ok => Conserves([u EXCEPT !.tokens = @ - Cost], allowed[p] + 1, f1, r1)
            /\ b.last = NoTime => ok
        BY <2>1, <4>2, RateConserves DEF u, ok
      <4>4. Conserves(u1, n1, f1, r1)
        <5>. HIDE DEF f1, r1
        <5>. QED BY <4>3
      <4>. HIDE DEF u1, n1, f1, r1
      <4>. QED BY <4>1, <4>4
    <3>. QED BY <3>1, <3>2
  <2>. QED BY <2>2, <2>7, <2>8
<1>4. ASSUME NEW s \in Slots, Check(s) PROVE Inv'
  <2>1. job[s] \in Work
    BY DEF Shape
  <2>2. inbox' \in Seq([packet : Packets, from : Peers])
    <3>1. job[s].packet \in Packets /\ job[s].from \in Peers
      BY <2>1 DEF Work
    <3>. QED BY <1>4, <3>1, DeliveredShape DEF Check, Shape
  <2>3. job' \in [Slots -> Work]
    <3>1. /\ [job[s] EXCEPT !.stage = "reject"] \in Work
          /\ [job[s] EXCEPT !.next = job[s].next + 1] \in Work
      BY <2>1 DEF Work
    <3>2. \E w \in Work : job' = [job EXCEPT ![s] = w]
      BY <1>4, <3>1, IdleIsWork DEF Check
    <3>. QED BY <3>2 DEF Shape
  <2>. QED BY <1>4, <2>2, <2>3 DEF Check, Shape, Points, Exact, history
<1>5. ASSUME NEW s \in Slots, Reject(s) PROVE Inv'
  <2>1. job[s].from \in Peers
    BY DEF Shape, Work
  <2>2. trust' \in Tracker /\ Exact(trust') /\ trust'.rates = trust.rates
    BY <1>5, <2>1, RejectKeeps DEF Reject, Shape
  <2>3. job' \in [Slots -> Work]
    BY <1>5, IdleIsWork DEF Reject, Shape
  <2>. QED BY <1>5, <2>2, <2>3 DEF Reject, Shape, Points, Exact, history
<1>6. CASE Read
  <2>. DEFINE E == [packet : Packets, from : Peers]
              e == Head(inbox)
              names == IF Control(e.packet) THEN Tail(e.packet.names) ELSE e.packet.names
              verify == e.packet.kind \in {"chat", "sync_response"} /\ names # << >>
              skip == e.from = Self \/ (Control(e.packet) /\ e.packet.names[1] = Self)
              kept == IF verify THEN names ELSE << >>
              rest == [e.packet EXCEPT !.names = kept]
              work == [stage |-> IF verify THEN "check" ELSE "deliver",
                       packet |-> rest,
                       from |-> e.from, at |-> 0, next |-> 1]
  <2>1. inbox # << >> /\ inbox' = Tail(inbox) /\ reading' = IF skip THEN Idle ELSE work
    BY <1>6 DEF Read
  <2>2. e \in E /\ inbox' \in Seq(E)
    <3>1. inbox \in Seq(E)
      BY DEF Shape
    <3>. HIDE DEF E
    <3>. QED BY <2>1, <3>1
  <2>. HIDE DEF e
  <2>3. e.packet \in Packets /\ e.from \in Peers /\ e.packet.names \in Seq(Peers)
    BY <2>2 DEF Packets
  <2>4. kept \in Seq(Peers)
    BY <2>3 DEF Control
  <2>5. verify => Len(kept) >= 1
    BY <2>4
  <2>. HIDE DEF kept, skip, verify
  <2>6. rest \in Packets /\ rest.names = kept
    BY <2>3, <2>4 DEF Packets
  <2>. HIDE DEF rest
  <2>7. work \in Work
    BY <2>3, <2>6 DEF Work
  <2>8. Points(work)
    <3>1. work.packet.names = kept /\ work.next = 1 /\ Len(kept) \in Nat
      BY <2>4, <2>6
    <3>2. work.stage \in {"check", "reject"} => verify
      OBVIOUS
    <3>. QED BY <2>5, <3>1, <3>2 DEF Points
  <2>. HIDE DEF work
  <2>9. reading' \in Work /\ Points(reading')
    BY <2>1, <2>7, <2>8, IdleIsWork
  <2>. QED BY <1>6, <2>2, <2>9 DEF Read, Shape, Points, Exact, history
<1>7. CASE ReadCheck
  <2>1. reading \in Work /\ reading.next \in 1 .. Len(reading.packet.names)
    BY <1>7 DEF ReadCheck, Shape, Points
  <2>2. AfterVerdict(TRUE) \in Work /\ Points(AfterVerdict(TRUE))
    BY <2>1, VerdictShape
  <2>3. [reading EXCEPT !.stage = "reject"] \in Work
        /\ Points([reading EXCEPT !.stage = "reject"])
    BY <2>1 DEF Work, Points
  <2>4. reading' \in Work /\ Points(reading')
    BY <1>7, <2>2, <2>3 DEF ReadCheck
  <2>. QED BY <1>7, <2>4 DEF ReadCheck, Shape, Points, Exact, history
<1>8. CASE ReadReject
  <2>1. reading \in Work /\ reading.next \in 1 .. Len(reading.packet.names)
    BY <1>8 DEF ReadReject, Shape, Points
  <2>2. reading' \in Work /\ Points(reading')
    BY <1>8, <2>1, VerdictShape DEF ReadReject
  <2>3. reading.packet.names[reading.next] \in Peers
    BY <2>1 DEF Work, Packets
  <2>4. trust' \in Tracker /\ Exact(trust') /\ trust'.rates = trust.rates
    BY <1>8, <2>3, RejectKeeps DEF ReadReject, Shape
  <2>. QED BY <1>8, <2>2, <2>4 DEF ReadReject, Shape, Points, Exact, history
<1>9. CASE Deliver
  BY <1>9, IdleIsWork DEF Deliver, Shape, Points, Exact
<1>10. CASE MarkRejected
  BY <1>10 DEF MarkRejected, Shape, Points, Exact, history
<1>11. CASE UNCHANGED vars
  BY <1>11 DEF vars, Shape, Points, Exact
<1>. QED BY <1>1, <1>2, <1>3, <1>4, <1>5, <1>6, <1>7, <1>8, <1>9, <1>10, <1>11 DEF Next

\* validate.go, pubsub.go: the invariant always holds.
LEMMA SpecInv == Spec => []Inv
BY InitInv, NextInv, PTL DEF Spec

-----------------------------------------------------------------------------
(* What readLoop has looked at.                                            *)

\* The peers whose messages of the packet in hand are verified.
Passed(r) ==
    {r.packet.names[j] : j \in {j \in DOMAIN r.packet.names : j < r.next}}

\* A packet is delivered when all of it is verified.
Ended(r) ==
    /\ r.next >= 1
    /\ r.stage = "deliver" => r.next > Len(r.packet.names)

\* A peer that had its last word is in quarantine, and nothing more of it is
\* verified.
LastInv ==
    /\ Ended(reading)
    /\ \A p \in Peers :
          /\ lastWords[p] \in {0, 1}
          /\ lastWords[p] = 1 => p \in trust.quarantine /\ p \notin Passed(reading)

\* The buffers keep to their sizes, and validators and readLoop to their steps.
Bounds ==
    /\ now \in 0 .. MaxTime /\ arrived \in 0 .. MaxPackets
    /\ Len(inbox) <= ChannelSize /\ rejected \in 0 .. ChannelSize
    /\ \A s \in Slots : job[s].stage # "deliver"
    /\ reading.stage # "rate"

\* trust.go:49-64,87-122: a quarantine never ends.
LEMMA QuarantineGrows ==
    ASSUME NEW t \in Tracker, NEW p \in Peers, NEW at \in Nat
    PROVE  /\ t.quarantine \subseteq RecordReject(t, p).quarantine
           /\ t.quarantine \subseteq AllowRate(t, p, at).quarantine
<1>1. \A u \in Tracker : u.quarantine \subseteq RecordReject(u, p).quarantine
  BY DEF RecordReject
<1>2. CASE Allowed(t, p, at)
  <2>. DEFINE paid == [Refilled(t.rates[p], at) EXCEPT !.tokens = @ - Cost]
  <2>1. AllowRate(t, p, at) = [t EXCEPT !.rates[p] = paid]
    BY <1>2 DEF AllowRate
  <2>. HIDE DEF paid
  <2>2. AllowRate(t, p, at).quarantine = t.quarantine
    BY <2>1 DEF Tracker
  <2>. QED BY <1>1, <2>2
<1>3. CASE ~ Allowed(t, p, at)
  <2>. DEFINE bucket == Refilled(t.rates[p], at)
              asked == [t EXCEPT !.rates[p] = bucket]
              blamed == RecordReject(asked, p)
  <2>1. AllowRate(t, p, at) = [blamed EXCEPT !.rateLimited = @ + 1]
    BY <1>3 DEF AllowRate
  <2>. HIDE DEF bucket
  <2>2. asked.quarantine = t.quarantine
    BY DEF Tracker
  <2>. HIDE DEF asked
  <2>3. asked.quarantine \subseteq blamed.quarantine
    BY DEF RecordReject
  <2>4. AllowRate(t, p, at).quarantine = blamed.quarantine
    <3>1. blamed = [invalid |-> blamed.invalid, quarantine |-> blamed.quarantine,
                    rates |-> blamed.rates, rateLimited |-> blamed.rateLimited]
      BY DEF RecordReject
    <3>. HIDE DEF blamed
    <3>. QED BY <2>1, <3>1
  <2>. QED BY <1>1, <2>2, <2>3, <2>4
<1>. QED BY <1>1, <1>2, <1>3

\* pubsub.go:240: at rest there is nothing in hand.
LEMMA IdlePassed == Passed(Idle) = {} /\ Ended(Idle) /\ Idle.stage = "idle"
BY DEF Idle, NoPacket, Passed, Ended

\* pubsub.go:272-298: a kept message is one more that is verified, a dropped one
\* none, and what is left is delivered after its last.
LEMMA VerdictPassed ==
    ASSUME NEW keep \in BOOLEAN, reading \in Work,
           reading.next \in 1 .. Len(reading.packet.names)
    PROVE  /\ Ended(AfterVerdict(keep))
           /\ AfterVerdict(keep).stage \in {"idle", "check", "deliver"}
           /\ Passed(AfterVerdict(keep)) \subseteq
                 IF keep
                 THEN Passed(reading) \cup {reading.packet.names[reading.next]}
                 ELSE Passed(reading)
<1>. DEFINE i == reading.next
            k == reading.packet
            names == IF keep THEN k.names
                     ELSE SubSeq(k.names, 1, i - 1)
                             \o SubSeq(k.names, i + 1, Len(k.names))
            next == IF keep THEN i + 1 ELSE i
            rest == [k EXCEPT !.names = names]
            left == [stage  |-> IF next > Len(names) THEN "deliver" ELSE "check",
                     packet |-> rest,
                     from   |-> reading.from, at |-> reading.at, next |-> next]
<1>1. AfterVerdict(keep) = IF ~ keep /\ k.kind = "chat" THEN Idle ELSE left
  BY DEF AfterVerdict
<1>2. /\ k \in Packets /\ k.names \in Seq(Peers)
      /\ i \in 1 .. Len(k.names) /\ Len(k.names) \in Nat
  BY DEF Work, Packets
<1>3. next \in Nat /\ next >= 1 /\ next = IF keep THEN i + 1 ELSE i
  BY <1>2
<1>4. rest.names = names
  BY <1>2 DEF Packets
<1>5. ASSUME NEW j \in DOMAIN names, j < next
      PROVE  /\ names[j] = k.names[j] /\ j \in DOMAIN k.names
             /\ j < i \/ (keep /\ j = i)
  <2>1. CASE keep
    BY <1>2, <1>3, <1>5, <2>1
  <2>2. CASE ~ keep
    <3>. DEFINE a == SubSeq(k.names, 1, i - 1)
                b == SubSeq(k.names, i + 1, Len(k.names))
    <3>. HIDE DEF k, i
    <3>1. \A m, n \in Int : m >= 1 /\ n <= Len(k.names) =>
             SubSeq(k.names, m, n) \in Seq(Peers)
      BY <1>2, SubSeqProperties
    <3>2. a \in Seq(Peers) /\ b \in Seq(Peers)
      BY <1>2, <3>1
    <3>3. Len(a) = i - 1 /\ \A n \in 1 .. i - 1 : a[n] = k.names[n]
      BY <1>2, SubSeqProperties
    <3>4. names = a \o b /\ names \in Seq(Peers)
      BY <2>2, <3>2, ConcatProperties
    <3>. HIDE DEF a, b, names
    <3>5. j \in 1 .. i - 1
      BY <1>2, <1>3, <1>5, <2>2, <3>4
    <3>6. names[j] = a[j]
      BY <3>2, <3>3, <3>4, <3>5, ConcatProperties
    <3>. QED BY <1>2, <3>3, <3>5, <3>6
  <2>. QED BY <2>1, <2>2
<1>6. names \in Seq(Peers)
  <2>. HIDE DEF k, i
  <2>. QED BY <1>2, VerdictNames
<1>. HIDE DEF names, next, rest, i
<1>7. Passed(left) \subseteq
         IF keep THEN Passed(reading) \cup {reading.packet.names[reading.next]}
         ELSE Passed(reading)
  BY <1>4, <1>5 DEF Passed, i
<1>8. Ended(left) /\ left.stage \in {"check", "deliver"}
  BY <1>3, <1>4, <1>6 DEF Ended
<1>. HIDE DEF left
<1>. QED BY <1>1, <1>7, <1>8, IdlePassed

\* trust.go:49-64,110-114: QuarantineExact, for any number of validators and
\* every threshold: the lock of the tracker is enough, since the counter and the
\* quarantine change under it together.
THEOREM Quarantine == Spec => []QuarantineExact
<1>1. Inv => QuarantineExact
  BY DEF Inv, Exact, QuarantineExact
<1>. QED BY <1>1, SpecInv, PTL

\* trust.go:87-122: BucketConserves, for every burst and price, with times that
\* validators read before they take the lock.
THEOREM Conservation == Spec => []BucketConserves
<1>1. Inv => BucketConserves
  BY DEF Inv, Conserves, BucketConserves
<1>. QED BY <1>1, SpecInv, PTL

\* pubsub.go:243-270: a packet that readLoop takes has all its names before it,
\* and one without names goes on as it is.
LEMMA ReadTakes ==
    ASSUME Inv, Read, reading' # Idle
    PROVE  /\ reading'.next = 1 /\ reading'.packet.names \in Seq(Peers)
           /\ reading'.stage = "deliver" => reading'.packet.names = << >>
<1>. DEFINE e == Head(inbox)
            names == IF Control(e.packet) THEN Tail(e.packet.names) ELSE e.packet.names
            verify == e.packet.kind \in {"chat", "sync_response"} /\ names # << >>
            kept == IF verify THEN names ELSE << >>
            rest == [e.packet EXCEPT !.names = kept]
<1>1. e \in [packet : Packets, from : Peers]
  <2>. DEFINE E == [packet : Packets, from : Peers]
  <2>1. inbox \in Seq(E) /\ inbox # << >>
    BY DEF Inv, Shape, Read
  <2>. HIDE DEF E
  <2>2. Head(inbox) \in E
    BY <2>1
  <2>. QED BY <2>2 DEF E
<1>2. reading' = [stage |-> IF verify THEN "check" ELSE "deliver",
                  packet |-> rest, from |-> e.from, at |-> 0, next |-> 1]
  BY DEF Read
<1>. HIDE DEF e
<1>3. kept \in Seq(Peers)
  <2>1. e.packet.names \in Seq(Peers)
    BY <1>1 DEF Packets
  <2>. QED BY <2>1
<1>. HIDE DEF kept, verify
<1>4. rest.names = kept
  BY <1>1 DEF Packets
<1>. HIDE DEF rest
<1>5. reading'.next = 1 /\ reading'.packet = rest
      /\ reading'.stage = IF verify THEN "check" ELSE "deliver"
  BY <1>2
<1>6. ~ verify => kept = << >>
  BY DEF kept
<1>. QED BY <1>3, <1>4, <1>5, <1>6

\* pubsub.go:240-298: the steps of readLoop.
LEMMA NextLast == Inv /\ LastInv /\ [Next]_vars => LastInv'
<1>. SUFFICES ASSUME Inv, LastInv, [Next]_vars PROVE LastInv'
  OBVIOUS
<1>1. trust \in Tracker /\ reading \in Work /\ Points(reading)
  BY DEF Inv, Shape
<1>2. ASSUME trust.quarantine \subseteq trust'.quarantine,
             UNCHANGED lastWords, Ended(reading'),
             \A p \in Passed(reading') : p \in Passed(reading) \/ p \notin trust.quarantine
      PROVE  LastInv'
  <2>1. ASSUME NEW p \in Peers, lastWords'[p] = 1
        PROVE  p \in trust'.quarantine /\ p \notin Passed(reading')
    BY <1>2, <2>1 DEF LastInv
  <2>2. \A p \in Peers : lastWords'[p] \in {0, 1}
    BY <1>2 DEF LastInv
  <2>. HIDE DEF Passed, Ended
  <2>3. (Passed(reading))' = Passed(reading') /\ (Ended(reading))' = Ended(reading')
    BY DEF Passed, Ended
  <2>. QED BY <1>2, <2>1, <2>2, <2>3 DEF LastInv
<1>3. ASSUME trust.quarantine \subseteq trust'.quarantine,
             UNCHANGED <<lastWords, reading>>
      PROVE  LastInv'
  BY <1>2, <1>3 DEF LastInv
<1>4. CASE Tick
  BY <1>3, <1>4 DEF Tick, history
<1>5. ASSUME NEW s \in Slots, NEW e \in Arrivals, Arrive(s, e.packet, e.from)
      PROVE  LastInv'
  BY <1>3, <1>5 DEF Arrive, history
<1>6. ASSUME NEW s \in Slots, Rate(s) PROVE LastInv'
  <2>1. job[s].from \in Peers /\ job[s].at \in Nat
    BY DEF Inv, Shape, Work
  <2>2. trust.quarantine \subseteq trust'.quarantine
    BY <1>1, <1>6, <2>1, QuarantineGrows DEF Rate
  <2>. QED BY <1>3, <1>6, <2>2 DEF Rate
<1>7. ASSUME NEW s \in Slots, Check(s) PROVE LastInv'
  BY <1>3, <1>7 DEF Check, history
<1>8. ASSUME NEW s \in Slots, Reject(s) PROVE LastInv'
  <2>1. job[s].from \in Peers /\ 0 \in Nat
    BY DEF Inv, Shape, Work
  <2>2. trust.quarantine \subseteq trust'.quarantine
    BY <1>1, <1>8, <2>1, QuarantineGrows DEF Reject
  <2>. QED BY <1>3, <1>8, <2>2 DEF Reject, history
<1>9. CASE Read
  <2>1. UNCHANGED <<trust, lastWords>>
    BY <1>9 DEF Read, history
  <2>2. Passed(reading') = {} /\ Ended(reading')
    <3>1. CASE reading' = Idle
      BY <3>1, IdlePassed
    <3>2. CASE reading' # Idle
      <4>1. /\ reading'.next = 1
            /\ reading'.stage = "deliver" => reading'.packet.names = << >>
        BY <1>9, <3>2, ReadTakes
      <4>2. /\ DOMAIN reading'.packet.names \subseteq Nat \ {0}
            /\ reading'.stage = "deliver" => Len(reading'.packet.names) = 0
        <5>1. reading'.packet.names \in Seq(Peers)
          BY <1>9, <3>2, ReadTakes
        <5>. QED BY <4>1, <5>1
      <4>. QED BY <4>1, <4>2 DEF Passed, Ended
    <3>. QED BY <3>1, <3>2
  <2>. QED BY <1>2, <2>1, <2>2
<1>10. CASE ReadCheck
  <2>. DEFINE p == reading.packet.names[reading.next]
  <2>1. UNCHANGED <<trust, lastWords>> /\ reading.next \in 1 .. Len(reading.packet.names)
    BY <1>1, <1>10 DEF ReadCheck, Points, history
  <2>2. CASE QuarantinedSince(p)
    <3>1. reading' = [reading EXCEPT !.stage = "reject"]
      BY <1>10, <2>2 DEF ReadCheck
    <3>2. /\ reading'.stage = "reject" /\ reading'.packet = reading.packet
          /\ reading'.next = reading.next
      BY <1>1, <3>1 DEF Work
    <3>3. Passed(reading') = Passed(reading) /\ Ended(reading')
      BY <3>2, <2>1 DEF Passed, Ended
    <3>. QED BY <1>2, <2>1, <3>3
  <2>3. CASE ~ QuarantinedSince(p)
    <3>1. reading' = AfterVerdict(TRUE) /\ p \notin trust.quarantine
      BY <1>10, <2>3 DEF ReadCheck, QuarantinedSince, IsQuarantined
    <3>2. Ended(reading') /\ Passed(reading') \subseteq Passed(reading) \cup {p}
      BY <1>1, <2>1, <3>1, VerdictPassed
    <3>. QED BY <1>2, <2>1, <3>1, <3>2
  <2>. QED BY <2>2, <2>3
<1>11. CASE ReadReject
  <2>1. /\ reading.next \in 1 .. Len(reading.packet.names) /\ 0 \in Nat
        /\ UNCHANGED lastWords
        /\ trust' = RecordReject(trust, reading.packet.names[reading.next])
    BY <1>1, <1>11 DEF ReadReject, Points, history
  <2>2. reading.packet.names[reading.next] \in Peers
    BY <1>1, <2>1 DEF Work, Packets
  <2>3. trust.quarantine \subseteq trust'.quarantine
    BY <1>1, <2>1, <2>2, QuarantineGrows
  <2>4. Ended(reading') /\ Passed(reading') \subseteq Passed(reading)
    BY <1>1, <1>11, <2>1, VerdictPassed DEF ReadReject
  <2>. QED BY <1>2, <2>1, <2>3, <2>4
<1>12. CASE Deliver
  <2>1. /\ reading.stage = "deliver" /\ reading' = Idle /\ UNCHANGED trust
        /\ \A p \in Peers : lastWords'[p] =
              IF p \in trust.quarantine /\ p \in ToSet(reading.packet.names)
              THEN lastWords[p] + 1 ELSE lastWords[p]
    BY <1>12 DEF Deliver
  <2>2. ToSet(reading.packet.names) \subseteq Passed(reading)
    <3>1. reading.packet.names \in Seq(Peers) /\ reading.next \in Nat
      BY <1>1 DEF Work, Packets
    <3>2. reading.next > Len(reading.packet.names)
      BY <2>1 DEF LastInv, Ended
    <3>. QED BY <3>1, <3>2 DEF Passed, ToSet
  <2>3. ASSUME NEW p \in Peers
        PROVE  /\ lastWords'[p] \in {0, 1}
               /\ lastWords'[p] = 1 => p \in trust'.quarantine
    BY <2>1, <2>2 DEF LastInv
  <2>4. Passed(reading') = {} /\ Ended(reading')
    BY <2>1, IdlePassed
  <2>5. (Passed(reading))' = Passed(reading') /\ (Ended(reading))' = Ended(reading')
    BY DEF Passed, Ended
  <2>. QED BY <2>3, <2>4, <2>5 DEF LastInv
<1>13. CASE MarkRejected
  BY <1>3, <1>13 DEF MarkRejected, history
<1>14. CASE UNCHANGED vars
  BY <1>3, <1>14 DEF vars
<1>. QED BY <1>4, <1>5, <1>6, <1>7, <1>8, <1>9, <1>10, <1>11, <1>12, <1>13,
             <1>14 DEF Next

\* validate.go:118-134: the subscription holds as much as it can.
LEMMA DeliveredFits ==
    ASSUME NEW k \in Packets, NEW p \in Peers, Inv, Bounds
    PROVE  Len(Delivered(k, p)) <= ChannelSize
<1>. DEFINE E == [packet : Packets, from : Peers]
            e == [packet |-> k, from |-> p]
<1>1. inbox \in Seq(E) /\ e \in E /\ Len(inbox) <= ChannelSize
  BY DEF Inv, Shape, Bounds
<1>. HIDE DEF E, e
<1>2. Len(inbox) \in Nat /\ Len(Append(inbox, e)) = Len(inbox) + 1
  BY <1>1
<1>. QED BY <1>1, <1>2, ArrivalsAssumption DEF Delivered, e

\* validate.go, pubsub.go: every step keeps the bounds.
LEMMA NextBounds == Inv /\ Bounds /\ [Next]_vars => Bounds'
<1>. SUFFICES ASSUME Inv, Bounds, [Next]_vars PROVE Bounds'
  OBVIOUS
<1>1. /\ trust \in Tracker /\ reading \in Work /\ Points(reading)
      /\ job \in [Slots -> Work] /\ Idle.stage = "idle"
  BY DEF Inv, Shape, Idle
<1>. DEFINE Calm(s) == job'[s].stage # "deliver"
<1>2. CASE Tick
  BY <1>2, ArrivalsAssumption DEF Tick, Bounds, history
<1>3. ASSUME NEW s \in Slots, NEW e \in Arrivals, Arrive(s, e.packet, e.from)
      PROVE  Bounds'
  <2>1. e.packet \in Packets /\ e.from \in Peers
    BY ArrivalsAssumption
  <2>2. Len(inbox') <= ChannelSize
    BY <1>3, <2>1, DeliveredFits DEF Arrive, Bounds
  <2>3. \A t \in Slots : Calm(t)
    BY <1>1, <1>3 DEF Arrive, Bounds
  <2>. QED BY <1>3, <2>2, <2>3, ArrivalsAssumption DEF Arrive, Bounds, history
<1>4. ASSUME NEW s \in Slots, Rate(s) PROVE Bounds'
  <2>1. \A t \in Slots : Calm(t)
    <3>1. [job[s] EXCEPT !.stage = "check"].stage = "check"
      BY <1>1 DEF Work
    <3>2. \E w \in Work : w.stage \in {"check", "idle"} /\ job' = [job EXCEPT ![s] = w]
      <4>1. [job[s] EXCEPT !.stage = "check"] \in Work
        BY <1>1 DEF Work
      <4>. QED BY <1>1, <1>4, <3>1, <4>1, IdleIsWork DEF Rate
    <3>. QED BY <1>1, <3>2 DEF Bounds
  <2>. QED BY <1>4, <2>1 DEF Rate, Bounds
<1>5. ASSUME NEW s \in Slots, Check(s) PROVE Bounds'
  <2>1. job[s] \in Work /\ job[s].packet \in Packets /\ job[s].from \in Peers
    BY <1>1 DEF Work
  <2>2. Len(inbox') <= ChannelSize
    BY <1>5, <2>1, DeliveredFits DEF Check, Bounds
  <2>3. \A t \in Slots : Calm(t)
    <3>. DEFINE refused == [job[s] EXCEPT !.stage = "reject"]
                more == [job[s] EXCEPT !.next = job[s].next + 1]
    <3>1. /\ refused \in Work /\ refused.stage = "reject"
          /\ more \in Work /\ more.stage = job[s].stage
      BY <2>1 DEF Work
    <3>2. \E w \in {refused, more, Idle} : job' = [job EXCEPT ![s] = w]
      BY <1>5 DEF Check
    <3>. HIDE DEF refused, more
    <3>. QED BY <1>1, <3>1, <3>2 DEF Bounds
  <2>. QED BY <1>5, <2>2, <2>3 DEF Check, Bounds, history
<1>6. ASSUME NEW s \in Slots, Reject(s) PROVE Bounds'
  <2>1. \A t \in Slots : Calm(t)
    BY <1>1, <1>6 DEF Reject, Bounds
  <2>. QED BY <1>6, <2>1 DEF Reject, Bounds, history
<1>7. CASE Read
  <2>. DEFINE E == [packet : Packets, from : Peers]
  <2>1. inbox' = Tail(inbox) /\ inbox # << >> /\ inbox \in Seq(E)
        /\ Len(inbox) <= ChannelSize
    BY <1>7 DEF Read, Inv, Shape, Bounds
  <2>2. Len(inbox') <= ChannelSize
    <3>. HIDE DEF E
    <3>1. Len(inbox') = Len(inbox) - 1 /\ Len(inbox) \in Nat
      BY <2>1
    <3>. QED BY <2>1, <3>1, ArrivalsAssumption
  <2>3. reading'.stage \in {"idle", "check", "deliver"}
    BY <1>1, <1>7 DEF Read
  <2>. QED BY <1>7, <2>2, <2>3 DEF Read, Bounds, history
<1>8. CASE ReadCheck
  <2>1. reading'.stage \in {"idle", "check", "deliver", "reject"}
    <3>1. reading.next \in 1 .. Len(reading.packet.names)
      BY <1>1, <1>8 DEF ReadCheck, Points
    <3>2. [reading EXCEPT !.stage = "reject"].stage = "reject"
      BY <1>1 DEF Work
    <3>3. AfterVerdict(TRUE).stage \in {"idle", "check", "deliver"}
      BY <1>1, <3>1, VerdictPassed
    <3>. QED BY <1>8, <3>2, <3>3 DEF ReadCheck
  <2>. QED BY <1>8, <2>1 DEF ReadCheck, Bounds, history
<1>9. CASE ReadReject
  <2>1. reading'.stage \in {"idle", "check", "deliver"}
    <3>1. reading.next \in 1 .. Len(reading.packet.names)
      BY <1>1, <1>9 DEF ReadReject, Points
    <3>. QED BY <1>1, <1>9, <3>1, VerdictPassed DEF ReadReject
  <2>2. rejected' \in 0 .. ChannelSize
    BY <1>9, ArrivalsAssumption DEF ReadReject, Bounds
  <2>. QED BY <1>9, <2>1, <2>2 DEF ReadReject, Bounds, history
<1>10. CASE Deliver
  BY <1>1, <1>10 DEF Deliver, Bounds
<1>11. CASE MarkRejected
  <2>1. rejected' \in 0 .. ChannelSize
    BY <1>11, ArrivalsAssumption DEF MarkRejected, Bounds
  <2>. QED BY <1>11, <2>1 DEF MarkRejected, Bounds, history
<1>12. CASE UNCHANGED vars
  BY <1>12 DEF vars, Bounds
<1>. QED BY <1>2, <1>3, <1>4, <1>5, <1>6, <1>7, <1>8, <1>9, <1>10, <1>11, <1>12
         DEF Next

\* trust.go:36-47, pubsub.go:49-61: nothing has happened yet.
LEMMA InitBounds == Init => LastInv /\ Bounds
<1>. SUFFICES ASSUME Init PROVE LastInv /\ Bounds
  OBVIOUS
<1>1. LastInv
  BY IdlePassed DEF Init, LastInv
<1>2. Bounds
  <2>1. inbox = << >> /\ Len(<< >>) = 0
    BY DEF Init
  <2>2. /\ \A s \in Slots : job[s].stage = "idle"
        /\ reading.stage = "idle"
    BY IdlePassed DEF Init
  <2>. QED BY <2>1, <2>2, ArrivalsAssumption DEF Init, Bounds
<1>. QED BY <1>1, <1>2

\* pubsub.go:295: OneLastWord, for any number of names in a packet and of
\* packets that passed the validators before.
THEOREM LastWord == Spec => []OneLastWord
<1>1. LastInv => OneLastWord
  <2>. SUFFICES ASSUME LastInv, NEW p \in Peers PROVE lastWords[p] <= 1
    BY DEF OneLastWord
  <2>1. lastWords[p] \in {0, 1}
    BY DEF LastInv
  <2>. QED BY <2>1
<1>. QED BY <1>1, InitInv, NextInv, InitBounds, NextLast, PTL DEF Spec

\* pubsub.go:49-61, trust.go:27-34: the types and the sizes of the buffers.
THEOREM TypeCorrect == Spec => []TypeOK
<1>1. Inv /\ Bounds => TypeOK
  <2>. SUFFICES ASSUME Inv, Bounds PROVE TypeOK
    OBVIOUS
  <2>1. trust \in Tracker /\ job \in [Slots -> Work] /\ reading \in Work
    BY DEF Inv, Shape
  <2>2. /\ trust.invalid \in [Peers -> Nat] /\ trust.quarantine \in SUBSET Peers
        /\ trust.rates \in [Peers -> Bucket] /\ trust.rateLimited \in Nat
    BY <2>1 DEF Tracker
  <2>3. \A s \in Slots : job[s].stage \in {"idle", "rate", "check", "reject"}
    BY <2>1 DEF Work, Bounds
  <2>4. reading.stage \in {"idle", "check", "reject", "deliver"}
    BY <2>1 DEF Work, Bounds
  <2>. QED BY <2>2, <2>3, <2>4 DEF Bounds, TypeOK
<1>. QED BY <1>1, InitInv, NextInv, InitBounds, NextBounds, PTL DEF Spec

-----------------------------------------------------------------------------
(* A room of honest nodes.                                                 *)

\* The controls that node n saw and that a neighbour other than their author
\* could have brought.
Relayable(n) ==
    {k \in seen[n] : /\ k.kind # "chat" /\ k.author # n
                     /\ Neighbours(n) \ {k.author} # {}}

\* What node n can hold against the others: packets over the rate, and one
\* reject for every control that was relayed.
Grounds(n) == trusts[n].rateLimited + Cardinality(Relayable(n))

\* No peer has more rejects than there are grounds, or else there are grounds
\* enough for a quarantine.
Grounded(n) ==
    \/ Threshold <= Grounds(n)
    \/ \A p \in Peers : trusts[n].invalid[p] <= Grounds(n)

HonestPacket(k) == k.kind \in Published /\ k.author \in Peers

\* Node n's part of the state.
NodeInv(n) ==
    /\ trusts[n] \in Tracker /\ Exact(trusts[n])
    /\ IsFiniteSet(seen[n]) /\ \A k \in seen[n] : HonestPacket(k)
    /\ Grounded(n)

WireInv ==
    \A m \in wire :
       /\ m.to \in Peers /\ m.from \in Neighbours(m.to)
       /\ HonestPacket(m.packet) /\ m.packet.author # m.to

GossipInv ==
    /\ time \in Nat
    /\ DOMAIN trusts = Peers /\ DOMAIN seen = Peers
    /\ \A n \in Peers : NodeInv(n)
    /\ WireInv

\* trust.go:49-64: a reject counts one.
LEMMA RejectCounts ==
    ASSUME NEW t \in Tracker, NEW p \in Peers
    PROVE  /\ RecordReject(t, p).invalid = [t.invalid EXCEPT ![p] = @ + 1]
           /\ RecordReject(t, p).rateLimited = t.rateLimited
BY DEF RecordReject

\* trust.go:87-122: a packet over the rate counts one reject and one packet over
\* the rate, any other counts nothing.
LEMMA RateCounts ==
    ASSUME NEW t \in Tracker, NEW p \in Peers, NEW at
    PROVE  \/ /\ Allowed(t, p, at)
              /\ AllowRate(t, p, at).invalid = t.invalid
              /\ AllowRate(t, p, at).quarantine = t.quarantine
              /\ AllowRate(t, p, at).rateLimited = t.rateLimited
           \/ /\ ~ Allowed(t, p, at)
              /\ AllowRate(t, p, at).invalid = [t.invalid EXCEPT ![p] = @ + 1]
              /\ AllowRate(t, p, at).rateLimited = t.rateLimited + 1
<1>. DEFINE bucket == Refilled(t.rates[p], at)
<1>1. CASE Allowed(t, p, at)
  <2>. DEFINE paid == [bucket EXCEPT !.tokens = @ - Cost]
  <2>1. AllowRate(t, p, at) = [t EXCEPT !.rates[p] = paid]
    BY <1>1 DEF AllowRate
  <2>. HIDE DEF paid
  <2>. QED BY <1>1, <2>1 DEF Tracker
<1>2. CASE ~ Allowed(t, p, at)
  <2>. DEFINE asked == [t EXCEPT !.rates[p] = bucket]
  <2>1. AllowRate(t, p, at)
           = [RecordReject(asked, p) EXCEPT !.rateLimited = @ + 1]
    BY <1>2 DEF AllowRate
  <2>. HIDE DEF bucket
  <2>2. asked.invalid = t.invalid /\ asked.rateLimited = t.rateLimited
    BY DEF Tracker
  <2>. HIDE DEF asked
  <2>3. /\ AllowRate(t, p, at).invalid = [asked.invalid EXCEPT ![p] = @ + 1]
        /\ AllowRate(t, p, at).rateLimited = asked.rateLimited + 1
    BY <2>1 DEF RecordReject
  <2>. QED BY <1>2, <2>2, <2>3
<1>. QED BY <1>1, <1>2

\* validate.go:48-64: what a verdict does to the counters: nothing; one reject
\* for a control that was relayed; one for a packet over the rate; or one more
\* by a node that has somebody in quarantine already.
LEMMA VerdictCounts ==
    ASSUME NEW t \in Tracker, Exact(t), NEW k, NEW p \in Peers, time \in Nat
    PROVE  LET u == TrustAfter(t, k, p) IN
           /\ u \in Tracker /\ Exact(u)
           /\ \/ u.invalid = t.invalid /\ u.rateLimited = t.rateLimited
              \/ /\ Mismatch(k, p)
                 /\ u.invalid = [t.invalid EXCEPT ![p] = @ + 1]
                 /\ u.rateLimited = t.rateLimited
              \/ /\ u.invalid = [t.invalid EXCEPT ![p] = @ + 1]
                 /\ u.rateLimited = t.rateLimited + 1
              \/ t.quarantine # {} /\ u.rateLimited = t.rateLimited
<1>. DEFINE u == TrustAfter(t, k, p)
            paid == AllowRate(t, p, time)
<1>1. paid \in Tracker /\ Exact(paid)
  BY RateKeeps
<1>2. CASE Mismatch(k, p)
  <2>1. u = RecordReject(t, p)
    BY <1>2 DEF TrustAfter
  <2>. QED BY <1>2, <2>1, RejectKeeps, RejectCounts
<1>3. CASE ~ Mismatch(k, p) /\ ~ Allowed(t, p, time)
  <2>1. u = paid
    BY <1>3 DEF TrustAfter
  <2>2. /\ paid.invalid = [t.invalid EXCEPT ![p] = @ + 1]
        /\ paid.rateLimited = t.rateLimited + 1
    BY <1>3, RateCounts
  <2>. HIDE DEF u, paid
  <2>. QED BY <1>1, <2>1, <2>2 DEF u
<1>4. CASE ~ Mismatch(k, p) /\ Allowed(t, p, time)
  <2>1. /\ paid.invalid = t.invalid /\ paid.quarantine = t.quarantine
        /\ paid.rateLimited = t.rateLimited
    BY <1>4, RateCounts
  <2>2. CASE IsQuarantined(paid, k.author)
    <3>1. u = RecordReject(paid, p)
      BY <1>4, <2>2 DEF TrustAfter
    <3>2. t.quarantine # {}
      BY <2>1, <2>2 DEF IsQuarantined
    <3>. HIDE DEF paid
    <3>3. /\ RecordReject(paid, p) \in Tracker /\ Exact(RecordReject(paid, p))
          /\ RecordReject(paid, p).rateLimited = paid.rateLimited
      BY <1>1, RejectKeeps, RejectCounts
    <3>. QED BY <2>1, <3>1, <3>2, <3>3
  <2>3. CASE ~ IsQuarantined(paid, k.author)
    <3>1. u = paid
      BY <1>4, <2>3 DEF TrustAfter
    <3>. HIDE DEF u, paid
    <3>. QED BY <1>1, <2>1, <3>1 DEF u
  <2>. QED BY <2>2, <2>3
<1>. QED BY <1>2, <1>3, <1>4

\* validate.go:20-116: every reject of an honest node has its ground.
LEMMA ValidateGrounded ==
    ASSUME GossipInv, NEW n \in Peers, NEW p \in Peers, NEW k, NEW gone,
           HonestPacket(k), Validate(n, k, p, gone),
           \/ p = n /\ k.author = n
           \/ p \in Neighbours(n) /\ k.author # n /\ k \notin seen[n]
    PROVE  /\ DOMAIN trusts' = Peers /\ DOMAIN seen' = Peers
           /\ \A q \in Peers : NodeInv(q)'
<1>. DEFINE t == trusts[n]
            u == TrustAfter(t, k, p)
            R == Relayable(n)
            S == Relayable(n)'
<1>1. /\ trusts' = [trusts EXCEPT ![n] = u]
      /\ seen' = [seen EXCEPT ![n] = seen[n] \cup {k}]
  BY DEF Validate
<1>2. /\ DOMAIN trusts = Peers /\ DOMAIN seen = Peers /\ time \in Nat
      /\ t \in Tracker /\ Exact(t) /\ Grounded(n)
      /\ IsFiniteSet(seen[n]) /\ \A x \in seen[n] : HonestPacket(x)
  BY DEF GossipInv, NodeInv
<1>3. /\ DOMAIN trusts' = Peers /\ DOMAIN seen' = Peers
      /\ trusts'[n] = u /\ seen'[n] = seen[n] \cup {k}
      /\ \A q \in Peers \ {n} : trusts'[q] = trusts[q] /\ seen'[q] = seen[q]
  <2>. HIDE DEF u
  <2>. QED BY <1>1, <1>2
<1>4. /\ u \in Tracker /\ Exact(u)
      /\ \/ u.invalid = t.invalid /\ u.rateLimited = t.rateLimited
         \/ /\ Mismatch(k, p)
            /\ u.invalid = [t.invalid EXCEPT ![p] = @ + 1]
            /\ u.rateLimited = t.rateLimited
         \/ /\ u.invalid = [t.invalid EXCEPT ![p] = @ + 1]
            /\ u.rateLimited = t.rateLimited + 1
         \/ t.quarantine # {} /\ u.rateLimited = t.rateLimited
  <2>. HIDE DEF t
  <2>. QED BY <1>2, VerdictCounts
<1>. HIDE DEF u
<1>5. ASSUME NEW q \in Peers \ {n} PROVE NodeInv(q)'
  <2>1. NodeInv(q) /\ trusts'[q] = trusts[q] /\ seen'[q] = seen[q]
    BY <1>3 DEF GossipInv
  <2>2. Relayable(q)' = Relayable(q)
    BY <2>1 DEF Relayable
  <2>. QED BY <2>1, <2>2 DEF NodeInv, Grounded, Grounds
<1>6. IsFiniteSet(seen[n] \cup {k}) /\ \A x \in seen'[n] : HonestPacket(x)
  BY <1>2, <1>3, FS_AddElement
<1>7. /\ R \subseteq S /\ IsFiniteSet(R) /\ IsFiniteSet(S)
      /\ Mismatch(k, p) => S = R \cup {k} /\ k \notin R
  <2>1. R \subseteq seen[n] /\ S \subseteq seen[n] \cup {k}
    BY <1>3 DEF Relayable
  <2>2. IsFiniteSet(R) /\ IsFiniteSet(S)
    BY <1>2, <1>6, <2>1, FS_Subset
  <2>3. R \subseteq S
    BY <1>3 DEF Relayable
  <2>4. ASSUME Mismatch(k, p) PROVE S = R \cup {k} /\ k \notin R
    <3>1. /\ k.kind # "chat" /\ k.author # p
          /\ p \in Neighbours(n) /\ k.author # n /\ k \notin seen[n]
      BY <2>4 DEF Mismatch
    <3>2. Neighbours(n) \ {k.author} # {}
      BY <3>1
    <3>. QED BY <1>3, <3>1, <3>2 DEF Relayable
  <2>. QED BY <2>2, <2>3, <2>4
<1>8. /\ Cardinality(R) \in Nat /\ Cardinality(S) \in Nat
      /\ Cardinality(R) <= Cardinality(S)
      /\ Mismatch(k, p) => Cardinality(S) = Cardinality(R) + 1
  <2>. HIDE DEF R, S
  <2>1. Cardinality(R) \in Nat /\ Cardinality(S) \in Nat
    BY <1>7, FS_CardinalityType
  <2>2. Cardinality(R) <= Cardinality(S)
    BY <1>7, FS_Subset
  <2>3. Mismatch(k, p) => Cardinality(S) = Cardinality(R) + 1
    BY <1>7, FS_AddElement
  <2>. QED BY <2>1, <2>2, <2>3
<1>9. /\ Grounds(n) = t.rateLimited + Cardinality(R)
      /\ Grounds(n)' = u.rateLimited + Cardinality(S)
      /\ t.rateLimited \in Nat /\ u.rateLimited \in Nat
      /\ t.invalid \in [Peers -> Nat] /\ u.invalid \in [Peers -> Nat]
      /\ Threshold \in Nat
  BY <1>2, <1>3, <1>4, TrustAssumption DEF Grounds, Tracker
<1>. HIDE DEF R, S
<1>10. \/ Threshold <= Grounds(n)'
       \/ \A q \in Peers : u.invalid[q] <= Grounds(n)'
  <2>1. CASE Threshold <= Grounds(n)
    BY <1>4, <1>8, <1>9, <2>1
  <2>2. ASSUME \A q \in Peers : t.invalid[q] <= Grounds(n)
        PROVE  \/ Threshold <= Grounds(n)'
               \/ \A q \in Peers : u.invalid[q] <= Grounds(n)'
    <3>1. CASE u.invalid = t.invalid /\ u.rateLimited = t.rateLimited
      BY <1>8, <1>9, <2>2, <3>1
    <3>2. CASE /\ u.invalid = [t.invalid EXCEPT ![p] = @ + 1]
               /\ Grounds(n)' >= Grounds(n) + 1
      <4>1. ASSUME NEW q \in Peers PROVE u.invalid[q] <= t.invalid[q] + 1
        BY <1>9, <3>2
      <4>. QED BY <1>8, <1>9, <2>2, <3>2, <4>1
    <3>3. CASE t.quarantine # {} /\ u.rateLimited = t.rateLimited
      <4>1. PICK q \in Peers : t.invalid[q] >= Threshold
        BY <1>2, <3>3 DEF Exact
      <4>. QED BY <1>8, <1>9, <2>2, <3>3, <4>1
    <3>4. CASE /\ Mismatch(k, p)
               /\ u.invalid = [t.invalid EXCEPT ![p] = @ + 1]
               /\ u.rateLimited = t.rateLimited
      BY <1>8, <1>9, <3>2, <3>4
    <3>5. CASE /\ u.invalid = [t.invalid EXCEPT ![p] = @ + 1]
               /\ u.rateLimited = t.rateLimited + 1
      BY <1>8, <1>9, <3>2, <3>5
    <3>. QED BY <1>4, <3>1, <3>3, <3>4, <3>5
  <2>. QED BY <1>2, <2>1, <2>2 DEF Grounded, t
<1>11. NodeInv(n)'
  <2>1. Grounded(n)'
    BY <1>3, <1>10 DEF Grounded
  <2>. QED BY <1>3, <1>4, <1>6, <2>1 DEF NodeInv
<1>. QED BY <1>3, <1>5, <1>11

\* A validator that accepts sends no copy to the author or back.
LEMMA ValidateWires ==
    ASSUME GossipInv, NEW n \in Peers, NEW p, NEW k, NEW gone,
           HonestPacket(k), Validate(n, k, p, gone)
    PROVE  WireInv'
<1>1. wire' \subseteq wire \cup Copies(n, k, p)
  BY DEF Validate
<1>2. ASSUME NEW m \in Copies(n, k, p)
      PROVE  /\ m.to \in Peers /\ m.from \in Neighbours(m.to)
             /\ HonestPacket(m.packet) /\ m.packet.author # m.to
  <2>1. PICK q \in Neighbours(n) \ {p, k.author} :
               m = [packet |-> k, from |-> n, to |-> q]
    BY DEF Copies
  <2>2. m.packet = k /\ m.from = n /\ m.to = q
    BY <2>1
  <2>3. {n, q} = {q, n}
    OBVIOUS
  <2>4. q \in Peers /\ n \in Neighbours(q)
    BY <2>1, <2>3 DEF Neighbours
  <2>. QED BY <2>1, <2>2, <2>4
<1>3. Neighbours(n)' = Neighbours(n)
  BY DEF Neighbours
<1>. QED BY <1>1, <1>2 DEF GossipInv, WireInv, HonestPacket, Neighbours

\* Every step keeps the invariant.
LEMMA NextGossip == GossipInv /\ [GossipNext]_gossipVars => GossipInv'
<1>. SUFFICES ASSUME GossipInv, [GossipNext]_gossipVars PROVE GossipInv'
  OBVIOUS
<1>1. ASSUME UNCHANGED <<trusts, seen>>, wire' \subseteq wire, time' \in Nat
      PROVE  GossipInv'
  <2>1. ASSUME NEW n \in Peers PROVE NodeInv(n)'
    <3>1. NodeInv(n) /\ Relayable(n)' = Relayable(n)
      BY <1>1 DEF GossipInv, Relayable
    <3>. QED BY <1>1, <3>1 DEF NodeInv, Grounded, Grounds
  <2>2. WireInv'
    BY <1>1 DEF GossipInv, WireInv
  <2>. QED BY <1>1, <2>1, <2>2 DEF GossipInv
<1>2. CASE TimePasses
  BY <1>1, <1>2 DEF TimePasses, GossipInv
<1>3. ASSUME NEW n \in Peers, NEW kind \in Published, Publish(n, kind)
      PROVE  GossipInv'
  <2>. DEFINE k == [kind |-> kind, author |-> n, id |-> published']
  <2>1. Validate(n, k, n, {}) /\ time' = time
    BY <1>3 DEF Publish
  <2>2. HonestPacket(k) /\ k.author = n
    BY DEF HonestPacket
  <2>. HIDE DEF k
  <2>3. /\ DOMAIN trusts' = Peers /\ DOMAIN seen' = Peers
        /\ \A q \in Peers : NodeInv(q)'
    BY <2>1, <2>2, ValidateGrounded
  <2>4. WireInv'
    BY <2>1, <2>2, ValidateWires
  <2>. QED BY <2>1, <2>3, <2>4 DEF GossipInv
<1>4. ASSUME NEW m \in wire, ReceiveCopy(m) PROVE GossipInv'
  <2>1. /\ m.to \in Peers /\ m.from \in Neighbours(m.to) /\ m.from \in Peers
        /\ HonestPacket(m.packet) /\ m.packet.author # m.to
    BY DEF GossipInv, WireInv, Neighbours
  <2>2. CASE m.packet \in seen[m.to]
    BY <1>1, <1>4, <2>2 DEF ReceiveCopy, GossipInv
  <2>3. CASE m.packet \notin seen[m.to]
    <3>1. Validate(m.to, m.packet, m.from, {m}) /\ time' = time
      BY <1>4, <2>3 DEF ReceiveCopy
    <3>2. /\ DOMAIN trusts' = Peers /\ DOMAIN seen' = Peers
          /\ \A q \in Peers : NodeInv(q)'
      BY <2>1, <2>3, <3>1, ValidateGrounded
    <3>3. WireInv'
      BY <2>1, <3>1, ValidateWires
    <3>. QED BY <3>1, <3>2, <3>3 DEF GossipInv
  <2>. QED BY <2>2, <2>3
<1>5. CASE UNCHANGED gossipVars
  BY <1>1, <1>5 DEF gossipVars, GossipInv
<1>. QED BY <1>2, <1>3, <1>4, <1>5 DEF GossipNext

\* A new room knows nothing of anybody.
LEMMA InitGossip == GossipInit => GossipInv
<1>. SUFFICES ASSUME GossipInit PROVE GossipInv
  OBVIOUS
<1>1. /\ trusts = [n \in Peers |-> NewTrust] /\ wire = {} /\ time = 0
      /\ seen = [n \in Peers |-> {}]
  BY DEF GossipInit
<1>2. /\ NewTrust \in Tracker /\ Exact(NewTrust)
      /\ NewTrust.rateLimited = 0 /\ NewTrust.invalid = [p \in Peers |-> 0]
  BY TrustAssumption DEF NewTrust, Tracker, Exact, Bucket, NoTime
<1>. HIDE DEF NewTrust
<1>3. ASSUME NEW n \in Peers PROVE NodeInv(n)
  <2>1. trusts[n] = NewTrust /\ seen[n] = {}
    BY <1>1
  <2>2. Relayable(n) = {}
    BY <2>1 DEF Relayable
  <2>3. IsFiniteSet({}) /\ Cardinality({}) = 0
    BY FS_EmptySet
  <2>4. Grounded(n)
    BY <1>2, <2>1, <2>2, <2>3 DEF Grounded, Grounds
  <2>. QED BY <1>2, <2>1, <2>3, <2>4 DEF NodeInv
<1>. QED BY <1>1, <1>3 DEF GossipInv, WireInv

LEMMA GossipInvariance == GossipSpec => []GossipInv
BY InitGossip, NextGossip, PTL DEF GossipSpec

\* validate.go:48-51, trust.go:49-64: among honest nodes, whatever their
\* connections, a quarantine takes as many packets over the rate and relayed
\* controls as its threshold, at the node that imposes it.
THEOREM QuarantineHasGrounds ==
    GossipSpec => [](\A n \in Peers :
                        trusts[n].quarantine # {} => Threshold <= Grounds(n))
<1>1. ASSUME GossipInv, NEW n \in Peers, trusts[n].quarantine # {}
      PROVE  Threshold <= Grounds(n)
  <2>1. /\ Exact(trusts[n]) /\ Grounded(n) /\ trusts[n] \in Tracker
        /\ IsFiniteSet(seen[n])
    BY <1>1 DEF GossipInv, NodeInv
  <2>2. PICK p \in Peers : trusts[n].invalid[p] >= Threshold
    BY <1>1, <2>1 DEF Exact
  <2>3. trusts[n].invalid[p] \in Nat /\ Grounds(n) \in Nat /\ Threshold \in Nat
    <3>1. Relayable(n) \subseteq seen[n]
      BY DEF Relayable
    <3>2. Cardinality(Relayable(n)) \in Nat
      BY <2>1, <3>1, FS_Subset, FS_CardinalityType
    <3>. QED BY <2>1, <3>2, TrustAssumption DEF Tracker, Grounds
  <2>. QED BY <2>1, <2>2, <2>3 DEF Grounded
<1>2. GossipInv => \A n \in Peers :
                      trusts[n].quarantine # {} => Threshold <= Grounds(n)
  BY <1>1
<1>. QED BY <1>2, GossipInvariance, PTL

\* Nobody was over the rate as often as the threshold.
WithinRate == \A n \in Peers : trusts[n].rateLimited < Threshold

\* validate.go:88-100: chat may be relayed.  While nobody floods, a room whose
\* nodes only chat puts nobody in quarantine, whatever its connections.
THEOREM ChatIsFree ==
    ASSUME Published \subseteq {"chat"}
    PROVE  GossipSpec => [](WithinRate => HonestNotQuarantined)
<1>1. GossipInv /\ (\A n \in Peers :
                       trusts[n].quarantine # {} => Threshold <= Grounds(n))
      => (WithinRate => HonestNotQuarantined)
  <2>. SUFFICES ASSUME GossipInv, WithinRate, NEW n \in Peers,
                       Threshold <= Grounds(n)
                PROVE  FALSE
    BY DEF HonestNotQuarantined
  <2>1. Relayable(n) = {}
    BY DEF GossipInv, NodeInv, HonestPacket, Relayable
  <2>2. Grounds(n) = trusts[n].rateLimited /\ Grounds(n) \in Nat
    BY <2>1, FS_EmptySet DEF Grounds, GossipInv, NodeInv, Tracker
  <2>. QED BY <2>2, TrustAssumption DEF WithinRate
<1>. QED BY <1>1, GossipInvariance, QuarantineHasGrounds, PTL

\* validate.go:48-51: in a room of two nobody relays, and the check of the
\* forwarder never refuses a control.
THEOREM TwoAreSafe ==
    ASSUME NEW a, NEW b, Peers \subseteq {a, b}
    PROVE  GossipSpec => [](WithinRate => HonestNotQuarantined)
<1>1. GossipInv /\ (\A n \in Peers :
                       trusts[n].quarantine # {} => Threshold <= Grounds(n))
      => (WithinRate => HonestNotQuarantined)
  <2>. SUFFICES ASSUME GossipInv, WithinRate, NEW n \in Peers,
                       Threshold <= Grounds(n)
                PROVE  FALSE
    BY DEF HonestNotQuarantined
  <2>1. Relayable(n) = {}
    <3>. SUFFICES ASSUME NEW k \in Relayable(n) PROVE FALSE
      OBVIOUS
    <3>1. k.author # n /\ k.author \in Peers /\ Neighbours(n) \ {k.author} # {}
      BY DEF Relayable, GossipInv, NodeInv, HonestPacket
    <3>2. PICK q \in Neighbours(n) : q # k.author
      BY <3>1
    <3>3. q \in Peers /\ q # n
      BY DEF Neighbours
    <3>4. n \in {a, b} /\ q \in {a, b} /\ k.author \in {a, b}
      BY <3>1, <3>3
    <3>. QED BY <3>1, <3>2, <3>3, <3>4
  <2>2. Grounds(n) = trusts[n].rateLimited /\ Grounds(n) \in Nat
    BY <2>1, FS_EmptySet DEF Grounds, GossipInv, NodeInv, Tracker
  <2>. QED BY <2>2, TrustAssumption DEF WithinRate
<1>. QED BY <1>1, GossipInvariance, QuarantineHasGrounds, PTL
=============================================================================
