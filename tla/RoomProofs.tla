------------------------------ MODULE RoomProofs ------------------------------
(***************************************************************************)
(* The safety properties of Room for every set of peers, every capacity,   *)
(* every ledger maximum and every number of messages.                      *)
(***************************************************************************)
EXTENDS Room, LedgerOpsProofs, FiniteSetTheorems

-----------------------------------------------------------------------------
(* The inductive invariant.                                                *)

\* The count its sender's clock had when it signed m.
Own(m) == m.vc[m.sender]

\* No clock anywhere counts a peer beyond its own clock.
Horizon == [q \in Peers |-> vc[q][q]]

\* The clock c has what the senders of the messages of S it counts had.
Closed(S, c) == \A m \in S : Own(m) <= c[m.sender] => Leq(m.vc, c)

\* The messages of S extend, per sender, one chain of predecessors.
Chained(S) ==
    \A x \in S :
       /\ Own(x) > 0
       /\ x.id = Nth(x.sender, Own(x))
       /\ x.prevHash = Nth(x.sender, Own(x) - 1)

\* The ledger l holds, and was built from, messages of S and saw no fork.
BuiltFrom(l, S) ==
    /\ l \in LedgerRecord
    /\ l.messages \in Seq(S)
    /\ \A e \in l.prevHashBySender :
          \E x \in S : e = <<x.sender, x.prevHash, x.id>>
    /\ l.equivocation = 0

\* What holds of a sending goroutine: it is idle or has a signed message that
\* its peer's clock counts.
SendingOK(s, S, c) ==
    \/ s = Idle
    \/ /\ s.pc \in {"signed", "published"}
       /\ s = [pc |-> s.pc, msg |-> s.msg]
       /\ s.msg \in S
       /\ Leq(s.msg.vc, c)

\* What a packet may carry.
Contents ==
    {Chat(m) : m \in sent}
       \cup {Request(known) : known \in SUBSET Nat}
       \cup {Response(msgs) : msgs \in Seq(sent)}

RepairRecord ==
    [pc : {"idle", "add", "merge"}, msgs : Seq(sent), done : Nat,
     repaired : Nat]

Scalars ==
    /\ joined \in [Peers -> BOOLEAN]
    /\ sync \in [Peers -> {"sleeping", "publishing", "waiting", "expired",
                           "done"}]

Clocks ==
    /\ sent \subseteq Message
    /\ vc \in [Peers -> VectorClocks]
    /\ \A n \in Peers : Leq(vc[n], Horizon) /\ Closed(sent, vc[n])
    /\ \A x \in sent : Leq(x.vc, Horizon) /\ Closed(sent, x.vc)

Chains ==
    /\ Chained(sent)
    /\ prevHash = [n \in Peers |-> Nth(n, vc[n][n])]

Ledgers ==
    /\ ledger \in [Peers -> LedgerRecord]
    /\ \A n \in Peers : BuiltFrom(ledger[n], sent)

Screens ==
    /\ shown \in [Peers -> SUBSET sent]
    /\ ScreenIsKnown

Sendings ==
    /\ sending = [n \in Peers |-> [t \in Threads(n) |-> sending[n][t]]]
    /\ \A n \in Peers : \A t \in Threads(n) :
          SendingOK(sending[n][t], sent, vc[n])

Nets ==
    \A p \in net : /\ {p.from, p.to} \subseteq Peers /\ p.from # p.to
                   /\ p.content \in Contents

Channels ==
    /\ messages \in [Peers -> Seq(sent)]
    /\ controls \in [Peers -> Seq(Contents)]
    /\ \A n \in Peers : /\ Len(messages[n]) <= ChanCap
                        /\ Len(controls[n]) <= ChanCap

Mergings == merging \in [Peers -> sent \cup {None}]

Repairs ==
    /\ repair \in [Peers -> RepairRecord]
    /\ \A n \in Peers :
          /\ repair[n].done <= Len(repair[n].msgs)
          /\ repair[n].repaired <= repair[n].done
          /\ repair[n].pc = "merge" => repair[n].repaired < repair[n].done

IInv ==
    /\ Scalars /\ Clocks /\ Chains /\ Ledgers /\ Screens
    /\ Sendings /\ Nets /\ Channels /\ Mergings /\ Repairs

-----------------------------------------------------------------------------
(* Clocks.                                                                 *)

\* The pointwise order is transitive and reflexive.
LEMMA LeqOrder ==
    ASSUME NEW a \in VectorClocks, NEW b \in VectorClocks, NEW c \in VectorClocks
    PROVE  /\ Leq(a, a)
           /\ Leq(a, b) /\ Leq(b, c) => Leq(a, c)
<1>1. \A p \in Peers : a[p] \in Nat /\ b[p] \in Nat /\ c[p] \in Nat
  BY DEF VectorClocks
<1>. QED BY <1>1 DEF Leq

\* vector.go:26-30: counting one's own next message moves the clock forward.
LEMMA IncrementForward ==
    ASSUME NEW c \in VectorClocks, NEW n \in Peers
    PROVE  /\ Increment(c, n) \in VectorClocks
           /\ Leq(c, Increment(c, n))
           /\ Increment(c, n)[n] = c[n] + 1
           /\ \A q \in Peers \ {n} : Increment(c, n)[q] = c[q]
BY DEF Increment, Leq, VectorClocks

\* The name of a peer's c-th message is a number, and no other count's.
LEMMA NthDiffers ==
    ASSUME NEW n \in Peers, NEW c \in Nat, NEW d \in Nat
    PROVE  /\ Nth(n, c) \in Nat
           /\ Nth(n, c) = NoHash <=> c = 0
           /\ Nth(n, c) = Nth(n, d) => c = d
<1>. DEFINE b == n * (MaxSends + 1)
<1>1. b \in Nat
  <2>1. n \in Nat /\ MaxSends + 1 \in Nat
    BY PeersAssumption, RoomAssumption
  <2>. QED BY <2>1
<1>2. Nth(n, c) = (IF c = 0 THEN 0 ELSE b + c)
      /\ Nth(n, d) = (IF d = 0 THEN 0 ELSE b + d)
  BY DEF Nth, NoHash
<1>. HIDE DEF b
<1>. QED BY <1>1, <1>2 DEF NoHash

\* What holds of any two closed clocks holds of their merge.
LEMMA MergeClosed ==
    ASSUME NEW a \in VectorClocks, NEW b \in VectorClocks,
           NEW S \in SUBSET Message, Closed(S, a), Closed(S, b)
    PROVE  Closed(S, Merge(a, b))
<1>. DEFINE c == Merge(a, b)
<1>1. c \in VectorClocks /\ Leq(a, c) /\ Leq(b, c)
  BY MergeIsJoin
<1>2. \A q \in Peers : c[q] = a[q] \/ c[q] = b[q]
  BY DEF Merge
<1>. HIDE DEF c
<1>. SUFFICES ASSUME NEW m \in S, Own(m) <= c[m.sender] PROVE Leq(m.vc, c)
  BY DEF Closed, c
<1>3. m.sender \in Peers /\ m.vc \in VectorClocks
  BY DEF Message
<1>4. Leq(m.vc, a) \/ Leq(m.vc, b)
  BY <1>2, <1>3 DEF Closed
<1>. QED BY <1>1, <1>3, <1>4, LeqOrder

\* main.go:382-386: merging the clock of a signed message keeps the clocks'
\* invariant, for no message counts a peer beyond that peer's own clock.
LEMMA MergeClocks ==
    ASSUME Clocks, Chains, NEW n \in Peers, NEW x \in sent,
           vc' = [vc EXCEPT ![n] = Merge(vc[n], x.vc)],
           UNCHANGED <<prevHash, sent>>
    PROVE  /\ Clocks' /\ Chains'
           /\ \A p \in Peers : Leq(vc[p], vc'[p])
           /\ Leq(x.vc, vc'[n])
<1>1. /\ x.vc \in VectorClocks /\ sent \subseteq Message
      /\ \A p \in Peers : vc[p] \in VectorClocks
  BY DEF Clocks, Message
<1>. DEFINE c == Merge(vc[n], x.vc)
<1>2. /\ c \in VectorClocks /\ Leq(vc[n], c) /\ Leq(x.vc, c)
      /\ Closed(sent, c)
  BY <1>1, MergeIsJoin, MergeClosed DEF Clocks
<1>3. Horizon \in VectorClocks
  BY <1>1 DEF Horizon, VectorClocks
<1>4. Leq(c, Horizon)
  BY <1>1, <1>3, MergeIsJoin DEF Clocks
<1>5. c[n] = vc[n][n]
  <2>1. c[n] <= vc[n][n] /\ vc[n][n] <= c[n]
    BY <1>2, <1>4 DEF Leq, Horizon
  <2>2. c[n] \in Nat /\ vc[n][n] \in Nat
    BY <1>1, <1>2 DEF VectorClocks
  <2>. QED BY <2>1, <2>2
<1>. HIDE DEF c
<1>6. /\ vc' \in [Peers -> VectorClocks]
      /\ vc'[n] = c
      /\ \A p \in Peers : p # n => vc'[p] = vc[p]
  BY <1>2 DEF Clocks, c
<1>7. \A q \in Peers : vc'[q][q] = vc[q][q]
  BY <1>5, <1>6
<1>8. Horizon' = Horizon
  BY <1>7 DEF Horizon
<1>9. Clocks'
  <2>1. \A p \in Peers : Leq(vc'[p], Horizon) /\ Closed(sent, vc'[p])
    BY <1>2, <1>4, <1>6 DEF Clocks
  <2>2. \A y \in sent : Leq(y.vc, Horizon) /\ Closed(sent, y.vc)
    BY DEF Clocks
  <2>. QED BY <1>1, <1>6, <1>8, <2>1, <2>2 DEF Clocks
<1>10. Chains'
  BY <1>7 DEF Chains, Chained
<1>11. \A p \in Peers : Leq(vc[p], vc'[p])
  BY <1>1, <1>2, <1>6, LeqOrder
<1>. QED BY <1>2, <1>6, <1>9, <1>10, <1>11

\* main.go:199-208: signing under the lock extends the sender's chain by one
\* message that nobody's clock has counted yet.
LEMMA SignClocks ==
    ASSUME Clocks, Chains, NEW n \in Peers, NEW m,
           m = NewMessage(n, Increment(vc[n], n), prevHash[n]),
           vc' = [vc EXCEPT ![n] = m.vc],
           prevHash' = [prevHash EXCEPT ![n] = Hash(m)],
           sent' = sent \cup {m}
    PROVE  /\ Clocks' /\ Chains'
           /\ \A p \in Peers : Leq(vc[p], vc'[p])
           /\ Leq(m.vc, vc'[n])
<1>. DEFINE k == vc[n][n]
<1>1. /\ sent \subseteq Message
      /\ \A p \in Peers : vc[p] \in VectorClocks
      /\ vc \in [Peers -> VectorClocks]
  BY DEF Clocks
<1>2. k \in Nat /\ prevHash[n] = Nth(n, k)
  BY <1>1 DEF VectorClocks, Chains
<1>3. /\ m.sender = n /\ m.vc = Increment(vc[n], n)
      /\ m.prevHash = prevHash[n] /\ m.id = n * (MaxSends + 1) + m.vc[n]
      /\ m = [id |-> m.id, sender |-> m.sender, vc |-> m.vc,
              prevHash |-> m.prevHash]
  BY DEF NewMessage
<1>. DEFINE c == m.vc
<1>4. /\ c \in VectorClocks /\ Leq(vc[n], c) /\ c[n] = k + 1
      /\ \A q \in Peers \ {n} : c[q] = vc[n][q]
  BY <1>1, <1>3, IncrementForward
<1>5. m.id = Nth(n, k + 1) /\ Own(m) = k + 1 /\ Own(m) - 1 = k
  <2>1. Own(m) = k + 1
    BY <1>3, <1>4 DEF Own
  <2>2. k + 1 # 0 /\ (k + 1) - 1 = k
    BY <1>2
  <2>3. m.id = Nth(n, k + 1)
    BY <1>3, <1>4, <2>2 DEF Nth
  <2>. QED BY <2>1, <2>2, <2>3
<1>6. m \in Message
  <2>1. m.id \in Nat /\ m.prevHash \in Nat
    BY <1>2, <1>3, <1>5, NthDiffers
  <2>. QED BY <1>3, <1>4, <2>1 DEF Message
<1>7. /\ vc' \in [Peers -> VectorClocks] /\ vc'[n] = c
      /\ \A p \in Peers : p # n => vc'[p] = vc[p]
  BY <1>1, <1>4
<1>. HIDE DEF c, k
<1>8. /\ Horizon \in VectorClocks /\ Horizon' \in VectorClocks
      /\ Horizon[n] = k /\ Leq(Horizon, Horizon')
      /\ \A q \in Peers : Horizon'[q] = IF q = n THEN k + 1 ELSE Horizon[q]
  <2>1. \A q \in Peers : vc'[q][q] = IF q = n THEN k + 1 ELSE vc[q][q]
    BY <1>4, <1>7
  <2>2. /\ Horizon \in VectorClocks /\ Horizon[n] = k
        /\ \A q \in Peers : Horizon[q] = vc[q][q] /\ Horizon'[q] = vc'[q][q]
    BY <1>1 DEF Horizon, VectorClocks, k
  <2>3. Horizon' \in VectorClocks
    BY <1>7 DEF Horizon, VectorClocks
  <2>4. \A q \in Peers : Horizon[q] <= Horizon'[q]
    <3>1. \A q \in Peers : Horizon[q] \in Nat
      BY <2>2 DEF VectorClocks
    <3>. QED BY <1>2, <2>1, <2>2, <3>1
  <2>. QED BY <2>1, <2>2, <2>3, <2>4 DEF Leq
<1>9. Leq(c, Horizon')
  <2>1. Leq(vc[n], Horizon)
    BY DEF Clocks
  <2>2. \A q \in Peers : c[q] <= Horizon'[q]
    BY <1>2, <1>4, <1>8, <2>1 DEF Leq
  <2>. QED BY <2>2 DEF Leq
<1>10. ASSUME NEW d \in VectorClocks, Leq(d, Horizon), Closed(sent, d)
       PROVE  Leq(d, Horizon') /\ Closed(sent', d)
  <2>1. Leq(d, Horizon')
    BY <1>8, <1>10, LeqOrder
  <2>2. ~ (Own(m) <= d[n])
    <3>1. d[n] <= k /\ d[n] \in Nat
      BY <1>8, <1>10 DEF Leq, VectorClocks
    <3>. QED BY <1>2, <1>5, <3>1
  <2>3. \A x \in sent' : Own(x) <= d[x.sender] => Leq(x.vc, d)
    BY <1>3, <1>10, <2>2 DEF Closed
  <2>. QED BY <2>1, <2>3 DEF Closed
<1>11. Closed(sent', c)
  <2>1. ASSUME NEW x \in sent, Own(x) <= c[x.sender] PROVE Leq(x.vc, c)
    <3>1. x.sender \in Peers /\ x.vc \in VectorClocks
      BY <1>1 DEF Message
    <3>2. Own(x) <= vc[n][x.sender]
      <4>1. CASE x.sender = n
        <5>1. Leq(x.vc, Horizon)
          BY DEF Clocks
        <5>. QED BY <1>8, <3>1, <4>1, <5>1 DEF Leq, Own, k
      <4>2. CASE x.sender # n
        BY <1>4, <2>1, <3>1, <4>2
      <4>. QED BY <4>1, <4>2
    <3>3. Leq(x.vc, vc[n])
      BY <3>2 DEF Clocks, Closed
    <3>. QED BY <1>1, <1>4, <3>1, <3>3, LeqOrder
  <2>2. Leq(m.vc, c)
    BY <1>4, LeqOrder DEF c
  <2>3. \A x \in sent' : Own(x) <= c[x.sender] => Leq(x.vc, c)
    BY <2>1, <2>2
  <2>. QED BY <2>3 DEF Closed, c
<1>12. Clocks'
  <2>1. sent' \subseteq Message
    BY <1>1, <1>6
  <2>2. \A p \in Peers : Leq(vc'[p], Horizon') /\ Closed(sent', vc'[p])
    <3>1. ASSUME NEW p \in Peers, p # n
          PROVE  Leq(vc[p], Horizon') /\ Closed(sent', vc[p]) /\ vc'[p] = vc[p]
      <4>1. vc[p] \in VectorClocks /\ Leq(vc[p], Horizon) /\ Closed(sent, vc[p])
        BY <1>1 DEF Clocks
      <4>. QED BY <1>7, <1>10, <3>1, <4>1
    <3>. QED BY <1>7, <1>9, <1>11, <3>1
  <2>3. \A x \in sent' : Leq(x.vc, Horizon') /\ Closed(sent', x.vc)
    <3>1. ASSUME NEW x \in sent PROVE Leq(x.vc, Horizon') /\ Closed(sent', x.vc)
      <4>1. x.vc \in VectorClocks /\ Leq(x.vc, Horizon) /\ Closed(sent, x.vc)
        BY <1>1 DEF Clocks, Message
      <4>. QED BY <1>10, <4>1
    <3>. QED BY <1>9, <1>11, <3>1 DEF c
  <2>. QED BY <1>7, <2>1, <2>2, <2>3 DEF Clocks
<1>13. Chains'
  <2>1. /\ Own(m) > 0 /\ m.id = Nth(m.sender, Own(m))
        /\ m.prevHash = Nth(m.sender, Own(m) - 1)
    BY <1>2, <1>3, <1>5
  <2>2. Chained(sent')
    BY <2>1 DEF Chains, Chained
  <2>3. prevHash' = [p \in Peers |-> Nth(p, vc'[p][p])]
    <3>1. prevHash'[n] = Nth(n, vc'[n][n])
      BY <1>4, <1>5, <1>7 DEF Chains, Hash
    <3>2. \A p \in Peers : p # n => prevHash'[p] = Nth(p, vc'[p][p])
      BY <1>7 DEF Chains
    <3>3. prevHash' = [p \in Peers |-> prevHash'[p]]
      BY DEF Chains
    <3>. QED BY <3>1, <3>2, <3>3
  <2>. QED BY <2>2, <2>3 DEF Chains
<1>14. \A p \in Peers : Leq(vc[p], vc'[p])
  BY <1>1, <1>4, <1>7, LeqOrder
<1>15. Leq(m.vc, vc'[n])
  BY <1>4, <1>7, LeqOrder DEF c
<1>. QED BY <1>12, <1>13, <1>14, <1>15

-----------------------------------------------------------------------------
(* Ledgers.                                                                *)

\* ledger.go:81-87: two messages of one chain never look like a fork.
LEMMA ChainNeverForks ==
    ASSUME NEW S \in SUBSET Message, Chained(S), NEW l, BuiltFrom(l, S),
           NEW m \in S
    PROVE  ~ Fork(l, m)
<1>. SUFFICES ASSUME Fork(l, m) PROVE FALSE
  OBVIOUS
<1>1. PICK e \in l.prevHashBySender :
         e[1] = m.sender /\ e[2] = m.prevHash /\ e[3] # m.id
  BY DEF Fork
<1>2. PICK x \in S : e = <<x.sender, x.prevHash, x.id>>
  BY DEF BuiltFrom
<1>3. x.sender = m.sender /\ x.prevHash = m.prevHash /\ x.id # m.id
  BY <1>1, <1>2
<1>4. /\ Own(x) \in Nat /\ Own(m) \in Nat /\ Own(x) > 0 /\ Own(m) > 0
      /\ m.sender \in Peers
  BY DEF Own, Chained, Message, VectorClocks
<1>5. Own(x) - 1 \in Nat /\ Own(m) - 1 \in Nat
  BY <1>4
<1>6. Nth(m.sender, Own(x) - 1) = Nth(m.sender, Own(m) - 1)
  BY <1>3 DEF Chained
<1>7. Own(x) - 1 = Own(m) - 1
  BY <1>4, <1>5, <1>6, NthDiffers
<1>8. Own(x) = Own(m)
  BY <1>4, <1>7
<1>. QED BY <1>3, <1>8 DEF Chained

\* ledger.go:57-108: adding a message of the chains builds on.
LEMMA AddBuilds ==
    ASSUME NEW S \in SUBSET Message, Chained(S), NEW l, BuiltFrom(l, S),
           NEW m \in S
    PROVE  BuiltFrom(AddWithReason(l, m), S)
<1>. DEFINE k == AddWithReason(l, m)
<1>1. l \in LedgerRecord /\ m \in Message /\ m.vc[m.sender] > 0 /\ ~ Fork(l, m)
  BY ChainNeverForks DEF BuiltFrom, Chained, Own
<1>2. CASE AddReason(l, m) # NoReason
  <2>1. AddReason(l, m) # "equivocation_fork"
    BY <1>1 DEF AddReason, NoReason
  <2>2. /\ k \in LedgerRecord /\ k.messages = l.messages
        /\ k.prevHashBySender = l.prevHashBySender
        /\ k.equivocation = l.equivocation
    BY <1>1, <1>2, <2>1, Refused
  <2>. HIDE DEF k
  <2>3. BuiltFrom(k, S)
    BY <2>2 DEF BuiltFrom
  <2>. QED BY <2>3 DEF k
<1>3. CASE AddReason(l, m) = NoReason
  <2>1. /\ k \in LedgerRecord
        /\ k.messages = Trim(Sorted(l.messages, m))
        /\ k.prevHashBySender = IF m.prevHash = NoHash THEN l.prevHashBySender
                                ELSE l.prevHashBySender
                                        \cup {<<m.sender, m.prevHash, m.id>>}
        /\ k.equivocation = l.equivocation
    BY <1>1, <1>3, AcceptedFields
  <2>2. k.messages \in Seq(S)
    <3>1. Sorted(l.messages, m) \in Seq(S)
      BY SortedElements DEF BuiltFrom
    <3>. QED BY <2>1, <3>1, TrimElements
  <2>. HIDE DEF k
  <2>3. \A e \in k.prevHashBySender :
           \E x \in S : e = <<x.sender, x.prevHash, x.id>>
    BY <2>1 DEF BuiltFrom
  <2>4. BuiltFrom(k, S)
    BY <2>1, <2>2, <2>3 DEF BuiltFrom
  <2>. QED BY <2>4 DEF k
<1>. QED BY <1>2, <1>3

\* ledger.go:162-170: counting a rejection changes no part BuiltFrom reads.
LEMMA MarkBuilds ==
    ASSUME NEW S, NEW l, BuiltFrom(l, S), NEW r \in Reasons
    PROVE  BuiltFrom(MarkRejectedReason(l, r), S)
<1>. DEFINE n == l.rejected + 1
            k == [l EXCEPT !.rejected = n, !.lastReject = r]
<1>1. l \in LedgerRecord /\ n \in Nat
  BY DEF BuiltFrom, LedgerRecord
<1>2. MarkRejectedReason(l, r) = k
  BY DEF MarkRejectedReason
<1>. HIDE DEF n
<1>3. k \in LedgerRecord
  BY <1>1 DEF LedgerRecord, VectorClocks
<1>4. /\ k.messages = l.messages /\ k.equivocation = l.equivocation
      /\ k.prevHashBySender = l.prevHashBySender
  BY <1>1 DEF LedgerRecord
<1>. HIDE DEF k
<1>5. BuiltFrom(k, S)
  BY <1>3, <1>4 DEF BuiltFrom
<1>. QED BY <1>2, <1>5

\* ledger.go:172-180: nor does counting repaired messages.
LEMMA RepairedBuilds ==
    ASSUME NEW S, NEW l, BuiltFrom(l, S), NEW n \in Nat
    PROVE  BuiltFrom(AddRepaired(l, n), S)
<1>. DEFINE c == l.repaired + n
            k == [l EXCEPT !.repaired = c]
<1>1. l \in LedgerRecord /\ c \in Nat
  BY DEF BuiltFrom, LedgerRecord
<1>2. AddRepaired(l, n) = l \/ AddRepaired(l, n) = k
  BY DEF AddRepaired
<1>. HIDE DEF c
<1>3. k \in LedgerRecord
  BY <1>1 DEF LedgerRecord, VectorClocks
<1>4. /\ k.messages = l.messages /\ k.equivocation = l.equivocation
      /\ k.prevHashBySender = l.prevHashBySender
  BY <1>1 DEF LedgerRecord
<1>. HIDE DEF k
<1>5. BuiltFrom(k, S)
  BY <1>3, <1>4 DEF BuiltFrom
<1>. QED BY <1>2, <1>5

\* ledger.go:182-186: nor does the sync status.
LEMMA StatusBuilds ==
    ASSUME NEW S, NEW l, BuiltFrom(l, S), NEW status \in Statuses
    PROVE  BuiltFrom(SetSyncStatus(l, status), S)
<1>. DEFINE k == [l EXCEPT !.syncStatus = status]
<1>1. l \in LedgerRecord
  BY DEF BuiltFrom
<1>2. SetSyncStatus(l, status) = k
  BY DEF SetSyncStatus
<1>3. k \in LedgerRecord
  BY <1>1 DEF LedgerRecord, VectorClocks
<1>4. /\ k.messages = l.messages /\ k.equivocation = l.equivocation
      /\ k.prevHashBySender = l.prevHashBySender
  BY <1>1 DEF LedgerRecord
<1>. HIDE DEF k
<1>5. BuiltFrom(k, S)
  BY <1>3, <1>4 DEF BuiltFrom
<1>. QED BY <1>2, <1>5

\* main.go:350-364: acceptMessage on a message of the chains builds on.
LEMMA AcceptBuilds ==
    ASSUME NEW S \in SUBSET Message, Chained(S), NEW l, BuiltFrom(l, S),
           NEW m \in S
    PROVE  BuiltFrom(Accept(l, m), S)
<1>1. BuiltFrom(AddWithReason(l, m), S)
  BY AddBuilds
<1>2. AddReason(l, m) \notin {NoReason, "duplicate_message"}
         => AddReason(l, m) \in Reasons
  BY DEF AddReason, Reasons, NoReason
<1>. QED BY <1>1, <1>2, MarkBuilds DEF Accept

\* ledger.go:142-155: what a sync response takes was in the ledger.
LEMMA MissingFromElements ==
    ASSUME NEW S, NEW l, l.messages \in Seq(S), NEW known, NEW limit \in Nat
    PROVE  MissingFrom(l, known, limit) \in Seq(S)
<1>. DEFINE s == l.messages
            a == Len(s) - limit + 1
<1>1. Recent(l, limit) \in Seq(S)
  <2>1. CASE limit <= 0 \/ limit > Len(s)
    BY <2>1 DEF Recent
  <2>2. CASE ~ (limit <= 0 \/ limit > Len(s))
    <3>1. Recent(l, limit) = SubSeq(s, a, Len(s))
      BY <2>2 DEF Recent
    <3>2. a \in 1 .. Len(s) + 1 /\ Len(s) \in Nat
      BY <2>2
    <3>3. \A i \in a .. Len(s) : s[i] \in S
      BY <3>2
    <3>. HIDE DEF a, s
    <3>4. SubSeq(s, a, Len(s)) \in Seq(S)
      BY <3>2, <3>3, SubSeqProperties
    <3>. QED BY <3>1, <3>4
  <2>. QED BY <2>1, <2>2
<1>. QED BY <1>1, UnknownTaken DEF MissingFrom

-----------------------------------------------------------------------------
(* What an action does not write stays right while messages are added and  *)
(* clocks only move forward.                                               *)

\* More messages are signed and no clock goes back.
Forward ==
    /\ sent \subseteq sent' /\ sent' \subseteq Message
    /\ \A n \in Peers : Leq(vc[n], vc'[n])
    /\ vc \in [Peers -> VectorClocks] /\ vc' \in [Peers -> VectorClocks]

\* An action that signs nothing and merges nothing moves no clock.
LEMMA StillForward ==
    ASSUME Clocks, Chains, UNCHANGED <<vc, prevHash, sent>>
    PROVE  Forward /\ Clocks' /\ Chains'
<1>1. Forward
  <2>1. \A n \in Peers : vc[n] \in VectorClocks
    BY DEF Clocks
  <2>2. \A n \in Peers : Leq(vc[n], vc[n])
    BY <2>1, LeqOrder
  <2>. QED BY <2>2 DEF Forward, Clocks
<1>2. Clocks' /\ Chains'
  BY DEF Clocks, Chains, Horizon
<1>. QED BY <1>1, <1>2

\* The contents a packet may carry only become more.
LEMMA ContentsGrow ==
    ASSUME Forward
    PROVE  /\ Contents \subseteq Contents'
           /\ Seq(sent) \subseteq Seq(sent')
           /\ Seq(Contents) \subseteq Seq(Contents')
<1>1. Seq(sent) \subseteq Seq(sent')
  BY DEF Forward
<1>2. Contents \subseteq Contents'
  BY <1>1 DEF Forward, Contents
<1>. QED BY <1>1, <1>2

\* Untouched ledgers.
LEMMA LedgersKept ==
    ASSUME Ledgers, Forward, UNCHANGED ledger
    PROVE  Ledgers'
<1>1. Seq(sent) \subseteq Seq(sent') /\ sent \subseteq sent'
  BY ContentsGrow DEF Forward
<1>2. \A n \in Peers : BuiltFrom(ledger[n], sent')
  BY <1>1 DEF Ledgers, BuiltFrom
<1>. QED BY <1>2 DEF Ledgers

\* Untouched screens.
LEMMA ScreensKept ==
    ASSUME Screens, Forward, UNCHANGED shown
    PROVE  Screens'
<1>1. shown' \in [Peers -> SUBSET sent']
  BY DEF Screens, Forward
<1>2. ASSUME NEW n \in Peers, NEW m \in shown[n] PROVE Leq(m.vc, vc'[n])
  <2>1. m \in sent /\ m.vc \in VectorClocks /\ Leq(m.vc, vc[n])
        /\ vc[n] \in VectorClocks /\ vc'[n] \in VectorClocks
        /\ Leq(vc[n], vc'[n])
    BY DEF Screens, ScreenIsKnown, Forward, Message
  <2>. QED BY <2>1, LeqOrder
<1>. QED BY <1>1, <1>2 DEF Screens, ScreenIsKnown

\* It goes on holding while the clock moves forward.
LEMMA SendingForward ==
    ASSUME Forward, NEW n \in Peers, NEW s, SendingOK(s, sent, vc[n])
    PROVE  SendingOK(s, sent', vc'[n])
<1>1. CASE s = Idle
  BY <1>1 DEF SendingOK
<1>2. CASE s # Idle
  <2>1. s.msg \in sent /\ Leq(s.msg.vc, vc[n])
    BY <1>2 DEF SendingOK
  <2>2. s.msg.vc \in VectorClocks /\ vc[n] \in VectorClocks
        /\ vc'[n] \in VectorClocks /\ Leq(vc[n], vc'[n]) /\ s.msg \in sent'
    BY <2>1 DEF Forward, Message
  <2>3. Leq(s.msg.vc, vc'[n])
    BY <2>1, <2>2, LeqOrder
  <2>. QED BY <1>2, <2>2, <2>3 DEF SendingOK
<1>. QED BY <1>1, <1>2

\* Untouched senders.
LEMMA SendingsKept ==
    ASSUME Sendings, Forward, UNCHANGED sending
    PROVE  Sendings'
BY SendingForward DEF Sendings

\* Untouched packets.
LEMMA NetsKept ==
    ASSUME Nets, Forward, UNCHANGED net
    PROVE  Nets'
<1>1. Contents \subseteq Contents'
  BY ContentsGrow
<1>. HIDE DEF Contents
<1>. QED BY <1>1 DEF Nets

\* Untouched channels.
LEMMA ChannelsKept ==
    ASSUME Channels, Forward, UNCHANGED <<messages, controls>>
    PROVE  Channels'
<1>1. Seq(sent) \subseteq Seq(sent') /\ Seq(Contents) \subseteq Seq(Contents')
  BY ContentsGrow
<1>. HIDE DEF Contents
<1>2. messages \in [Peers -> Seq(sent')] /\ controls \in [Peers -> Seq(Contents')]
  BY <1>1 DEF Channels
<1>. QED BY <1>2 DEF Channels

\* Untouched relay of Messages.
LEMMA MergingsKept ==
    ASSUME Mergings, Forward, UNCHANGED merging
    PROVE  Mergings'
BY DEF Mergings, Forward

\* Untouched relay of Controls.
LEMMA RepairsKept ==
    ASSUME Repairs, Forward, UNCHANGED repair
    PROVE  Repairs'
<1>1. Seq(sent) \subseteq Seq(sent')
  BY ContentsGrow
<1>2. RepairRecord \subseteq RepairRecord'
  BY <1>1 DEF RepairRecord
<1>. HIDE DEF RepairRecord
<1>. QED BY <1>2 DEF Repairs

-----------------------------------------------------------------------------
(* What an action writes.                                                  *)

\* One peer's ledger.
LEMMA LedgerWritten ==
    ASSUME Ledgers, UNCHANGED sent, NEW n \in Peers, NEW l,
           BuiltFrom(l, sent), ledger' = [ledger EXCEPT ![n] = l]
    PROVE  Ledgers'
<1>1. l \in LedgerRecord
  BY DEF BuiltFrom
<1>2. /\ ledger' \in [Peers -> LedgerRecord] /\ ledger'[n] = l
      /\ \A q \in Peers : q # n => ledger'[q] = ledger[q]
  BY <1>1 DEF Ledgers
<1>3. \A q \in Peers : BuiltFrom(ledger'[q], sent)
  BY <1>2 DEF Ledgers
<1>. QED BY <1>2, <1>3 DEF Ledgers

\* One peer's screen gets a message that the peer's clock counts.
LEMMA ScreenWritten ==
    ASSUME Screens, Forward, NEW n \in Peers, NEW m \in sent,
           Leq(m.vc, vc'[n]),
           shown' = [shown EXCEPT ![n] = shown[n] \cup {m}]
    PROVE  Screens'
<1>1. /\ shown' \in [Peers -> SUBSET sent'] /\ shown'[n] = shown[n] \cup {m}
      /\ \A q \in Peers : q # n => shown'[q] = shown[q]
  BY DEF Screens, Forward
<1>2. ASSUME NEW q \in Peers, NEW x \in shown[q] PROVE Leq(x.vc, vc'[q])
  <2>1. x \in sent /\ x.vc \in VectorClocks /\ Leq(x.vc, vc[q])
        /\ vc[q] \in VectorClocks /\ vc'[q] \in VectorClocks
        /\ Leq(vc[q], vc'[q])
    BY DEF Screens, ScreenIsKnown, Forward, Message
  <2>. QED BY <2>1, LeqOrder
<1>3. \A q \in Peers : \A x \in shown'[q] : Leq(x.vc, vc'[q])
  BY <1>1, <1>2
<1>. QED BY <1>1, <1>3 DEF Screens, ScreenIsKnown

\* One goroutine's place in signAndPublish.
LEMMA SendingWritten ==
    ASSUME Sendings, Forward, NEW n \in Peers, NEW t \in Threads(n), NEW s,
           SendingOK(s, sent', vc'[n]),
           sending' = [sending EXCEPT ![n][t] = s]
    PROVE  Sendings'
<1>1. ASSUME NEW q \in Peers, NEW u \in Threads(q)
      PROVE  sending'[q][u] = IF q = n /\ u = t THEN s ELSE sending[q][u]
  BY DEF Sendings
<1>2. sending' = [q \in Peers |-> [u \in Threads(q) |-> sending'[q][u]]]
  BY DEF Sendings
<1>3. ASSUME NEW q \in Peers, NEW u \in Threads(q)
      PROVE  SendingOK(sending'[q][u], sent', vc'[q])
  <2>1. SendingOK(sending[q][u], sent, vc[q])
    BY DEF Sendings
  <2>2. SendingOK(sending[q][u], sent', vc'[q])
    BY <2>1, SendingForward
  <2>. QED BY <1>1, <2>2
<1>. QED BY <1>2, <1>3 DEF Sendings

\* Packets to the other subscribers.
LEMMA NetWritten ==
    ASSUME Nets, UNCHANGED sent, NEW n \in Peers, NEW c \in Contents,
           net' = net \cup Packets(n, c)
    PROVE  Nets'
<1>1. Contents' = Contents
  BY DEF Contents
<1>. HIDE DEF Contents
<1>2. \A p \in Packets(n, c) :
         {p.from, p.to} \subseteq Peers /\ p.from # p.to /\ p.content = c
  BY DEF Packets
<1>. QED BY <1>1, <1>2 DEF Nets

\* The head of a channel leaves it.
LEMMA ChannelRead ==
    ASSUME NEW S, NEW s \in Seq(S), s # << >>
    PROVE  Head(s) \in S /\ Tail(s) \in Seq(S) /\ Len(Tail(s)) <= Len(s)
<1>1. Len(s) \in Nat /\ Len(s) # 0
  BY EmptySeq
<1>. QED BY <1>1, HeadTailProperties

\* The relay of Messages takes the next message.
LEMMA MessagesTaken ==
    ASSUME Channels, UNCHANGED <<sent, controls>>, NEW n \in Peers,
           messages[n] # << >>,
           messages' = [messages EXCEPT ![n] = Tail(messages[n])]
    PROVE  Head(messages[n]) \in sent /\ Channels'
<1>1. /\ Head(messages[n]) \in sent
      /\ Tail(messages[n]) \in Seq(sent)
      /\ Len(Tail(messages[n])) <= Len(messages[n])
      /\ Len(Tail(messages[n])) \in Nat /\ Len(messages[n]) \in Nat
  <2>1. messages[n] \in Seq(sent)
    BY DEF Channels
  <2>2. Tail(messages[n]) \in Seq(sent)
    BY <2>1, ChannelRead
  <2>. QED BY <2>1, <2>2, ChannelRead
<1>2. Contents' = Contents
  BY DEF Contents
<1>. HIDE DEF Contents
<1>3. /\ messages' \in [Peers -> Seq(sent)]
      /\ messages'[n] = Tail(messages[n])
      /\ \A q \in Peers : q # n => messages'[q] = messages[q]
  BY <1>1 DEF Channels
<1>4. ChanCap \in Nat
  BY RoomAssumption
<1>5. \A q \in Peers : Len(messages'[q]) <= ChanCap
  BY <1>1, <1>3, <1>4 DEF Channels
<1>. QED BY <1>1, <1>2, <1>3, <1>5 DEF Channels

\* The relay of Controls takes the next one.
LEMMA ControlsTaken ==
    ASSUME Channels, UNCHANGED <<sent, messages>>, NEW n \in Peers,
           controls[n] # << >>,
           controls' = [controls EXCEPT ![n] = Tail(controls[n])]
    PROVE  Head(controls[n]) \in Contents /\ Channels'
<1>1. Contents' = Contents
  BY DEF Contents
<1>. HIDE DEF Contents
<1>2. /\ Head(controls[n]) \in Contents
      /\ Tail(controls[n]) \in Seq(Contents)
      /\ Len(Tail(controls[n])) <= Len(controls[n])
      /\ Len(Tail(controls[n])) \in Nat /\ Len(controls[n]) \in Nat
  <2>1. controls[n] \in Seq(Contents)
    BY DEF Channels
  <2>2. Tail(controls[n]) \in Seq(Contents)
    BY <2>1, ChannelRead
  <2>. QED BY <2>1, <2>2, ChannelRead
<1>3. /\ controls' \in [Peers -> Seq(Contents)]
      /\ controls'[n] = Tail(controls[n])
      /\ \A q \in Peers : q # n => controls'[q] = controls[q]
  BY <1>2 DEF Channels
<1>4. ChanCap \in Nat
  BY RoomAssumption
<1>5. \A q \in Peers : Len(controls'[q]) <= ChanCap
  BY <1>2, <1>3, <1>4 DEF Channels
<1>. QED BY <1>1, <1>2, <1>3, <1>5 DEF Channels

\* A sync response is one of messages that were signed, a chat packet carries
\* one.
LEMMA ContentsMeaning ==
    ASSUME NEW c \in Contents
    PROVE  /\ c.kind = "chat" => c.msg \in sent
           /\ c.kind = "sync_response" => c.msgs \in Seq(sent)
<1>1. CASE c \in {Chat(m) : m \in sent}
  BY <1>1 DEF Chat
<1>2. CASE c \in {Request(known) : known \in SUBSET Nat}
  BY <1>2 DEF Request
<1>3. CASE c \in {Response(msgs) : msgs \in Seq(sent)}
  BY <1>3 DEF Response
<1>. QED BY <1>1, <1>2, <1>3 DEF Contents

\* One peer's repair.
LEMMA RepairWritten ==
    ASSUME Repairs, UNCHANGED sent, NEW n \in Peers, NEW r \in RepairRecord,
           r.done <= Len(r.msgs), r.repaired <= r.done,
           r.pc = "merge" => r.repaired < r.done,
           repair' = [repair EXCEPT ![n] = r]
    PROVE  Repairs'
<1>1. RepairRecord' = RepairRecord
  BY DEF RepairRecord
<1>. HIDE DEF RepairRecord
<1>2. /\ repair' \in [Peers -> RepairRecord] /\ repair'[n] = r
      /\ \A q \in Peers : q # n => repair'[q] = repair[q]
  BY DEF Repairs
<1>. QED BY <1>1, <1>2 DEF Repairs

-----------------------------------------------------------------------------
(* The sending goroutines keep the invariant.                              *)

\* main.go:199-208: the critical section of signAndPublish.
LEMMA SignStep ==
    ASSUME IInv, NEW n \in Peers, NEW t \in Threads(n), Sign(n, t)
    PROVE  IInv'
<1>. DEFINE m == NewMessage(n, Increment(vc[n], n), prevHash[n])
            s == [pc |-> "signed", msg |-> m]
<1>1. /\ vc' = [vc EXCEPT ![n] = m.vc]
      /\ prevHash' = [prevHash EXCEPT ![n] = Hash(m)]
      /\ sending' = [sending EXCEPT ![n][t] = s]
      /\ sent' = sent \cup {m}
      /\ UNCHANGED <<joined, ledger, shown, merging, repair, sync, net,
                     messages, controls>>
  BY DEF Sign, NewMessage, topicVars
<1>. HIDE DEF m
<1>2. /\ Clocks' /\ Chains' /\ Leq(m.vc, vc'[n])
      /\ \A p \in Peers : Leq(vc[p], vc'[p])
  BY <1>1, SignClocks DEF IInv, m
<1>3. Forward
  BY <1>1, <1>2 DEF Forward, IInv, Clocks
<1>4. SendingOK(s, sent', vc'[n])
  BY <1>1, <1>2 DEF SendingOK
<1>. HIDE DEF s
<1>5. Sendings'
  BY <1>1, <1>3, <1>4, SendingWritten DEF IInv
<1>6. Ledgers' /\ Screens' /\ Nets' /\ Channels' /\ Mergings' /\ Repairs'
  BY <1>1, <1>3, LedgersKept, ScreensKept, NetsKept, ChannelsKept,
     MergingsKept, RepairsKept DEF IInv
<1>7. Scalars'
  BY <1>1 DEF Scalars, IInv
<1>. QED BY <1>2, <1>5, <1>6, <1>7 DEF IInv

\* A goroutine past the signing holds a signed message.
LEMMA SigningMessage ==
    ASSUME Sendings, NEW n \in Peers, NEW t \in Threads(n),
           sending[n][t].pc \in {"signed", "published"}
    PROVE  /\ sending[n][t].msg \in sent
           /\ Leq(sending[n][t].msg.vc, vc[n])
<1>1. sending[n][t] # Idle
  BY DEF Idle
<1>. QED BY <1>1 DEF Sendings, SendingOK

\* main.go:210: the publish of what was signed.
LEMMA PublishStep ==
    ASSUME IInv, NEW n \in Peers, NEW t \in Threads(n), Publish(n, t)
    PROVE  IInv'
<1>. DEFINE m == sending[n][t].msg
            s == [pc |-> "published", msg |-> m]
<1>1. sending[n][t].pc = "signed" /\ net' = net \cup Packets(n, Chat(m))
      /\ sending' = [sending EXCEPT ![n][t].pc = "published"]
      /\ UNCHANGED <<joined, vc, prevHash, ledger, shown, merging, repair,
                     sync, messages, controls, sent>>
  BY DEF Publish, nodeVars
<1>2. m \in sent /\ Leq(m.vc, vc[n])
  BY <1>1, SigningMessage DEF IInv
<1>3. sending' = [sending EXCEPT ![n][t] = s]
  <2>1. sending[n][t] # Idle
    BY <1>1 DEF Idle
  <2>2. sending[n][t] = [pc |-> sending[n][t].pc, msg |-> m]
    BY <2>1 DEF IInv, Sendings, SendingOK
  <2>3. [sending[n][t] EXCEPT !.pc = "published"] = s
    BY <2>2
  <2>4. sending' = [sending EXCEPT ![n][t] =
                       [sending[n][t] EXCEPT !.pc = "published"]]
    BY <1>1
  <2>. QED BY <2>3, <2>4
<1>4. SendingOK(s, sent', vc'[n])
  BY <1>1, <1>2 DEF SendingOK
<1>5. Chat(m) \in Contents
  BY <1>2 DEF Contents
<1>. HIDE DEF s, m
<1>6. Forward /\ Clocks' /\ Chains'
  BY <1>1, StillForward DEF IInv
<1>7. Sendings' /\ Nets'
  BY <1>1, <1>3, <1>4, <1>5, <1>6, SendingWritten, NetWritten DEF IInv
<1>8. Ledgers' /\ Screens' /\ Channels' /\ Mergings' /\ Repairs'
  BY <1>1, <1>6, LedgersKept, ScreensKept, ChannelsKept, MergingsKept,
     RepairsKept DEF IInv
<1>9. Scalars'
  BY <1>1 DEF Scalars, IInv
<1>. QED BY <1>6, <1>7, <1>8, <1>9 DEF IInv

\* main.go:210-213: the message that could not be published is forgotten.
LEMMA PublishFailsStep ==
    ASSUME IInv, NEW n \in Peers, NEW t \in Threads(n), PublishFails(n, t)
    PROVE  IInv'
<1>1. sending' = [sending EXCEPT ![n][t] = Idle]
      /\ UNCHANGED <<joined, vc, prevHash, ledger, shown, merging, repair,
                     sync, net, messages, controls, sent>>
  BY DEF PublishFails, nodeVars, topicVars
<1>2. Forward /\ Clocks' /\ Chains'
  BY <1>1, StillForward DEF IInv
<1>3. SendingOK(Idle, sent', vc'[n])
  BY DEF SendingOK
<1>4. Sendings'
  BY <1>1, <1>2, <1>3, SendingWritten DEF IInv
<1>5. Ledgers' /\ Screens' /\ Nets' /\ Channels' /\ Mergings' /\ Repairs'
  BY <1>1, <1>2, LedgersKept, ScreensKept, NetsKept, ChannelsKept,
     MergingsKept, RepairsKept DEF IInv
<1>6. Scalars'
  BY <1>1 DEF Scalars, IInv
<1>. QED BY <1>2, <1>4, <1>5, <1>6 DEF IInv

\* main.go:215-221: the own message goes to the ledger and the screen.
LEMMA AddOwnStep ==
    ASSUME IInv, NEW n \in Peers, NEW t \in Threads(n), AddOwn(n, t)
    PROVE  IInv'
<1>. DEFINE m == sending[n][t].msg
            l == AddWithReason(ledger[n], m)
<1>1. /\ sending[n][t].pc = "published"
      /\ ledger' = [ledger EXCEPT ![n] = l]
      /\ shown' = [shown EXCEPT ![n] = shown[n] \cup {m}]
      /\ sending' = [sending EXCEPT ![n][t] = Idle]
      /\ UNCHANGED <<joined, vc, prevHash, merging, repair, sync, net,
                     messages, controls, sent>>
  BY DEF AddOwn, topicVars
<1>2. m \in sent /\ Leq(m.vc, vc[n])
  BY <1>1, SigningMessage DEF IInv
<1>. HIDE DEF m
<1>3. BuiltFrom(l, sent)
  BY <1>2, AddBuilds DEF IInv, Ledgers, Clocks, Chains
<1>. HIDE DEF l
<1>4. Forward /\ Clocks' /\ Chains'
  BY <1>1, StillForward DEF IInv
<1>5. SendingOK(Idle, sent', vc'[n])
  BY DEF SendingOK
<1>6. Sendings'
  BY <1>1, <1>4, <1>5, SendingWritten DEF IInv
<1>7. Ledgers'
  BY <1>1, <1>3, LedgerWritten DEF IInv
<1>8. Screens'
  BY <1>1, <1>2, <1>4, ScreenWritten DEF IInv
<1>9. Nets' /\ Channels' /\ Mergings' /\ Repairs'
  BY <1>1, <1>4, NetsKept, ChannelsKept, MergingsKept, RepairsKept DEF IInv
<1>10. Scalars'
  BY <1>1 DEF Scalars, IInv
<1>. QED BY <1>4, <1>6, <1>7, <1>8, <1>9, <1>10 DEF IInv

-----------------------------------------------------------------------------
(* The topic and the relays keep the invariant.                            *)

\* A room that is joined changes nothing the invariant is about.
LEMMA JoinStep ==
    ASSUME IInv, NEW n \in Peers, Join(n)
    PROVE  IInv'
<1>1. joined' = [joined EXCEPT ![n] = TRUE]
      /\ UNCHANGED <<vc, prevHash, ledger, shown, sending, merging, repair,
                     sync, net, messages, controls, sent>>
  BY DEF Join, nodeVars, goVars, topicVars
<1>2. Forward /\ Clocks' /\ Chains'
  BY <1>1, StillForward DEF IInv
<1>3. /\ Ledgers' /\ Screens' /\ Sendings' /\ Nets' /\ Channels'
      /\ Mergings' /\ Repairs'
  BY <1>1, <1>2, LedgersKept, ScreensKept, SendingsKept, NetsKept,
     ChannelsKept, MergingsKept, RepairsKept DEF IInv
<1>4. Scalars'
  BY <1>1 DEF Scalars, IInv
<1>. QED BY <1>2, <1>3, <1>4 DEF IInv

\* pubsub.go:227-306: a packet goes to its channel or is dropped.
LEMMA ReceiveStep ==
    ASSUME IInv, NEW p \in net, Receive(p)
    PROVE  IInv'
<1>. DEFINE n == p.to
            c == p.content
<1>1. net' = net \ {p}
      /\ UNCHANGED <<joined, vc, prevHash, ledger, shown, sending, merging,
                     repair, sync, sent>>
  BY DEF Receive, nodeVars, goVars
<1>2. Forward /\ Clocks' /\ Chains'
  BY <1>1, StillForward DEF IInv
<1>3. n \in Peers /\ c \in Contents
  BY DEF IInv, Nets
<1>4. Contents' = Contents
  BY <1>1 DEF Contents
<1>5. c.kind = "chat" => c.msg \in sent
  BY <1>3, ContentsMeaning
<1>. HIDE DEF Contents, n, c
<1>6. Nets'
  BY <1>1, <1>4 DEF IInv, Nets
<1>7. ChanCap \in Nat
  BY RoomAssumption
<1>8. Channels'
  <2>1. CASE UNCHANGED <<messages, controls>>
    BY <1>2, <2>1, ChannelsKept DEF IInv
  <2>2. CASE /\ c.kind = "chat" /\ Len(messages[n]) < ChanCap
             /\ messages' = [messages EXCEPT ![n] = Append(messages[n], c.msg)]
             /\ UNCHANGED controls
    <3>. DEFINE s == Append(messages[n], c.msg)
    <3>1. messages[n] \in Seq(sent) /\ Len(messages[n]) \in Nat
      BY <1>3 DEF IInv, Channels
    <3>2. s \in Seq(sent) /\ Len(s) = Len(messages[n]) + 1
      BY <1>5, <2>2, <3>1, AppendProperties
    <3>3. Len(s) <= ChanCap
      BY <1>7, <2>2, <3>1, <3>2
    <3>4. messages' = [messages EXCEPT ![n] = s]
      BY <2>2
    <3>. HIDE DEF s
    <3>5. /\ messages' \in [Peers -> Seq(sent)] /\ messages'[n] = s
          /\ \A q \in Peers : q # n => messages'[q] = messages[q]
      BY <1>3, <3>2, <3>4 DEF IInv, Channels
    <3>. QED BY <1>1, <1>4, <2>2, <3>3, <3>5 DEF IInv, Channels
  <2>3. CASE /\ c.kind # "chat" /\ Len(controls[n]) < ChanCap
             /\ controls' = [controls EXCEPT ![n] = Append(controls[n], c)]
             /\ UNCHANGED messages
    <3>. DEFINE s == Append(controls[n], c)
    <3>1. controls[n] \in Seq(Contents) /\ Len(controls[n]) \in Nat
      BY <1>3 DEF IInv, Channels
    <3>2. s \in Seq(Contents) /\ Len(s) = Len(controls[n]) + 1
      BY <1>3, <3>1, AppendProperties
    <3>3. Len(s) <= ChanCap
      BY <1>7, <2>3, <3>1, <3>2
    <3>4. controls' = [controls EXCEPT ![n] = s]
      BY <2>3
    <3>. HIDE DEF s
    <3>5. /\ controls' \in [Peers -> Seq(Contents)] /\ controls'[n] = s
          /\ \A q \in Peers : q # n => controls'[q] = controls[q]
      BY <1>3, <3>2, <3>4 DEF IInv, Channels
    <3>. QED BY <1>1, <1>4, <2>3, <3>3, <3>5 DEF IInv, Channels
  <2>. QED BY <2>1, <2>2, <2>3 DEF Receive, n, c
<1>9. /\ Ledgers' /\ Screens' /\ Sendings' /\ Mergings' /\ Repairs'
  BY <1>1, <1>2, LedgersKept, ScreensKept, SendingsKept, MergingsKept,
     RepairsKept DEF IInv
<1>10. Scalars'
  BY <1>1 DEF Scalars, IInv
<1>. QED BY <1>2, <1>6, <1>8, <1>9, <1>10 DEF IInv

\* main.go:923-928, 348-381: the relay of Messages gives a message to the ledger.
LEMMA AcceptLiveStep ==
    ASSUME IInv, NEW n \in Peers, AcceptLive(n)
    PROVE  IInv'
<1>. DEFINE m == Head(messages[n])
            l == Accept(ledger[n], m)
<1>1. /\ messages[n] # << >>
      /\ ledger' = [ledger EXCEPT ![n] = l]
      /\ \E x \in {m, None} : merging' = [merging EXCEPT ![n] = x]
      /\ messages' = [messages EXCEPT ![n] = Tail(messages[n])]
      /\ UNCHANGED <<joined, vc, prevHash, shown, sending, repair, sync, net,
                     controls, sent>>
  BY DEF AcceptLive
<1>2. Forward /\ Clocks' /\ Chains'
  BY <1>1, StillForward DEF IInv
<1>3. m \in sent /\ Channels'
  BY <1>1, MessagesTaken DEF IInv
<1>. HIDE DEF m
<1>4. BuiltFrom(l, sent)
  BY <1>3, AcceptBuilds DEF IInv, Ledgers, Clocks, Chains
<1>. HIDE DEF l
<1>5. Ledgers'
  BY <1>1, <1>4, LedgerWritten DEF IInv
<1>6. Mergings'
  BY <1>1, <1>3 DEF IInv, Mergings
<1>7. Screens' /\ Sendings' /\ Nets' /\ Repairs'
  BY <1>1, <1>2, ScreensKept, SendingsKept, NetsKept, RepairsKept DEF IInv
<1>8. Scalars'
  BY <1>1 DEF Scalars, IInv
<1>. QED BY <1>2, <1>3, <1>5, <1>6, <1>7, <1>8 DEF IInv

\* main.go:382-388: it merges the clock before it shows the message.
LEMMA MergeLiveStep ==
    ASSUME IInv, NEW n \in Peers, MergeLive(n)
    PROVE  IInv'
<1>. DEFINE m == merging[n]
<1>1. /\ m # None
      /\ vc' = [vc EXCEPT ![n] = Merge(vc[n], m.vc)]
      /\ shown' = [shown EXCEPT ![n] = shown[n] \cup {m}]
      /\ merging' = [merging EXCEPT ![n] = None]
      /\ UNCHANGED <<joined, prevHash, ledger, sending, repair, sync, net,
                     messages, controls, sent>>
  BY DEF MergeLive, topicVars
<1>2. m \in sent
  BY <1>1 DEF IInv, Mergings
<1>. HIDE DEF m
<1>3. /\ Clocks' /\ Chains' /\ Leq(m.vc, vc'[n])
      /\ \A p \in Peers : Leq(vc[p], vc'[p])
  BY <1>1, <1>2, MergeClocks DEF IInv
<1>4. Forward
  BY <1>1, <1>3 DEF Forward, IInv, Clocks
<1>5. Screens'
  BY <1>1, <1>2, <1>3, <1>4, ScreenWritten DEF IInv
<1>6. Mergings'
  BY <1>1 DEF IInv, Mergings
<1>7. Ledgers' /\ Sendings' /\ Nets' /\ Channels' /\ Repairs'
  BY <1>1, <1>4, LedgersKept, SendingsKept, NetsKept, ChannelsKept,
     RepairsKept DEF IInv
<1>8. Scalars'
  BY <1>1 DEF Scalars, IInv
<1>. QED BY <1>3, <1>5, <1>6, <1>7, <1>8 DEF IInv

\* main.go:945-963: a request is answered with messages of the ledger.
LEMMA AnswerRequestStep ==
    ASSUME IInv, NEW n \in Peers, AnswerRequest(n)
    PROVE  IInv'
<1>. DEFINE missing == MissingFrom(ledger[n], Head(controls[n]).known,
                                   SyncLimit)
<1>1. /\ controls[n] # << >>
      /\ \/ net' = net \cup Packets(n, Response(missing))
         \/ net' = net
      /\ controls' = [controls EXCEPT ![n] = Tail(controls[n])]
      /\ UNCHANGED <<joined, vc, prevHash, ledger, shown, sending, merging,
                     repair, sync, messages, sent>>
  BY DEF AnswerRequest, nodeVars, goVars
<1>2. missing \in Seq(sent)
  <2>1. ledger[n].messages \in Seq(sent) /\ SyncLimit \in Nat
    BY RoomAssumption DEF IInv, Ledgers, BuiltFrom
  <2>. QED BY <2>1, MissingFromElements
<1>. HIDE DEF missing
<1>3. Response(missing) \in Contents
  BY <1>2 DEF Contents
<1>4. Forward /\ Clocks' /\ Chains'
  BY <1>1, StillForward DEF IInv
<1>5. Nets'
  BY <1>1, <1>3, <1>4, NetWritten, NetsKept DEF IInv
<1>6. Channels'
  BY <1>1, ControlsTaken DEF IInv
<1>7. Ledgers' /\ Screens' /\ Sendings' /\ Mergings' /\ Repairs'
  BY <1>1, <1>4, LedgersKept, ScreensKept, SendingsKept, MergingsKept,
     RepairsKept DEF IInv
<1>8. Scalars'
  BY <1>1 DEF Scalars, IInv
<1>. QED BY <1>4, <1>5, <1>6, <1>7, <1>8 DEF IInv

\* A repair that has not begun is a repair.
LEMMA NoRepairRecord ==
    /\ NoRepair \in RepairRecord
    /\ NoRepair.done = 0 /\ NoRepair.repaired = 0 /\ NoRepair.pc = "idle"
BY DEF NoRepair, RepairRecord

\* main.go:964-971: a response is taken up.
LEMMA StartRepairStep ==
    ASSUME IInv, NEW n \in Peers, StartRepair(n)
    PROVE  IInv'
<1>. DEFINE l == SetSyncStatus(ledger[n], "repairing")
            c == Head(controls[n])
            r == [NoRepair EXCEPT !.pc = "add", !.msgs = c.msgs]
<1>1. /\ controls[n] # << >> /\ c.kind = "sync_response"
      /\ ledger' = [ledger EXCEPT ![n] = l]
      /\ repair' = [repair EXCEPT ![n] = r]
      /\ controls' = [controls EXCEPT ![n] = Tail(controls[n])]
      /\ UNCHANGED <<joined, vc, prevHash, shown, sending, merging, sync, net,
                     messages, sent>>
  BY DEF StartRepair
<1>2. c \in Contents /\ Channels'
  BY <1>1, ControlsTaken DEF IInv
<1>. HIDE DEF c
<1>3. c.msgs \in Seq(sent)
  BY <1>1, <1>2, ContentsMeaning
<1>4. BuiltFrom(l, sent)
  BY StatusBuilds DEF IInv, Ledgers, Statuses
<1>. HIDE DEF l
<1>5. r \in RepairRecord /\ r.done <= Len(r.msgs) /\ r.repaired <= r.done
      /\ r.pc # "merge"
  <2>1. r \in RepairRecord /\ r.done = 0 /\ r.repaired = 0 /\ r.pc = "add"
        /\ r.msgs = c.msgs
    <3>1. r = [NoRepair EXCEPT !.pc = "add", !.msgs = c.msgs]
      OBVIOUS
    <3>. HIDE DEF r
    <3>2. "add" \in {"idle", "add", "merge"}
      OBVIOUS
    <3>3. /\ r \in RepairRecord /\ r.pc = "add" /\ r.msgs = c.msgs
          /\ r.done = NoRepair.done /\ r.repaired = NoRepair.repaired
      BY <1>3, <3>1, <3>2, NoRepairRecord DEF RepairRecord
    <3>. QED BY <3>3, NoRepairRecord
  <2>. HIDE DEF r
  <2>2. Len(r.msgs) \in Nat
    BY <1>3, <2>1
  <2>. QED BY <2>1, <2>2
<1>. HIDE DEF r
<1>6. Forward /\ Clocks' /\ Chains'
  BY <1>1, StillForward DEF IInv
<1>7. Ledgers' /\ Repairs'
  BY <1>1, <1>4, <1>5, LedgerWritten, RepairWritten DEF IInv
<1>8. Screens' /\ Sendings' /\ Nets' /\ Mergings'
  BY <1>1, <1>6, ScreensKept, SendingsKept, NetsKept, MergingsKept DEF IInv
<1>9. Scalars'
  BY <1>1 DEF Scalars, IInv
<1>. QED BY <1>2, <1>6, <1>7, <1>8, <1>9 DEF IInv

\* The fields of the repair a relay works on.
LEMMA RepairFields ==
    ASSUME Repairs, NEW n \in Peers
    PROVE  /\ repair[n] \in RepairRecord
           /\ repair[n].pc \in {"idle", "add", "merge"}
           /\ repair[n].msgs \in Seq(sent) /\ Len(repair[n].msgs) \in Nat
           /\ repair[n].done \in Nat /\ repair[n].repaired \in Nat
           /\ repair[n].done <= Len(repair[n].msgs)
           /\ repair[n].repaired <= repair[n].done
           /\ repair[n].pc = "merge" => repair[n].repaired < repair[n].done
BY DEF Repairs, RepairRecord

\* main.go:972-973: the next message of the response goes to the ledger.
LEMMA RepairAddStep ==
    ASSUME IInv, NEW n \in Peers, RepairAdd(n)
    PROVE  IInv'
<1>. DEFINE q == repair[n]
            m == q.msgs[q.done + 1]
            l == Accept(ledger[n], m)
            next == IF AddReason(ledger[n], m) = NoReason
                    THEN "merge" ELSE "add"
            c == q.done + 1
            r == [q EXCEPT !.done = c, !.pc = next]
<1>1. /\ q.pc = "add" /\ q.done < Len(q.msgs)
      /\ ledger' = [ledger EXCEPT ![n] = l]
      /\ repair' = [repair EXCEPT ![n].done = @ + 1, ![n].pc = next]
      /\ UNCHANGED <<joined, vc, prevHash, shown, sending, merging, sync, net,
                     messages, controls, sent>>
  BY DEF RepairAdd, topicVars
<1>2. /\ q \in RepairRecord
      /\ q.msgs \in Seq(sent) /\ Len(q.msgs) \in Nat
      /\ q.done \in Nat /\ q.repaired \in Nat /\ q.repaired <= q.done
  BY RepairFields DEF IInv
<1>3. m \in sent
  <2>1. q.done + 1 \in 1 .. Len(q.msgs)
    BY <1>1, <1>2
  <2>. QED BY <1>2, <2>1
<1>4. repair' = [repair EXCEPT ![n] = r]
  BY <1>1 DEF IInv, Repairs
<1>5. next \in {"add", "merge"}
  OBVIOUS
<1>. HIDE DEF m, next, q
<1>6. BuiltFrom(l, sent)
  BY <1>3, AcceptBuilds DEF IInv, Ledgers, Clocks, Chains
<1>. HIDE DEF l
<1>7. r \in RepairRecord /\ r.done <= Len(r.msgs) /\ r.repaired < r.done
  <2>1. c \in Nat
    BY <1>2
  <2>. HIDE DEF c
  <2>2. r \in RepairRecord /\ r.done = c /\ r.msgs = q.msgs
        /\ r.repaired = q.repaired
    <3>1. r = [q EXCEPT !.done = c, !.pc = next]
      OBVIOUS
    <3>. HIDE DEF r
    <3>2. next \in {"idle", "add", "merge"} /\ q \in RepairRecord
      BY <1>2, <1>5
    <3>. QED BY <2>1, <3>1, <3>2 DEF RepairRecord
  <2>. HIDE DEF r
  <2>. QED BY <1>1, <1>2, <2>2 DEF c
<1>8. r.repaired <= r.done
  <2>1. r.repaired \in Nat /\ r.done \in Nat
    BY <1>7 DEF RepairRecord
  <2>. HIDE DEF r
  <2>. QED BY <1>7, <2>1
<1>. HIDE DEF r
<1>9. Forward /\ Clocks' /\ Chains'
  BY <1>1, StillForward DEF IInv
<1>10. Ledgers' /\ Repairs'
  BY <1>1, <1>4, <1>6, <1>7, <1>8, LedgerWritten, RepairWritten DEF IInv
<1>11. Screens' /\ Sendings' /\ Nets' /\ Channels' /\ Mergings'
  BY <1>1, <1>9, ScreensKept, SendingsKept, NetsKept, ChannelsKept,
     MergingsKept DEF IInv
<1>12. Scalars'
  BY <1>1 DEF Scalars, IInv
<1>. QED BY <1>9, <1>10, <1>11, <1>12 DEF IInv

\* main.go:382-388, 974-975: an accepted one is merged, shown and counted.
LEMMA RepairMergeStep ==
    ASSUME IInv, NEW n \in Peers, RepairMerge(n)
    PROVE  IInv'
<1>. DEFINE q == repair[n]
            m == q.msgs[q.done]
            c == q.repaired + 1
            r == [q EXCEPT !.pc = "add", !.repaired = c]
<1>1. /\ q.pc = "merge"
      /\ vc' = [vc EXCEPT ![n] = Merge(vc[n], m.vc)]
      /\ shown' = [shown EXCEPT ![n] = shown[n] \cup {m}]
      /\ repair' = [repair EXCEPT ![n].pc = "add", ![n].repaired = @ + 1]
      /\ UNCHANGED <<joined, prevHash, ledger, sending, merging, sync, net,
                     messages, controls, sent>>
  BY DEF RepairMerge, topicVars
<1>2. /\ q \in RepairRecord
      /\ q.msgs \in Seq(sent) /\ Len(q.msgs) \in Nat
      /\ q.done \in Nat /\ q.repaired \in Nat
      /\ q.done <= Len(q.msgs) /\ q.repaired < q.done
  BY <1>1, RepairFields DEF IInv
<1>3. m \in sent
  <2>1. q.done \in 1 .. Len(q.msgs)
    BY <1>2
  <2>. QED BY <1>2, <2>1
<1>4. repair' = [repair EXCEPT ![n] = r]
  BY <1>1 DEF IInv, Repairs
<1>. HIDE DEF m, q
<1>5. r \in RepairRecord /\ r.done <= Len(r.msgs) /\ r.repaired <= r.done
      /\ r.pc # "merge"
  <2>1. c \in Nat
    BY <1>2
  <2>. HIDE DEF c
  <2>2. r \in RepairRecord /\ r.done = q.done /\ r.msgs = q.msgs
        /\ r.repaired = c /\ r.pc = "add"
    <3>1. r = [q EXCEPT !.pc = "add", !.repaired = c]
      OBVIOUS
    <3>. HIDE DEF r
    <3>2. "add" \in {"idle", "add", "merge"} /\ q \in RepairRecord
      BY <1>2
    <3>. QED BY <2>1, <3>1, <3>2 DEF RepairRecord
  <2>. HIDE DEF r
  <2>. QED BY <1>2, <2>2 DEF c
<1>. HIDE DEF r
<1>6. /\ Clocks' /\ Chains' /\ Leq(m.vc, vc'[n])
      /\ \A p \in Peers : Leq(vc[p], vc'[p])
  BY <1>1, <1>3, MergeClocks DEF IInv
<1>7. Forward
  BY <1>1, <1>6 DEF Forward, IInv, Clocks
<1>8. Screens'
  BY <1>1, <1>3, <1>6, <1>7, ScreenWritten DEF IInv
<1>9. Repairs'
  BY <1>1, <1>4, <1>5, RepairWritten DEF IInv
<1>10. Ledgers' /\ Sendings' /\ Nets' /\ Channels' /\ Mergings'
  BY <1>1, <1>7, LedgersKept, SendingsKept, NetsKept, ChannelsKept,
     MergingsKept DEF IInv
<1>11. Scalars'
  BY <1>1 DEF Scalars, IInv
<1>. QED BY <1>6, <1>8, <1>9, <1>10, <1>11 DEF IInv

\* main.go:978-984: the response is done with.
LEMMA FinishRepairStep ==
    ASSUME IInv, NEW n \in Peers, FinishRepair(n)
    PROVE  IInv'
<1>. DEFINE k == AddRepaired(ledger[n], repair[n].repaired)
            st == IF repair[n].repaired > 0 THEN "repaired" ELSE "idle"
            l == SetSyncStatus(k, st)
<1>1. /\ ledger' = [ledger EXCEPT ![n] = l]
      /\ repair' = [repair EXCEPT ![n] = NoRepair]
      /\ UNCHANGED <<joined, vc, prevHash, shown, sending, merging, sync, net,
                     messages, controls, sent>>
  BY DEF FinishRepair, topicVars
<1>2. BuiltFrom(l, sent)
  <2>1. repair[n].repaired \in Nat /\ BuiltFrom(ledger[n], sent)
    BY RepairFields DEF IInv, Ledgers
  <2>2. BuiltFrom(k, sent)
    BY <2>1, RepairedBuilds
  <2>3. st \in Statuses
    BY DEF Statuses
  <2>. HIDE DEF k, st
  <2>. QED BY <2>2, <2>3, StatusBuilds
<1>. HIDE DEF l
<1>3. /\ NoRepair \in RepairRecord /\ NoRepair.done <= Len(NoRepair.msgs)
      /\ NoRepair.repaired <= NoRepair.done /\ NoRepair.pc # "merge"
  <2>1. Len(NoRepair.msgs) \in Nat
    BY NoRepairRecord DEF RepairRecord
  <2>. QED BY <2>1, NoRepairRecord
<1>4. Forward /\ Clocks' /\ Chains'
  BY <1>1, StillForward DEF IInv
<1>5. Ledgers' /\ Repairs'
  BY <1>1, <1>2, <1>3, LedgerWritten, RepairWritten DEF IInv
<1>6. Screens' /\ Sendings' /\ Nets' /\ Channels' /\ Mergings'
  BY <1>1, <1>4, ScreensKept, SendingsKept, NetsKept, ChannelsKept,
     MergingsKept DEF IInv
<1>7. Scalars'
  BY <1>1 DEF Scalars, IInv
<1>. QED BY <1>4, <1>5, <1>6, <1>7 DEF IInv

-----------------------------------------------------------------------------
(* requestSync keeps the invariant.                                        *)

\* main.go:471-499: the request and its timer write a status and a packet.
LEMMA SyncStep ==
    ASSUME IInv, NEW n \in Peers, Sync(n)
    PROVE  IInv'
<1>. DEFINE Pcs == {"sleeping", "publishing", "waiting", "expired", "done"}
<1>1. /\ \E x \in Pcs : sync' = [sync EXCEPT ![n] = x]
      /\ UNCHANGED <<joined, vc, prevHash, shown, sending, merging, repair,
                     messages, controls, sent>>
      /\ \/ UNCHANGED ledger
         \/ \E st \in Statuses :
               ledger' = [ledger EXCEPT ![n] = SetSyncStatus(ledger[n], st)]
      /\ \/ UNCHANGED net
         \/ net' = net \cup Packets(n, Request(IDs(ledger[n])))
  <2>1. CASE RequestSync(n)
    BY <2>1 DEF RequestSync, topicVars, Statuses
  <2>2. CASE PublishRequest(n)
    BY <2>2 DEF PublishRequest, nodeVars
  <2>3. CASE TimerReads(n)
    BY <2>3 DEF TimerReads, nodeVars, topicVars
  <2>4. CASE TimerSetsIdle(n)
    BY <2>4 DEF TimerSetsIdle, topicVars, Statuses
  <2>. QED BY <2>1, <2>2, <2>3, <2>4 DEF Sync
<1>2. Forward /\ Clocks' /\ Chains'
  BY <1>1, StillForward DEF IInv
<1>3. Ledgers'
  <2>1. CASE UNCHANGED ledger
    BY <1>2, <2>1, LedgersKept DEF IInv
  <2>2. ASSUME NEW st \in Statuses,
               ledger' = [ledger EXCEPT ![n] = SetSyncStatus(ledger[n], st)]
        PROVE  Ledgers'
    <3>. DEFINE l == SetSyncStatus(ledger[n], st)
    <3>1. BuiltFrom(l, sent)
      BY StatusBuilds DEF IInv, Ledgers
    <3>2. ledger' = [ledger EXCEPT ![n] = l]
      BY <2>2
    <3>. HIDE DEF l
    <3>. QED BY <1>1, <3>1, <3>2, LedgerWritten DEF IInv
  <2>. QED BY <1>1, <2>1, <2>2
<1>4. Nets'
  <2>1. ledger[n].ids \in SUBSET Nat
    BY DEF IInv, Ledgers, LedgerRecord
  <2>2. Request(IDs(ledger[n])) \in Contents
    BY <2>1 DEF Contents, IDs
  <2>. QED BY <1>1, <1>2, <2>2, NetWritten, NetsKept DEF IInv
<1>5. Screens' /\ Sendings' /\ Channels' /\ Mergings' /\ Repairs'
  BY <1>1, <1>2, ScreensKept, SendingsKept, ChannelsKept, MergingsKept,
     RepairsKept DEF IInv
<1>6. Scalars'
  BY <1>1 DEF Scalars, IInv
<1>. QED BY <1>2, <1>3, <1>4, <1>5, <1>6 DEF IInv

-----------------------------------------------------------------------------
(* The invariant.                                                          *)

\* main.go:162-184: before anybody joined there is nothing to go wrong.
LEMMA InitIInv == Init => IInv
<1>. SUFFICES ASSUME Init PROVE IInv
  OBVIOUS
<1>1. New \in VectorClocks /\ \A q \in Peers : New[q] = 0
  BY DEF New, VectorClocks
<1>2. sent = {} /\ net = {} /\ \A n \in Peers : vc[n] = New
  BY DEF Init
<1>3. Horizon = New
  BY <1>2 DEF Horizon, New
<1>4. Clocks
  <2>1. Leq(New, New)
    BY <1>1, LeqOrder
  <2>2. vc \in [Peers -> VectorClocks]
    BY <1>1 DEF Init
  <2>. QED BY <1>2, <1>3, <2>1, <2>2 DEF Clocks, Closed
<1>5. Chains
  BY <1>1, <1>2 DEF Init, Chains, Chained, Nth
<1>6. Ledgers
  <2>1. NewLedger \in LedgerRecord
    BY <1>1 DEF NewLedger, LedgerRecord, VectorClocks, Reasons, Statuses,
                NoReason
  <2>2. NewLedger.messages = << >> /\ NewLedger.prevHashBySender = {}
        /\ NewLedger.equivocation = 0
    BY DEF NewLedger
  <2>3. BuiltFrom(NewLedger, sent)
    BY <2>1, <2>2 DEF BuiltFrom
  <2>4. ledger = [n \in Peers |-> NewLedger]
    BY DEF Init
  <2>. QED BY <2>1, <2>3, <2>4 DEF Ledgers
<1>7. Screens
  BY DEF Init, Screens, ScreenIsKnown
<1>8. Sendings
  BY DEF Init, Sendings, SendingOK
<1>9. Nets
  BY <1>2 DEF Nets
<1>10. Channels
  <2>1. ChanCap \in Nat /\ Len(<< >>) = 0
    BY RoomAssumption
  <2>2. messages \in [Peers -> Seq(sent)] /\ controls \in [Peers -> Seq(Contents)]
        /\ \A n \in Peers : messages[n] = << >> /\ controls[n] = << >>
    BY DEF Init
  <2>. QED BY <2>1, <2>2 DEF Channels
<1>11. Mergings
  BY DEF Init, Mergings
<1>12. Repairs
  <2>1. NoRepair.done = 0 /\ NoRepair.repaired = 0 /\ NoRepair.pc = "idle"
        /\ Len(NoRepair.msgs) = 0
    BY DEF NoRepair
  <2>2. repair = [n \in Peers |-> NoRepair]
    BY DEF Init
  <2>. QED BY <2>1, <2>2, NoRepairRecord DEF Repairs
<1>13. Scalars
  BY DEF Init, Scalars
<1>. QED
  BY <1>4, <1>5, <1>6, <1>7, <1>8, <1>9, <1>10, <1>11, <1>12, <1>13 DEF IInv

\* Every step keeps it.
LEMMA NextIInv == IInv /\ [Next]_vars => IInv'
<1>. SUFFICES ASSUME IInv, [Next]_vars PROVE IInv'
  OBVIOUS
<1>1. ASSUME NEW n \in Peers, Join(n) PROVE IInv'
  BY <1>1, JoinStep
<1>2. ASSUME NEW n \in Peers, Send(n) PROVE IInv'
  BY <1>2, SignStep, PublishStep, PublishFailsStep, AddOwnStep DEF Send
<1>3. ASSUME NEW n \in Peers, MessagesRelay(n) PROVE IInv'
  BY <1>3, AcceptLiveStep, MergeLiveStep DEF MessagesRelay
<1>4. ASSUME NEW n \in Peers, ControlsRelay(n) PROVE IInv'
  BY <1>4, AnswerRequestStep, StartRepairStep, RepairAddStep,
     RepairMergeStep, FinishRepairStep DEF ControlsRelay
<1>5. ASSUME NEW n \in Peers, Sync(n) PROVE IInv'
  BY <1>5, SyncStep
<1>6. ASSUME NEW p \in net, Receive(p) PROVE IInv'
  BY <1>6, ReceiveStep
<1>7. CASE UNCHANGED vars
  <2>1. UNCHANGED <<joined, vc, prevHash, ledger, shown, sending, net,
                    messages, controls, merging, repair, sync, sent>>
    BY <1>7 DEF vars, nodeVars, goVars, topicVars
  <2>2. Forward /\ Clocks' /\ Chains'
    BY <2>1, StillForward DEF IInv
  <2>3. /\ Ledgers' /\ Screens' /\ Sendings' /\ Nets' /\ Channels'
        /\ Mergings' /\ Repairs'
    BY <2>1, <2>2, LedgersKept, ScreensKept, SendingsKept, NetsKept,
       ChannelsKept, MergingsKept, RepairsKept DEF IInv
  <2>4. Scalars'
    BY <2>1 DEF Scalars, IInv
  <2>. QED BY <2>2, <2>3, <2>4 DEF IInv
<1>. QED BY <1>1, <1>2, <1>3, <1>4, <1>5, <1>6, <1>7 DEF Next

\* The strengthened invariant holds in every reachable state.
THEOREM Invariance == Spec => []IInv
BY InitIInv, NextIInv, PTL DEF Spec

-----------------------------------------------------------------------------
(* Sync responses can be replayed.                                         *)

\* The messages of each sender stand in the order in which they were signed.
SenderOrdered(s) ==
    \A i, j \in 1 .. Len(s) :
       i < j /\ s[i].sender = s[j].sender => Own(s[i]) < Own(s[j])

\* So they do in the list of l, and its clock map counts all of them.
Listed(l) ==
    /\ SenderOrdered(l.messages)
    /\ \A i \in 1 .. Len(l.messages) :
          Own(l.messages[i]) <= l.senderClock[l.messages[i].sender]

\* The lists of two ledgers with the same messages and clocks.
LEMMA ListedSame ==
    ASSUME NEW l, NEW k, Listed(l), k.messages = l.messages,
           k.senderClock = l.senderClock
    PROVE  Listed(k)
BY DEF Listed

\* ledger.go:97-98: a message later than its sender's listed ones is put
\* behind them.
LEMMA SortedOrdered ==
    ASSUME NEW S \in SUBSET Message, NEW s \in Seq(S), NEW m \in S,
           SenderOrdered(s), Closed(S, m.vc),
           \A i \in 1 .. Len(s) : s[i].sender = m.sender => Own(s[i]) < Own(m)
    PROVE  SenderOrdered(Sorted(s, m))
<1>. DEFINE t == Sorted(s, m)
            k == InsertPosition(s, m)
<1>1. t \in Seq(S) /\ InsertedAt(s, m, t, k)
  BY SortedElements
<1>. HIDE DEF t, k
<1>2. Len(s) \in Nat /\ k \in 0 .. Len(s) /\ Len(t) = Len(s) + 1
      /\ t[k + 1] = m
  BY <1>1 DEF InsertedAt
<1>3. \A i \in 1 .. Len(t) :
         i # k + 1 => Old(k, i) \in 1 .. Len(s) /\ t[i] = s[Old(k, i)]
  BY <1>1, InsertedOld
<1>. SUFFICES ASSUME NEW i \in 1 .. Len(t), NEW j \in 1 .. Len(t),
                     i < j, t[i].sender = t[j].sender
              PROVE  Own(t[i]) < Own(t[j])
  BY DEF SenderOrdered, t
<1>4. CASE i # k + 1 /\ j # k + 1
  <2>1. Old(k, i) < Old(k, j)
    BY <1>2, <1>4 DEF Old
  <2>. QED BY <1>3, <1>4, <2>1 DEF SenderOrdered
<1>5. CASE j = k + 1
  <2>1. i # k + 1
    BY <1>2, <1>5
  <2>. QED BY <1>2, <1>3, <1>5, <2>1
<1>6. CASE i = k + 1
  <2>. DEFINE x == t[j]
  <2>1. j # k + 1
    BY <1>2, <1>6
  <2>2. t[j] = s[Old(k, j)] /\ Old(k, j) \in 1 .. Len(s)
    BY <1>3, <2>1
  <2>3. x \in S /\ x.sender = m.sender /\ Own(x) < Own(m)
    BY <1>2, <1>6, <2>2
  <2>. HIDE DEF x
  <2>4. /\ x.vc \in VectorClocks /\ m.vc \in VectorClocks
        /\ Own(x) \in Nat /\ Own(m) \in Nat
    BY <2>3 DEF Message, VectorClocks, Own
  <2>5. Own(m) = m.vc[x.sender] /\ Own(x) = x.vc[x.sender]
    BY <2>3 DEF Own
  <2>6. Leq(x.vc, m.vc)
    <3>1. Own(x) <= m.vc[x.sender]
      BY <2>3, <2>4, <2>5
    <3>. QED BY <2>3, <3>1 DEF Closed
  <2>7. x.vc # m.vc
    BY <2>3, <2>4, <2>5
  <2>8. Compare(x.vc, m.vc) = "before"
    BY <2>4, <2>6, <2>7, CompareMeaning
  <2>9. s \in Seq(Message) /\ m \in Message
    OBVIOUS
  <2>10. j < k + 1
    BY <1>1, <2>8, <2>9, InsertedCauses DEF x
  <2>. QED BY <1>2, <1>6, <2>10
<1>. QED BY <1>4, <1>5, <1>6

\* ledger.go:99-105: eviction keeps the order of what stays.
LEMMA TrimOrdered ==
    ASSUME NEW S, NEW t \in Seq(S), SenderOrdered(t)
    PROVE  /\ SenderOrdered(Trim(t))
           /\ \A i \in 1 .. Len(Trim(t)) :
                 \E j \in 1 .. Len(t) : Trim(t)[i] = t[j]
<1>. DEFINE u == Trim(t)
<1>1. u \in Seq(S) /\ \E d \in Nat : DroppedFirst(t, u, d)
  BY TrimElements
<1>. HIDE DEF u
<1>2. PICK d \in Nat : DroppedFirst(t, u, d)
  BY <1>1
<1>3. /\ Len(t) \in Nat /\ d \in 0 .. Len(t) /\ Len(u) = Len(t) - d
      /\ \A i \in 1 .. Len(u) : u[i] = t[i + d]
  BY <1>2 DEF DroppedFirst
<1>4. \A i \in 1 .. Len(u) : i + d \in 1 .. Len(t)
  BY <1>3
<1>5. SenderOrdered(u)
  <2>. SUFFICES ASSUME NEW i \in 1 .. Len(u), NEW j \in 1 .. Len(u),
                       i < j, u[i].sender = u[j].sender
                PROVE  Own(u[i]) < Own(u[j])
    BY DEF SenderOrdered
  <2>1. i + d \in 1 .. Len(t) /\ j + d \in 1 .. Len(t) /\ i + d < j + d
    BY <1>3, <1>4
  <2>. QED BY <1>3, <2>1 DEF SenderOrdered
<1>. QED BY <1>3, <1>4, <1>5 DEF u

\* ledger.go:57-108: adding a signed message keeps the list in order.
LEMMA AddListed ==
    ASSUME NEW S \in SUBSET Message, Chained(S),
           \A x \in S : Closed(S, x.vc),
           NEW l, BuiltFrom(l, S), Listed(l), NEW m \in S
    PROVE  Listed(AddWithReason(l, m))
<1>. DEFINE k == AddWithReason(l, m)
            s == l.messages
            t == Sorted(s, m)
<1>1. /\ l \in LedgerRecord /\ m \in Message /\ m.vc[m.sender] > 0
      /\ s \in Seq(S) /\ l.senderClock \in VectorClocks
  BY DEF BuiltFrom, Chained, Own, LedgerRecord
<1>2. CASE AddReason(l, m) # NoReason
  <2>1. k.messages = l.messages /\ k.senderClock = l.senderClock
    BY <1>1, <1>2, Refused
  <2>. QED BY <2>1, ListedSame
<1>3. CASE AddReason(l, m) = NoReason
  <2>1. /\ k.messages = Trim(t)
        /\ k.senderClock = [l.senderClock EXCEPT ![m.sender] = m.vc[m.sender]]
        /\ ~ Regression(l, m)
    BY <1>1, <1>3, AcceptedFields
  <2>2. /\ m.sender \in Peers /\ Own(m) \in Nat /\ Own(m) = m.vc[m.sender]
        /\ l.senderClock[m.sender] \in Nat
    BY <1>1 DEF Own, Message, VectorClocks
  <2>3. l.senderClock[m.sender] < Own(m)
    BY <1>1, <2>1, <2>2 DEF Regression
  <2>4. ASSUME NEW i \in 1 .. Len(s)
        PROVE  /\ s[i] \in Message /\ s[i].sender \in Peers
               /\ Own(s[i]) \in Nat /\ l.senderClock[s[i].sender] \in Nat
               /\ Own(s[i]) <= l.senderClock[s[i].sender]
    <3>1. s[i] \in Message
      BY <1>1
    <3>. HIDE DEF s
    <3>2. s[i].sender \in Peers /\ Own(s[i]) \in Nat
      BY <3>1 DEF Own, Message, VectorClocks
    <3>3. l.senderClock[s[i].sender] \in Nat
      BY <1>1, <3>2 DEF VectorClocks
    <3>4. Own(s[i]) <= l.senderClock[s[i].sender]
      BY DEF Listed, s
    <3>. QED BY <3>1, <3>2, <3>3, <3>4
  <2>5. ASSUME NEW i \in 1 .. Len(s), s[i].sender = m.sender
        PROVE  Own(s[i]) < Own(m)
    BY <2>2, <2>3, <2>4, <2>5
  <2>6. SenderOrdered(t) /\ t \in Seq(S)
        /\ InsertedAt(s, m, t, InsertPosition(s, m))
    <3>1. SenderOrdered(s)
      BY DEF Listed
    <3>. HIDE DEF s
    <3>. QED BY <1>1, <2>5, <3>1, SortedElements, SortedOrdered
  <2>. HIDE DEF s, t, k
  <2>7. ASSUME NEW i \in 1 .. Len(t)
        PROVE  Own(t[i]) <= k.senderClock[t[i].sender]
    <3>1. CASE t[i] = m
      <4>1. k.senderClock[m.sender] = Own(m)
        BY <1>1, <2>1, <2>2 DEF VectorClocks
      <4>. QED BY <2>2, <3>1, <4>1
    <3>2. CASE \E j \in 1 .. Len(s) : t[i] = s[j]
      <4>1. PICK j \in 1 .. Len(s) : t[i] = s[j]
        BY <3>2
      <4>2. k.senderClock[s[j].sender] =
               IF s[j].sender = m.sender THEN Own(m)
               ELSE l.senderClock[s[j].sender]
        BY <1>1, <2>1, <2>2, <2>4 DEF VectorClocks
      <4>. QED BY <2>2, <2>4, <2>5, <4>1, <4>2
    <3>3. t[i] = m \/ \E j \in 1 .. Len(s) : t[i] = s[j]
      <4>. DEFINE p == InsertPosition(s, m)
      <4>1. InsertedAt(s, m, t, p) /\ t[p + 1] = m
        BY <2>6 DEF InsertedAt
      <4>. HIDE DEF p
      <4>2. i # p + 1 => Old(p, i) \in 1 .. Len(s) /\ t[i] = s[Old(p, i)]
        BY <1>1, <4>1, InsertedOld
      <4>. QED BY <4>1, <4>2
    <3>. QED BY <3>1, <3>2, <3>3
  <2>8. /\ SenderOrdered(Trim(t))
        /\ \A i \in 1 .. Len(Trim(t)) :
              \E j \in 1 .. Len(t) : Trim(t)[i] = t[j]
    BY <2>6, TrimOrdered
  <2>9. Listed(k)
    BY <2>1, <2>7, <2>8 DEF Listed
  <2>. QED BY <2>9 DEF k
<1>. QED BY <1>2, <1>3

\* What is taken from a list keeps its senders' order.
LEMMA TakenOrdered ==
    ASSUME NEW s, NEW u, TakenFrom(u, s, Len(s)), SenderOrdered(s)
    PROVE  SenderOrdered(u)
<1>1. PICK at \in [1 .. Len(u) -> 1 .. Len(s)] :
         /\ \A j \in 1 .. Len(u) : u[j] = s[at[j]]
         /\ \A i, j \in 1 .. Len(u) : i < j => at[i] < at[j]
  BY DEF TakenFrom
<1>2. ASSUME NEW i \in 1 .. Len(u), NEW j \in 1 .. Len(u),
             i < j, u[i].sender = u[j].sender
      PROVE  Own(u[i]) < Own(u[j])
  <2>1. at[i] \in 1 .. Len(s) /\ at[j] \in 1 .. Len(s) /\ at[i] < at[j]
    BY <1>1, <1>2
  <2>2. u[i] = s[at[i]] /\ u[j] = s[at[j]]
    BY <1>1
  <2>3. s[at[i]].sender = s[at[j]].sender
    BY <1>2, <2>2
  <2>4. Own(s[at[i]]) < Own(s[at[j]])
    BY <2>1, <2>3 DEF SenderOrdered
  <2>. QED BY <2>2, <2>4
<1>. QED BY <1>2 DEF SenderOrdered

\* ledger.go:128-155: a sync response is ordered as the ledger is.
LEMMA MissingFromOrdered ==
    ASSUME NEW S, NEW l, l.messages \in Seq(S), SenderOrdered(l.messages),
           NEW known, NEW limit \in Nat
    PROVE  SenderOrdered(MissingFrom(l, known, limit))
<1>. DEFINE s == l.messages
            r == Recent(l, limit)
            a == Len(s) - limit + 1
<1>1. r \in Seq(S) /\ SenderOrdered(r)
  <2>1. CASE limit <= 0 \/ limit > Len(s)
    BY <2>1 DEF Recent
  <2>2. CASE ~ (limit <= 0 \/ limit > Len(s))
    <3>1. r = SubSeq(s, a, Len(s))
      BY <2>2 DEF Recent
    <3>2. a \in 1 .. Len(s) + 1 /\ Len(s) \in Nat
      BY <2>2
    <3>3. \A i \in a .. Len(s) : s[i] \in S
      BY <3>2
    <3>4. SenderOrdered(s)
      OBVIOUS
    <3>. HIDE DEF a, s, r
    <3>5. /\ r \in Seq(S) /\ Len(r) \in Nat
          /\ Len(r) = IF a <= Len(s) THEN Len(s) - a + 1 ELSE 0
          /\ \A i \in 1 .. Len(s) - a + 1 : r[i] = s[a + i - 1]
      BY <3>1, <3>2, <3>3, SubSeqProperties
    <3>6. ASSUME NEW i \in 1 .. Len(r)
          PROVE  a + i - 1 \in 1 .. Len(s) /\ r[i] = s[a + i - 1]
      BY <3>2, <3>5
    <3>7. SenderOrdered(r)
      <4>. SUFFICES ASSUME NEW i \in 1 .. Len(r), NEW j \in 1 .. Len(r),
                           i < j, r[i].sender = r[j].sender
                    PROVE  Own(r[i]) < Own(r[j])
        BY DEF SenderOrdered
      <4>1. a + i - 1 < a + j - 1
        BY <3>2
      <4>. QED BY <3>4, <3>6, <4>1 DEF SenderOrdered
    <3>. QED BY <3>5, <3>7
  <2>. QED BY <2>1, <2>2
<1>. HIDE DEF r
<1>2. SenderOrdered(Unknown(r, known))
  BY <1>1, UnknownTaken, TakenOrdered
<1>. QED BY <1>2 DEF MissingFrom, r

-----------------------------------------------------------------------------
(* Ids.                                                                    *)

\* No two peers' numbers for their messages overlap.
LEMMA NoOverlap ==
    ASSUME NEW a \in Nat, NEW c \in Nat, a < c,
           NEW d \in 1 .. MaxSends, NEW e \in 1 .. MaxSends
    PROVE  a * (MaxSends + 1) + d # c * (MaxSends + 1) + e
<1>. DEFINE b == MaxSends + 1
            k == c - a - 1
<1>1. b \in Nat /\ d < b /\ d \in Nat /\ e \in Nat
  BY RoomAssumption
<1>2. k \in Nat /\ c = a + (1 + k)
  OBVIOUS
<1>. HIDE DEF b, k
<1>3. a * b \in Nat /\ k * b \in Nat
  BY <1>1, <1>2
<1>4. c * b = a * b + (b + k * b)
  BY <1>1, <1>2
<1>. DEFINE ab == a * b
            kb == k * b
            cb == c * b
<1>. HIDE DEF ab, kb, cb
<1>5. ab + d # cb + e
  <2>1. ab \in Nat /\ kb \in Nat /\ cb = ab + (b + kb)
    BY <1>3, <1>4 DEF ab, kb, cb
  <2>. QED BY <1>1, <2>1
<1>. QED BY <1>5 DEF ab, cb, b

\* Of a chain whose counts are bounded, an id names its sender and its count.
LEMMA NameOfMessage ==
    ASSUME NEW S \in SUBSET Message, Chained(S),
           \A x \in S : Own(x) <= MaxSends,
           NEW x \in S, NEW y \in S, x.id = y.id
    PROVE  x.sender = y.sender /\ Own(x) = Own(y)
<1>1. ASSUME NEW z \in S
      PROVE  /\ z.sender \in Peers /\ z.sender \in Nat
             /\ Own(z) \in 1 .. MaxSends
             /\ z.id = z.sender * (MaxSends + 1) + Own(z)
  <2>1. z.sender \in Peers /\ Own(z) \in Nat
    BY DEF Own, Message, VectorClocks
  <2>2. Own(z) > 0 /\ z.id = Nth(z.sender, Own(z)) /\ Own(z) <= MaxSends
    BY DEF Chained
  <2>3. Own(z) \in 1 .. MaxSends
    BY <2>1, <2>2, RoomAssumption
  <2>4. Own(z) # 0
    BY <2>1, <2>2
  <2>. QED BY <2>1, <2>2, <2>3, <2>4, PeersAssumption DEF Nth
<1>2. ~ (x.sender < y.sender)
  BY <1>1, NoOverlap
<1>3. ~ (y.sender < x.sender)
  BY <1>1, NoOverlap
<1>4. x.sender = y.sender
  BY <1>1, <1>2, <1>3
<1>5. Nth(x.sender, Own(x)) = Nth(x.sender, Own(y))
  BY <1>4 DEF Chained
<1>6. Own(x) \in Nat /\ Own(y) \in Nat /\ x.sender \in Peers
  BY <1>1
<1>. QED BY <1>4, <1>5, <1>6, NthDiffers

-----------------------------------------------------------------------------
(* An empty ledger that gets a list in order.                              *)

\* A ledger that got the first n messages of s, and took all of them.
TookFirst(l, s, n, S) ==
    /\ BuiltFrom(l, S)
    /\ l.verified = n
    /\ \A d \in l.ids : \E j \in 1 .. n : s[j].id = d
    /\ \A q \in Peers :
          \/ l.senderClock[q] = 0
          \/ \E j \in 1 .. n : s[j].sender = q /\ Own(s[j]) = l.senderClock[q]

\* It takes the next one as well.
LEMMA TakesNext ==
    ASSUME NEW S \in SUBSET Message, Chained(S),
           \A x \in S : Own(x) <= MaxSends,
           NEW s \in Seq(S), SenderOrdered(s),
           NEW n \in Nat, n < Len(s), NEW l, TookFirst(l, s, n, S)
    PROVE  TookFirst(AddWithReason(l, s[n + 1]), s, n + 1, S)
<1>. DEFINE m == s[n + 1]
            k == AddWithReason(l, m)
<1>1. n + 1 \in 1 .. Len(s) /\ \A j \in 1 .. n : j \in 1 .. Len(s) /\ j < n + 1
  OBVIOUS
<1>2. m \in S /\ \A j \in 1 .. n : s[j] \in S
  BY <1>1
<1>3. /\ m \in Message /\ m.vc[m.sender] > 0 /\ m.sender \in Peers
      /\ Own(m) \in Nat /\ Own(m) = m.vc[m.sender] /\ Own(m) > 0
  BY <1>2 DEF Chained, Message, VectorClocks, Own
<1>4. \A j \in 1 .. n : s[j].sender = m.sender => Own(s[j]) < Own(m)
  BY <1>1 DEF SenderOrdered
<1>5. l \in LedgerRecord /\ l.senderClock \in VectorClocks
      /\ l.ids \in SUBSET Nat /\ l.verified = n
  BY DEF TookFirst, BuiltFrom, LedgerRecord
<1>. HIDE DEF m, k
<1>6. ~ Duplicate(l, m)
  <2>. SUFFICES ASSUME Duplicate(l, m) PROVE FALSE
    OBVIOUS
  <2>1. PICK j \in 1 .. n : s[j].id = m.id
    BY DEF Duplicate, TookFirst
  <2>2. s[j] \in S
    BY <1>2
  <2>3. s[j].sender = m.sender /\ Own(s[j]) = Own(m)
    BY <1>2, <2>1, <2>2, NameOfMessage
  <2>. QED BY <1>3, <1>4, <2>3
<1>7. ~ Regression(l, m)
  <2>1. CASE l.senderClock[m.sender] = 0
    BY <1>3, <2>1 DEF Regression
  <2>2. CASE \E j \in 1 .. n :
                s[j].sender = m.sender /\ Own(s[j]) = l.senderClock[m.sender]
    <3>1. l.senderClock[m.sender] < Own(m)
      BY <1>4, <2>2
    <3>2. l.senderClock[m.sender] \in Nat
      BY <1>3, <1>5 DEF VectorClocks
    <3>. QED BY <1>3, <3>1, <3>2 DEF Regression
  <2>. QED BY <1>3, <2>1, <2>2 DEF TookFirst
<1>8. BuiltFrom(l, S) /\ ~ Fork(l, m)
  BY <1>2, ChainNeverForks DEF TookFirst
<1>9. AddReason(l, m) = NoReason
  BY <1>6, <1>7, <1>8 DEF AddReason
<1>10. /\ k.ids = (l.ids \cup {m.id}) \ Evicted(Sorted(l.messages, m))
       /\ k.senderClock = [l.senderClock EXCEPT ![m.sender] = m.vc[m.sender]]
       /\ k.verified = n + 1
  BY <1>3, <1>5, <1>9, AcceptedFields DEF k
<1>11. BuiltFrom(k, S)
  BY <1>2, <1>8, AddBuilds DEF k
<1>12. n + 1 \in 1 .. n + 1 /\ \A j \in 1 .. n : j \in 1 .. n + 1
  OBVIOUS
<1>13. ASSUME NEW d \in k.ids PROVE \E j \in 1 .. n + 1 : s[j].id = d
  <2>1. d = m.id \/ d \in l.ids
    BY <1>10
  <2>2. CASE d = m.id
    BY <1>12, <2>2 DEF m
  <2>3. CASE d \in l.ids
    BY <1>12, <2>3 DEF TookFirst
  <2>. QED BY <2>1, <2>2, <2>3
<1>14. ASSUME NEW q \in Peers
       PROVE  \/ k.senderClock[q] = 0
              \/ \E j \in 1 .. n + 1 :
                    s[j].sender = q /\ Own(s[j]) = k.senderClock[q]
  <2>1. k.senderClock[q] = IF q = m.sender THEN Own(m) ELSE l.senderClock[q]
    BY <1>3, <1>5, <1>10 DEF VectorClocks
  <2>2. CASE q = m.sender
    BY <1>12, <2>1, <2>2 DEF m
  <2>3. CASE q # m.sender
    BY <1>12, <2>1, <2>3 DEF TookFirst
  <2>. QED BY <2>2, <2>3
<1>15. TookFirst(k, s, n + 1, S)
  BY <1>10, <1>11, <1>13, <1>14 DEF TookFirst
<1>. QED BY <1>15 DEF k, m

\* The ledger after message i of s, f being the ledgers before it.
ReplayAt(s, f, i) ==
    IF i = 0 THEN NewLedger ELSE AddWithReason(f[i - 1], s[i])

\* f is the history of the first n messages.
ReplayUpTo(s, f, n) == f = [i \in 0 .. n |-> ReplayAt(s, f, i)]

\* One more message extends the history.
LEMMA ReplayOneMore ==
    ASSUME NEW s, NEW n \in Nat, n # 0, NEW f, ReplayUpTo(s, f, n - 1)
    PROVE  \E g : ReplayUpTo(s, g, n)
<1>. DEFINE g == [i \in 0 .. n |-> IF i = n THEN ReplayAt(s, f, n) ELSE f[i]]
<1>1. g[n] = ReplayAt(s, f, n)
  OBVIOUS
<1>2. \A i \in 0 .. n - 1 : g[i] = f[i]
  OBVIOUS
<1>3. \A i \in 0 .. n - 1 : f[i] = ReplayAt(s, f, i)
  BY DEF ReplayUpTo
<1>4. g = [i \in 0 .. n |-> g[i]]
  OBVIOUS
<1>. HIDE DEF g
<1>5. ASSUME NEW i \in 0 .. n PROVE g[i] = ReplayAt(s, g, i)
  <2>1. i # 0 => i - 1 \in 0 .. n - 1
    OBVIOUS
  <2>2. i # 0 => g[i - 1] = f[i - 1]
    BY <1>2, <2>1
  <2>3. ReplayAt(s, g, i) = ReplayAt(s, f, i)
    BY <2>2 DEF ReplayAt
  <2>4. i = n \/ i \in 0 .. n - 1
    OBVIOUS
  <2>. QED BY <1>1, <1>2, <1>3, <2>3, <2>4
<1>. QED BY <1>4, <1>5 DEF ReplayUpTo

\* A list of any length has one.
LEMMA ReplayExists ==
    ASSUME NEW s, NEW n \in Nat
    PROVE  \E f : ReplayUpTo(s, f, n)
<1>. DEFINE T == {i \in Nat : ~ \E f : ReplayUpTo(s, f, i)}
<1>. SUFFICES ASSUME T # {} PROVE FALSE
  OBVIOUS
<1>1. PICK i \in T : \A u \in T : ~ (u < i)
  BY LeastOf
<1>2. i # 0
  <2>. DEFINE g == [j \in 0 .. 0 |-> NewLedger]
  <2>1. ReplayUpTo(s, g, 0)
    BY DEF ReplayUpTo, ReplayAt
  <2>. QED BY <2>1
<1>3. i \in Nat /\ i - 1 \in Nat /\ i - 1 < i
  BY <1>2
<1>4. i - 1 \notin T
  BY <1>1, <1>3
<1>5. \E f : ReplayUpTo(s, f, i - 1)
  BY <1>3, <1>4
<1>6. \E f : ReplayUpTo(s, f, i)
  BY <1>2, <1>3, <1>5, ReplayOneMore
<1>. QED BY <1>6

\* An empty ledger is built from anything.
LEMMA NewLedgerTook ==
    ASSUME NEW s, NEW S
    PROVE  TookFirst(NewLedger, s, 0, S)
<1>. DEFINE l == NewLedger
<1>1. New \in VectorClocks /\ \A q \in Peers : New[q] = 0
  BY DEF New, VectorClocks
<1>2. l \in LedgerRecord
  BY <1>1 DEF NewLedger, LedgerRecord, VectorClocks, Reasons, Statuses,
              NoReason
<1>3. /\ l.messages = << >> /\ l.prevHashBySender = {} /\ l.equivocation = 0
      /\ l.verified = 0 /\ l.ids = {} /\ l.senderClock = New
  BY DEF NewLedger
<1>. HIDE DEF l
<1>4. BuiltFrom(l, S)
  BY <1>2, <1>3 DEF BuiltFrom
<1>. QED BY <1>1, <1>3, <1>4 DEF TookFirst, l

\* main.go:961-964: an empty ledger takes the whole of an ordered list.
LEMMA OrderedReplays ==
    ASSUME NEW S \in SUBSET Message, Chained(S),
           \A x \in S : Own(x) <= MaxSends,
           NEW s \in Seq(S), SenderOrdered(s)
    PROVE  Replayed(s).verified = Len(s)
<1>. DEFINE After == CHOOSE g : g = [i \in 0 .. Len(s) |-> ReplayAt(s, g, i)]
<1>1. Len(s) \in Nat
  OBVIOUS
<1>2. Replayed(s) = After[Len(s)]
  BY DEF Replayed, ReplayAt
<1>3. After = [i \in 0 .. Len(s) |-> ReplayAt(s, After, i)]
  <2>1. \E f : f = [i \in 0 .. Len(s) |-> ReplayAt(s, f, i)]
    BY <1>1, ReplayExists DEF ReplayUpTo
  <2>. QED BY <2>1
<1>. HIDE DEF After
<1>4. \A i \in 0 .. Len(s) : After[i] = ReplayAt(s, After, i)
  BY <1>3
<1>. DEFINE Good(i) == TookFirst(After[i], s, i, S)
            T == {i \in 0 .. Len(s) : ~ Good(i)}
<1>5. Good(0)
  <2>1. After[0] = NewLedger
    BY <1>1, <1>4 DEF ReplayAt
  <2>. QED BY <2>1, NewLedgerTook
<1>6. ASSUME NEW i \in 1 .. Len(s), Good(i - 1) PROVE Good(i)
  <2>1. i - 1 \in Nat /\ i - 1 < Len(s) /\ (i - 1) + 1 = i
        /\ i # 0 /\ i \in 0 .. Len(s)
    BY <1>1
  <2>2. After[i] = AddWithReason(After[i - 1], s[i])
    <3>1. After[i] = ReplayAt(s, After, i)
      BY <1>4, <2>1
    <3>. QED BY <2>1, <3>1, Zenon DEF ReplayAt
  <2>. DEFINE l == After[i - 1]
              j == i - 1
  <2>3. TookFirst(l, s, j, S) /\ j \in Nat /\ j < Len(s) /\ j + 1 = i
    BY <1>6, <2>1
  <2>. HIDE DEF l, j
  <2>4. TookFirst(AddWithReason(l, s[j + 1]), s, j + 1, S)
    BY <2>3, TakesNext
  <2>5. TookFirst(AddWithReason(l, s[i]), s, i, S)
    BY <2>3, <2>4
  <2>. QED BY <2>2, <2>5 DEF l
<1>. HIDE DEF Good
<1>7. T = {}
  <2>. SUFFICES ASSUME T # {} PROVE FALSE
    OBVIOUS
  <2>1. T \in SUBSET Nat
    OBVIOUS
  <2>2. PICK i \in T : \A u \in T : ~ (u < i)
    BY <2>1, LeastOf
  <2>3. i \in 0 .. Len(s) /\ ~ Good(i)
    OBVIOUS
  <2>4. i \in 1 .. Len(s) /\ i - 1 \in 0 .. Len(s) /\ i - 1 < i
    BY <1>1, <1>5, <2>3
  <2>5. Good(i - 1)
    BY <2>2, <2>4
  <2>. QED BY <1>6, <2>3, <2>4, <2>5
<1>8. Good(Len(s))
  BY <1>1, <1>7
<1>. QED BY <1>2, <1>8 DEF Good, TookFirst

-----------------------------------------------------------------------------
(* The second invariant.                                                   *)

\* Every message signed is one of at most MaxSends.
Counts ==
    /\ IsFiniteSet(sent)
    /\ Cardinality(sent) <= MaxSends
    /\ \A n \in Peers : vc[n][n] <= Cardinality(sent)

ListsOrdered == \A n \in Peers : Listed(ledger[n])

ResponsesOrdered ==
    \A p \in net :
       p.content.kind = "sync_response" => SenderOrdered(p.content.msgs)

OrderInv == Counts /\ ListsOrdered /\ ResponsesOrdered

\* No message counts more than may be signed.
LEMMA CountsBounded ==
    ASSUME IInv, Counts, NEW x \in sent
    PROVE  Own(x) <= MaxSends
<1>1. x.sender \in Peers /\ Own(x) \in Nat
      /\ Own(x) <= vc[x.sender][x.sender]
  BY DEF IInv, Clocks, Leq, Horizon, Own, Message, VectorClocks
<1>2. vc[x.sender][x.sender] \in Nat
  BY <1>1 DEF IInv, Clocks, VectorClocks
<1>3. Cardinality(sent) \in Nat /\ MaxSends \in Nat
  BY FS_CardinalityType, RoomAssumption DEF Counts
<1>4. vc[x.sender][x.sender] <= Cardinality(sent)
      /\ Cardinality(sent) <= MaxSends
  BY <1>1 DEF Counts
<1>. QED BY <1>1, <1>2, <1>3, <1>4

\* It makes every response replayable.
LEMMA OrderedResponses ==
    ASSUME IInv, OrderInv
    PROVE  ResponseReplayable
<1>1. sent \in SUBSET Message /\ Chained(sent)
  BY DEF IInv, Clocks, Chains
<1>2. ASSUME NEW x \in sent PROVE Own(x) <= MaxSends
  BY CountsBounded DEF OrderInv
<1>3. ASSUME NEW p \in net, p.content.kind = "sync_response"
      PROVE  Replayed(p.content.msgs).verified = Len(p.content.msgs)
  <2>. DEFINE s == p.content.msgs
  <2>1. s \in Seq(sent)
    BY <1>3, ContentsMeaning DEF IInv, Nets
  <2>2. SenderOrdered(s)
    BY <1>3 DEF OrderInv, ResponsesOrdered
  <2>. HIDE DEF s
  <2>3. Replayed(s).verified = Len(s)
    BY <1>1, <1>2, <2>1, <2>2, OrderedReplays
  <2>. QED BY <2>3 DEF s
<1>. QED BY <1>3 DEF ResponseReplayable

\* Signing counts one message more; nothing else counts.
LEMMA CountsKept ==
    ASSUME IInv, IInv', Counts, UNCHANGED <<prevHash, sent>>
    PROVE  Counts'
<1>1. ASSUME NEW n \in Peers PROVE vc'[n][n] = vc[n][n]
  <2>1. vc[n][n] \in Nat /\ vc'[n][n] \in Nat
    BY DEF IInv, Clocks, VectorClocks
  <2>2. prevHash[n] = Nth(n, vc[n][n]) /\ prevHash'[n] = Nth(n, vc'[n][n])
    BY DEF IInv, Chains
  <2>. QED BY <2>1, <2>2, NthDiffers
<1>. QED BY <1>1 DEF Counts

\* main.go:199-208: a signed message is new, and its sender counts it.
LEMMA CountsSigned ==
    ASSUME IInv, Counts, NEW n \in Peers, NEW t \in Threads(n), Sign(n, t)
    PROVE  Counts'
<1>. DEFINE m == NewMessage(n, Increment(vc[n], n), prevHash[n])
            k == vc[n][n]
<1>1. /\ Cardinality(sent) < MaxSends
      /\ vc' = [vc EXCEPT ![n] = m.vc]
      /\ sent' = sent \cup {m}
  BY DEF Sign, NewMessage
<1>2. vc \in [Peers -> VectorClocks] /\ vc[n] \in VectorClocks /\ k \in Nat
  BY DEF IInv, Clocks, VectorClocks
<1>3. m.sender = n /\ m.vc \in VectorClocks /\ m.vc[n] = k + 1
  BY <1>2, IncrementForward DEF NewMessage
<1>4. m \notin sent
  <2>. SUFFICES ASSUME m \in sent PROVE FALSE
    OBVIOUS
  <2>1. Leq(m.vc, Horizon)
    BY DEF IInv, Clocks
  <2>2. m.vc[n] <= k
    BY <2>1 DEF Leq, Horizon
  <2>. QED BY <1>2, <1>3, <2>2
<1>. HIDE DEF m, k
<1>5. /\ Cardinality(sent) \in Nat /\ MaxSends \in Nat
      /\ IsFiniteSet(sent') /\ Cardinality(sent') = Cardinality(sent) + 1
  BY <1>1, <1>4, FS_CardinalityType, FS_AddElement, RoomAssumption DEF Counts
<1>6. ASSUME NEW q \in Peers PROVE vc'[q][q] <= Cardinality(sent')
  <2>1. vc[q][q] \in Nat /\ vc[q][q] <= Cardinality(sent)
    BY <1>2 DEF Counts, VectorClocks
  <2>2. vc'[q] = IF q = n THEN m.vc ELSE vc[q]
    BY <1>1, <1>2
  <2>. QED BY <1>3, <1>5, <2>1, <2>2 DEF k
<1>7. Cardinality(sent') <= MaxSends
  BY <1>1, <1>5
<1>. QED BY <1>5, <1>6, <1>7 DEF Counts

\* Two ledgers with the same list, the same ids and the same clocks.
SameList(l, k) ==
    /\ k.messages = l.messages
    /\ k.ids = l.ids
    /\ k.senderClock = l.senderClock

\* The ledger l became k: at most one signed message was added.
Wrote(l, k) ==
    \/ SameList(l, k)
    \/ \E m \in sent : SameList(AddWithReason(l, m), k)

\* main.go:350-364: acceptMessage writes what AddWithReason writes, and counts.
LEMMA AcceptWrites ==
    ASSUME NEW S \in SUBSET Message, Chained(S), NEW l, BuiltFrom(l, S),
           NEW m \in S
    PROVE  SameList(AddWithReason(l, m), Accept(l, m))
<1>. DEFINE k == AddWithReason(l, m)
            reason == AddReason(l, m)
            r == MarkRejectedReason(k, reason)
<1>1. k \in LedgerRecord
  BY AddBuilds DEF BuiltFrom
<1>2. Accept(l, m) = k \/ Accept(l, m) = r
  BY DEF Accept
<1>. HIDE DEF k, reason
<1>3. /\ r.messages = k.messages /\ r.ids = k.ids
      /\ r.senderClock = k.senderClock
  BY <1>1 DEF MarkRejectedReason, LedgerRecord
<1>. HIDE DEF r
<1>. QED BY <1>2, <1>3 DEF SameList, k

\* A status or a count written into a ledger is not in its list.
LEMMA StatusWrites ==
    ASSUME NEW l \in LedgerRecord, NEW status, NEW n \in Nat
    PROVE  /\ SameList(l, SetSyncStatus(l, status))
           /\ SameList(l, SetSyncStatus(AddRepaired(l, n), status))
BY DEF SameList, SetSyncStatus, AddRepaired, LedgerRecord

\* Every ledger became what it is by at most one addition.
Writes == \A n \in Peers : Wrote(ledger[n], ledger'[n])

\* One peer's ledger is written, the others are not.
LEMMA WroteOne ==
    ASSUME Ledgers, NEW n \in Peers, NEW l, Wrote(ledger[n], l),
           ledger' = [ledger EXCEPT ![n] = l]
    PROVE  Writes
<1>1. \A q \in Peers : ledger'[q] = IF q = n THEN l ELSE ledger[q]
  BY DEF Ledgers
<1>. QED BY <1>1 DEF Wrote, SameList, Writes

\* A step adds at most one message to each ledger, and a signed one.
LEMMA NextWrites ==
    ASSUME IInv, [Next]_vars
    PROVE  Writes
<1>1. /\ sent \in SUBSET Message /\ Chained(sent)
      /\ \A n \in Peers : /\ BuiltFrom(ledger[n], sent)
                          /\ ledger[n] \in LedgerRecord
  BY DEF IInv, Clocks, Chains, Ledgers
<1>2. CASE UNCHANGED ledger
  BY <1>2 DEF Wrote, SameList, Writes
<1>3. ASSUME NEW n \in Peers, NEW t \in Threads(n), AddOwn(n, t)
      PROVE  Writes
  <2>. DEFINE m == sending[n][t].msg
              l == AddWithReason(ledger[n], m)
  <2>1. sending[n][t].pc = "published" /\ ledger' = [ledger EXCEPT ![n] = l]
    BY <1>3 DEF AddOwn
  <2>2. m \in sent
    BY <2>1, SigningMessage DEF IInv
  <2>3. Wrote(ledger[n], l)
    BY <2>2 DEF Wrote, SameList
  <2>. HIDE DEF l
  <2>. QED BY <2>1, <2>3, WroteOne DEF IInv
<1>4. ASSUME NEW n \in Peers, AcceptLive(n) PROVE Writes
  <2>. DEFINE m == Head(messages[n])
              l == Accept(ledger[n], m)
  <2>1. messages[n] # << >> /\ ledger' = [ledger EXCEPT ![n] = l]
    BY <1>4 DEF AcceptLive
  <2>2. m \in sent
    BY <2>1, ChannelRead DEF IInv, Channels
  <2>. HIDE DEF m
  <2>3. Wrote(ledger[n], l)
    BY <1>1, <2>2, AcceptWrites DEF Wrote
  <2>. HIDE DEF l
  <2>. QED BY <2>1, <2>3, WroteOne DEF IInv
<1>5. ASSUME NEW n \in Peers, RepairAdd(n) PROVE Writes
  <2>. DEFINE r == repair[n]
              m == r.msgs[r.done + 1]
              l == Accept(ledger[n], m)
  <2>1. r.done < Len(r.msgs) /\ ledger' = [ledger EXCEPT ![n] = l]
    BY <1>5 DEF RepairAdd
  <2>2. r.msgs \in Seq(sent) /\ Len(r.msgs) \in Nat /\ r.done \in Nat
    BY RepairFields DEF IInv
  <2>3. m \in sent
    <3>1. r.done + 1 \in 1 .. Len(r.msgs)
      BY <2>1, <2>2
    <3>. QED BY <2>2, <3>1
  <2>. HIDE DEF r, m
  <2>4. Wrote(ledger[n], l)
    BY <1>1, <2>3, AcceptWrites DEF Wrote
  <2>. HIDE DEF l
  <2>. QED BY <2>1, <2>4, WroteOne DEF IInv
<1>6. ASSUME NEW n \in Peers, FinishRepair(n) PROVE Writes
  <2>. DEFINE c == repair[n].repaired
              st == IF c > 0 THEN "repaired" ELSE "idle"
              l == SetSyncStatus(AddRepaired(ledger[n], c), st)
  <2>1. ledger' = [ledger EXCEPT ![n] = l]
    BY <1>6 DEF FinishRepair
  <2>2. c \in Nat
    BY RepairFields DEF IInv
  <2>. HIDE DEF c, st
  <2>3. Wrote(ledger[n], l)
    BY <1>1, <2>2, StatusWrites DEF Wrote
  <2>. HIDE DEF l
  <2>. QED BY <2>1, <2>3, WroteOne DEF IInv
<1>7. ASSUME NEW n \in Peers, NEW st,
             ledger' = [ledger EXCEPT ![n] = SetSyncStatus(ledger[n], st)]
      PROVE  Writes
  <2>. DEFINE l == SetSyncStatus(ledger[n], st)
  <2>1. Wrote(ledger[n], l)
    <3>1. 0 \in Nat
      OBVIOUS
    <3>. QED BY <1>1, <3>1, StatusWrites DEF Wrote
  <2>2. ledger' = [ledger EXCEPT ![n] = l]
    BY <1>7
  <2>. HIDE DEF l
  <2>. QED BY <2>1, <2>2, WroteOne DEF IInv
<1>8. ASSUME NEW n \in Peers, Join(n) PROVE Writes
  BY <1>2, <1>8 DEF Join, nodeVars
<1>9. ASSUME NEW n \in Peers, Send(n) PROVE Writes
  BY <1>2, <1>3, <1>9 DEF Send, Sign, Publish, PublishFails, nodeVars
<1>10. ASSUME NEW n \in Peers, MessagesRelay(n) PROVE Writes
  BY <1>2, <1>4, <1>10 DEF MessagesRelay, MergeLive
<1>11. ASSUME NEW n \in Peers, ControlsRelay(n) PROVE Writes
  BY <1>2, <1>5, <1>6, <1>7, <1>11
     DEF ControlsRelay, AnswerRequest, StartRepair, RepairMerge, nodeVars
<1>12. ASSUME NEW n \in Peers, Sync(n) PROVE Writes
  BY <1>2, <1>7, <1>12
     DEF Sync, RequestSync, PublishRequest, TimerReads, TimerSetsIdle, nodeVars
<1>13. ASSUME NEW p \in net, Receive(p) PROVE Writes
  BY <1>2, <1>13 DEF Receive, nodeVars
<1>14. CASE UNCHANGED vars
  BY <1>2, <1>14 DEF vars, nodeVars
<1>. QED
  BY <1>8, <1>9, <1>10, <1>11, <1>12, <1>13, <1>14 DEF Next

\* Whatever a step writes into a ledger keeps the list in order.
LEMMA NextLists ==
    ASSUME IInv, ListsOrdered, [Next]_vars
    PROVE  ListsOrdered'
<1>. SUFFICES ASSUME NEW n \in Peers PROVE Listed(ledger'[n])
  BY DEF ListsOrdered
<1>1. CASE SameList(ledger[n], ledger'[n])
  BY <1>1, ListedSame DEF ListsOrdered, SameList
<1>2. ASSUME NEW m \in sent, SameList(AddWithReason(ledger[n], m), ledger'[n])
      PROVE  Listed(ledger'[n])
  <2>1. Listed(AddWithReason(ledger[n], m))
    BY AddListed DEF IInv, Clocks, Chains, Ledgers, ListsOrdered
  <2>. QED BY <1>2, <2>1, ListedSame DEF SameList
<1>. QED BY <1>1, <1>2, NextWrites DEF Wrote, Writes

\* Packets to the other subscribers, none of them an unordered response.
LEMMA ResponsesSent ==
    ASSUME ResponsesOrdered, NEW n \in Peers, NEW c,
           c.kind = "sync_response" => SenderOrdered(c.msgs),
           net' = net \cup Packets(n, c)
    PROVE  ResponsesOrdered'
<1>1. \A p \in Packets(n, c) : p.content = c
  BY DEF Packets
<1>. QED BY <1>1 DEF ResponsesOrdered

\* A response is taken from a list in order.
LEMMA NextResponses ==
    ASSUME IInv, ListsOrdered, ResponsesOrdered, [Next]_vars
    PROVE  ResponsesOrdered'
<1>1. CASE UNCHANGED net
  BY <1>1 DEF ResponsesOrdered
<1>2. ASSUME NEW n \in Peers, NEW t \in Threads(n), Publish(n, t)
      PROVE  ResponsesOrdered'
  <2>. DEFINE c == Chat(sending[n][t].msg)
  <2>1. net' = net \cup Packets(n, c) /\ c.kind # "sync_response"
    BY <1>2 DEF Publish, Chat
  <2>. HIDE DEF c
  <2>. QED BY <2>1, ResponsesSent
<1>3. ASSUME NEW n \in Peers, AnswerRequest(n) PROVE ResponsesOrdered'
  <2>. DEFINE missing == MissingFrom(ledger[n], Head(controls[n]).known,
                                     SyncLimit)
              c == Response(missing)
  <2>1. net' = net \cup Packets(n, c) \/ net' = net
    BY <1>3 DEF AnswerRequest
  <2>2. SenderOrdered(missing)
    <3>1. ledger[n].messages \in Seq(sent) /\ SyncLimit \in Nat
          /\ SenderOrdered(ledger[n].messages)
      BY RoomAssumption DEF IInv, Ledgers, BuiltFrom, ListsOrdered, Listed
    <3>. QED BY <3>1, MissingFromOrdered
  <2>. HIDE DEF missing
  <2>3. c.msgs = missing
    BY DEF Response
  <2>. HIDE DEF c
  <2>. QED BY <1>1, <2>1, <2>2, <2>3, ResponsesSent
<1>4. ASSUME NEW n \in Peers, PublishRequest(n) PROVE ResponsesOrdered'
  <2>. DEFINE c == Request(IDs(ledger[n]))
  <2>1. net' = net \cup Packets(n, c) /\ c.kind # "sync_response"
    BY <1>4 DEF PublishRequest, Request
  <2>. HIDE DEF c
  <2>. QED BY <2>1, ResponsesSent
<1>5. ASSUME NEW p \in net, Receive(p) PROVE ResponsesOrdered'
  <2>1. net' \subseteq net
    BY <1>5 DEF Receive
  <2>. QED BY <2>1 DEF ResponsesOrdered
<1>6. ASSUME NEW n \in Peers, Join(n) PROVE ResponsesOrdered'
  BY <1>1, <1>6 DEF Join, topicVars
<1>7. ASSUME NEW n \in Peers, Send(n) PROVE ResponsesOrdered'
  BY <1>1, <1>2, <1>7 DEF Send, Sign, PublishFails, AddOwn, topicVars
<1>8. ASSUME NEW n \in Peers, MessagesRelay(n) PROVE ResponsesOrdered'
  BY <1>1, <1>8 DEF MessagesRelay, AcceptLive, MergeLive, topicVars
<1>9. ASSUME NEW n \in Peers, ControlsRelay(n) PROVE ResponsesOrdered'
  BY <1>1, <1>3, <1>9
     DEF ControlsRelay, StartRepair, RepairAdd, RepairMerge, FinishRepair,
         topicVars
<1>10. ASSUME NEW n \in Peers, Sync(n) PROVE ResponsesOrdered'
  BY <1>1, <1>4, <1>10
     DEF Sync, RequestSync, TimerReads, TimerSetsIdle, topicVars
<1>11. CASE UNCHANGED vars
  BY <1>1, <1>11 DEF vars, topicVars
<1>. QED BY <1>5, <1>6, <1>7, <1>8, <1>9, <1>10, <1>11 DEF Next

\* Only signing counts.
LEMMA NextCounts ==
    ASSUME IInv, IInv', Counts, [Next]_vars
    PROVE  Counts'
<1>1. CASE UNCHANGED <<prevHash, sent>>
  BY <1>1, CountsKept
<1>2. ASSUME NEW n \in Peers, Join(n) PROVE Counts'
  BY <1>1, <1>2 DEF Join, nodeVars
<1>3. ASSUME NEW n \in Peers, Send(n) PROVE Counts'
  BY <1>1, <1>3, CountsSigned DEF Send, Publish, PublishFails, AddOwn, nodeVars
<1>4. ASSUME NEW n \in Peers, MessagesRelay(n) PROVE Counts'
  BY <1>1, <1>4 DEF MessagesRelay, AcceptLive, MergeLive
<1>5. ASSUME NEW n \in Peers, ControlsRelay(n) PROVE Counts'
  BY <1>1, <1>5
     DEF ControlsRelay, AnswerRequest, StartRepair, RepairAdd, RepairMerge,
         FinishRepair, nodeVars
<1>6. ASSUME NEW n \in Peers, Sync(n) PROVE Counts'
  BY <1>1, <1>6
     DEF Sync, RequestSync, PublishRequest, TimerReads, TimerSetsIdle, nodeVars
<1>7. ASSUME NEW p \in net, Receive(p) PROVE Counts'
  BY <1>1, <1>7 DEF Receive, nodeVars
<1>8. CASE UNCHANGED vars
  BY <1>1, <1>8 DEF vars, nodeVars
<1>. QED BY <1>2, <1>3, <1>4, <1>5, <1>6, <1>7, <1>8 DEF Next

\* Before anybody joined nothing is listed or answered.
LEMMA InitOrder == Init => OrderInv
<1>. SUFFICES ASSUME Init PROVE OrderInv
  OBVIOUS
<1>1. Counts
  <2>1. \A n \in Peers : vc[n][n] = 0
    BY DEF Init, New
  <2>2. sent = {}
    BY DEF Init
  <2>. QED BY <2>1, <2>2, FS_EmptySet, RoomAssumption DEF Counts
<1>2. ListsOrdered
  <2>1. NewLedger.messages = << >>
    BY DEF NewLedger
  <2>2. Listed(NewLedger)
    <3>. DEFINE l == NewLedger
    <3>. HIDE DEF l
    <3>1. l.messages = << >>
      BY <2>1 DEF l
    <3>2. 1 .. Len(l.messages) = {}
      BY <3>1
    <3>3. Listed(l)
      BY <3>2 DEF Listed, SenderOrdered
    <3>. QED BY <3>3 DEF l
  <2>. QED BY <2>2 DEF Init, ListsOrdered
<1>3. ResponsesOrdered
  BY DEF Init, ResponsesOrdered
<1>. QED BY <1>1, <1>2, <1>3 DEF OrderInv

\* The second invariant holds in every reachable state.
THEOREM Ordered == Spec => []OrderInv
<1>1. IInv /\ IInv' /\ OrderInv /\ [Next]_vars => OrderInv'
  BY NextCounts, NextLists, NextResponses DEF OrderInv
<1>. QED BY <1>1, InitOrder, Invariance, PTL DEF Spec

-----------------------------------------------------------------------------
(* Replicas of two senders' messages agree.                                *)

\* No three of the messages of S come from three senders.
TwoSenders(S) ==
    \A x, y, z \in S :
       x.sender = y.sender \/ y.sender = z.sender \/ x.sender = z.sender

\* No two messages of S have the same clock.
Apart(S) == \A x, y \in S : x.vc = y.vc => x = y

\* What honest peers signed: chains with closed clocks, each its own.
Signed(S) == Chained(S) /\ Apart(S) /\ \A x \in S : Closed(S, x.vc)

\* Every message of s is less than every later one.
Increasing(s) == \A i, j \in 1 .. Len(s) : i < j => Less(s[i], s[j])

\* x happened before y.
Before(x, y) == x # y /\ Leq(x.vc, y.vc)

\* vector.go:60-87: happened-before is a partial order of the messages.
LEMMA BeforeOrder ==
    ASSUME NEW S \in SUBSET Message, Signed(S),
           NEW x \in S, NEW y \in S, NEW z \in S
    PROVE  /\ ~ (Before(x, y) /\ Before(y, x))
           /\ Before(x, y) /\ Before(y, z) => Before(x, z)
<1>1. x.vc \in VectorClocks /\ y.vc \in VectorClocks /\ z.vc \in VectorClocks
  BY DEF Message
<1>2. ~ (Before(x, y) /\ Before(y, x))
  BY <1>1, CompareMeaning DEF Before, Signed, Apart
<1>3. Leq(x.vc, y.vc) /\ Leq(y.vc, z.vc) => Leq(x.vc, z.vc)
  BY <1>1, LeqOrder
<1>. QED BY <1>2, <1>3 DEF Before

\* ledger.go:237-257: the order of signed messages is happened-before and,
\* between concurrent ones, the order of the senders.
LEMMA LessOfSigned ==
    ASSUME NEW S \in SUBSET Message, Signed(S), NEW x \in S, NEW y \in S
    PROVE  /\ Less(x, y) <=> \/ Before(x, y)
                             \/ ~ Before(y, x) /\ x.sender < y.sender
           /\ x.sender = y.sender /\ x # y => Before(x, y) \/ Before(y, x)
<1>1. /\ x.vc \in VectorClocks /\ y.vc \in VectorClocks
      /\ x.sender \in Nat /\ y.sender \in Nat /\ x.id \in Nat
      /\ Own(x) \in Nat /\ Own(y) \in Nat
  BY PeersAssumption DEF Message, VectorClocks, Own
<1>2. x.sender = y.sender /\ x # y => Before(x, y) \/ Before(y, x)
  BY <1>1 DEF Signed, Closed, Own, Before
<1>3. /\ Compare(x.vc, y.vc) = "before" <=> Before(x, y)
      /\ Compare(x.vc, y.vc) = "after" <=> Before(y, x)
      /\ Compare(x.vc, y.vc) = "equal" <=> x = y
      /\ Compare(x.vc, y.vc) \in {"before", "after", "equal", "concurrent"}
  BY <1>1, CompareMeaning DEF Before, Signed, Apart
<1>4. CASE x = y
  <2>1. ~ Less(x, y) /\ ~ Before(x, y)
    BY <1>1, <1>3, <1>4 DEF Less, Before
  <2>. QED BY <1>1, <1>4, <2>1
<1>5. CASE x # y
  <2>1. ~ (Before(x, y) /\ Before(y, x))
    BY BeforeOrder
  <2>. QED BY <1>1, <1>2, <1>3, <1>5, <2>1 DEF Less
<1>. QED BY <1>2, <1>4, <1>5

\* Of two different messages one is less.
LEMMA LessTotal ==
    ASSUME NEW S \in SUBSET Message, Signed(S), NEW x \in S, NEW y \in S, x # y
    PROVE  Less(x, y) \/ Less(y, x)
<1>1. x.sender \in Nat /\ y.sender \in Nat
  BY PeersAssumption DEF Message
<1>2. x.sender = y.sender \/ x.sender < y.sender \/ y.sender < x.sender
  BY <1>1
<1>. QED BY <1>2, LessOfSigned

\* A cycle of three would have to be one of three senders.
LEMMA NoCycle ==
    ASSUME NEW S \in SUBSET Message, Signed(S),
           NEW x \in S, NEW y \in S, NEW z \in S, x.sender = y.sender,
           Less(x, y), Less(y, z)
    PROVE  ~ Less(z, x)
<1>1. x.sender \in Nat /\ z.sender \in Nat
  BY PeersAssumption DEF Message
<1>2. Before(x, y)
  BY <1>1, LessOfSigned
<1>3. \/ Before(y, z)
      \/ ~ Before(z, y) /\ y.sender < z.sender
  BY LessOfSigned
<1>4. CASE Before(y, z)
  <2>1. Before(x, z) /\ ~ Before(z, x)
    BY <1>2, <1>4, BeforeOrder
  <2>. QED BY <2>1, LessOfSigned
<1>5. CASE ~ Before(z, y) /\ y.sender < z.sender
  <2>1. ~ Before(z, x)
    BY <1>2, <1>5, BeforeOrder
  <2>2. ~ (z.sender < x.sender)
    BY <1>1, <1>5
  <2>. QED BY <2>1, <2>2, LessOfSigned
<1>. QED BY <1>3, <1>4, <1>5

\* Of two senders' messages the order is transitive.
LEMMA LessTransitive ==
    ASSUME NEW S \in SUBSET Message, Signed(S), TwoSenders(S),
           NEW x \in S, NEW y \in S, NEW z \in S, Less(x, y), Less(y, z)
    PROVE  Less(x, z)
<1>1. ~ Less(z, x)
  <2>. SUFFICES ASSUME Less(z, x) PROVE FALSE
    OBVIOUS
  <2>1. x.sender = y.sender \/ y.sender = z.sender \/ x.sender = z.sender
    BY DEF TwoSenders
  <2>2. CASE x.sender = y.sender
    BY <2>2, NoCycle
  <2>3. CASE y.sender = z.sender
    BY <2>3, NoCycle
  <2>4. CASE z.sender = x.sender
    BY <2>4, NoCycle
  <2>. QED BY <2>1, <2>2, <2>3, <2>4
<1>2. x # z
  <2>1. x \in Message /\ y \in Message
    OBVIOUS
  <2>. QED BY <2>1, LessAsymmetric
<1>. QED BY <1>1, <1>2, LessTotal

\* ledger.go:97-98: the sorted insertion keeps such a list increasing.
LEMMA SortedIncreasing ==
    ASSUME NEW S \in SUBSET Message, Signed(S), TwoSenders(S),
           NEW s \in Seq(S), NEW m \in S, Increasing(s),
           \A i \in 1 .. Len(s) : s[i] # m
    PROVE  Increasing(Sorted(s, m))
<1>. DEFINE t == Sorted(s, m)
            k == InsertPosition(s, m)
<1>1. t \in Seq(S) /\ InsertedAt(s, m, t, k)
  BY SortedElements
<1>. HIDE DEF t, k
<1>2. /\ Len(s) \in Nat /\ k \in 0 .. Len(s) /\ Len(t) = Len(s) + 1
      /\ t[k + 1] = m
  BY <1>1 DEF InsertedAt
<1>3. \A i \in 1 .. Len(t) :
         i # k + 1 => Old(k, i) \in 1 .. Len(s) /\ t[i] = s[Old(k, i)]
  BY <1>1, InsertedOld
<1>4. ASSUME NEW j \in 1 .. Len(s), j > k PROVE Less(m, s[j])
  BY <1>1, <1>4 DEF InsertedAt
<1>5. ASSUME NEW j \in 1 .. Len(s), j <= k PROVE Less(s[j], m)
  <2>1. k \in 1 .. Len(s) /\ k > 0
    BY <1>2, <1>5
  <2>2. ~ Less(m, s[k])
    BY <1>1, <2>1 DEF InsertedAt
  <2>3. s[k] \in S /\ s[j] \in S
    BY <2>1
  <2>4. Less(s[k], m)
    BY <2>1, <2>2, <2>3, LessTotal
  <2>5. j = k \/ Less(s[j], s[k])
    BY <1>5, <2>1 DEF Increasing
  <2>. QED BY <2>3, <2>4, <2>5, LessTransitive
<1>. SUFFICES ASSUME NEW i \in 1 .. Len(t), NEW j \in 1 .. Len(t), i < j
              PROVE  Less(t[i], t[j])
  BY DEF Increasing, t
<1>6. CASE i # k + 1 /\ j # k + 1
  <2>1. Old(k, i) < Old(k, j)
    BY <1>2, <1>6 DEF Old
  <2>. QED BY <1>3, <1>6, <2>1 DEF Increasing
<1>7. CASE j = k + 1
  <2>1. i # k + 1 /\ Old(k, i) <= k
    BY <1>2, <1>7 DEF Old
  <2>. QED BY <1>2, <1>3, <1>5, <1>7, <2>1
<1>8. CASE i = k + 1
  <2>1. j # k + 1 /\ Old(k, j) > k
    BY <1>2, <1>8 DEF Old
  <2>. QED BY <1>2, <1>3, <1>4, <1>8, <2>1
<1>. QED BY <1>6, <1>7, <1>8

\* ledger.go:99-105: so does eviction.
LEMMA TrimIncreasing ==
    ASSUME NEW S, NEW t \in Seq(S), Increasing(t)
    PROVE  Increasing(Trim(t))
<1>. DEFINE u == Trim(t)
<1>1. u \in Seq(S) /\ \E d \in Nat : DroppedFirst(t, u, d)
  BY TrimElements
<1>. HIDE DEF u
<1>2. PICK d \in Nat : DroppedFirst(t, u, d)
  BY <1>1
<1>3. /\ Len(t) \in Nat /\ d \in 0 .. Len(t) /\ Len(u) = Len(t) - d
      /\ \A i \in 1 .. Len(u) : u[i] = t[i + d]
  BY <1>2 DEF DroppedFirst
<1>. SUFFICES ASSUME NEW i \in 1 .. Len(u), NEW j \in 1 .. Len(u), i < j
              PROVE  Less(u[i], u[j])
  BY DEF Increasing, u
<1>4. i + d \in 1 .. Len(t) /\ j + d \in 1 .. Len(t) /\ i + d < j + d
  BY <1>3
<1>. QED BY <1>3, <1>4 DEF Increasing

\* ledger.go:57-108: and so does AddWithReason.
LEMMA AddIncreasing ==
    ASSUME NEW S \in SUBSET Message, Signed(S), TwoSenders(S),
           NEW l, BuiltFrom(l, S), Listed(l), Increasing(l.messages),
           NEW m \in S
    PROVE  Increasing(AddWithReason(l, m).messages)
<1>. DEFINE k == AddWithReason(l, m)
            s == l.messages
<1>1. /\ l \in LedgerRecord /\ m \in Message /\ m.vc[m.sender] > 0
      /\ s \in Seq(S) /\ l.senderClock \in VectorClocks
  BY DEF BuiltFrom, Signed, Chained, Own, LedgerRecord
<1>2. CASE AddReason(l, m) # NoReason
  <2>1. k.messages = l.messages
    BY <1>1, <1>2, Refused
  <2>. QED BY <2>1
<1>3. CASE AddReason(l, m) = NoReason
  <2>1. k.messages = Trim(Sorted(s, m)) /\ ~ Regression(l, m)
    BY <1>1, <1>3, AcceptedFields
  <2>2. Own(m) \in Nat /\ Own(m) = m.vc[m.sender]
        /\ l.senderClock[m.sender] \in Nat
    BY <1>1 DEF Own, Message, VectorClocks
  <2>3. l.senderClock[m.sender] < Own(m)
    BY <1>1, <2>1, <2>2 DEF Regression
  <2>4. ASSUME NEW i \in 1 .. Len(s) PROVE s[i] # m
    BY <2>2, <2>3 DEF Listed
  <2>5. Increasing(s)
    OBVIOUS
  <2>. HIDE DEF s
  <2>6. Sorted(s, m) \in Seq(S) /\ Increasing(Sorted(s, m))
    BY <1>1, <2>4, <2>5, SortedElements, SortedIncreasing
  <2>. QED BY <2>1, <2>6, TrimIncreasing
<1>. QED BY <1>2, <1>3

\* Position by position: what s lists at i, t lists at i.
LEMMA IncreasingPrefix ==
    ASSUME NEW S \in SUBSET Message, NEW s \in Seq(S), NEW t \in Seq(S),
           Increasing(s), Increasing(t),
           \A i \in 1 .. Len(s) : \E j \in 1 .. Len(t) : s[i] = t[j],
           \A j \in 1 .. Len(t) : \E i \in 1 .. Len(s) : t[j] = s[i]
    PROVE  /\ Len(s) <= Len(t)
           /\ \A i \in 1 .. Len(s) : s[i] = t[i]
<1>1. Len(s) \in Nat /\ Len(t) \in Nat
  OBVIOUS
<1>. DEFINE T == {i \in 1 .. Len(s) : ~ (i <= Len(t) /\ s[i] = t[i])}
<1>2. T = {}
  <2>. SUFFICES ASSUME T # {} PROVE FALSE
    OBVIOUS
  <2>1. T \in SUBSET Nat
    OBVIOUS
  <2>2. PICK i \in T : \A u \in T : ~ (u < i)
    BY <2>1, LeastOf
  <2>3. i \in 1 .. Len(s) /\ ~ (i <= Len(t) /\ s[i] = t[i])
    OBVIOUS
  <2>4. \A k \in 1 .. Len(s) : k < i => k <= Len(t) /\ s[k] = t[k]
    BY <2>2
  <2>. HIDE DEF T
  <2>5. \A a \in Message : ~ Less(a, a)
    BY LessAsymmetric
  <2>6. /\ \A k \in 1 .. Len(s) : s[k] \in Message
        /\ \A k \in 1 .. Len(t) : t[k] \in Message
    OBVIOUS
  <2>7. PICK j \in 1 .. Len(t) : s[i] = t[j]
    BY <2>3
  <2>8. ~ (j < i)
    <3>. SUFFICES ASSUME j < i PROVE FALSE
      OBVIOUS
    <3>1. j \in 1 .. Len(s)
      BY <1>1, <2>3
    <3>2. s[j] = s[i]
      BY <2>4, <2>7, <3>1
    <3>3. Less(s[j], s[i])
      BY <2>3, <3>1 DEF Increasing
    <3>. QED BY <2>5, <2>6, <3>1, <3>2, <3>3
  <2>9. j # i
    BY <2>3, <2>7
  <2>10. i < j /\ i \in 1 .. Len(t)
    BY <1>1, <2>3, <2>8, <2>9
  <2>11. PICK k \in 1 .. Len(s) : t[i] = s[k]
    BY <2>10
  <2>12. Less(t[i], t[j])
    BY <2>10 DEF Increasing
  <2>13. ~ (k < i)
    <3>. SUFFICES ASSUME k < i PROVE FALSE
      OBVIOUS
    <3>1. k \in 1 .. Len(t) /\ t[k] = t[i]
      BY <2>4, <2>10, <2>11
    <3>2. Less(t[k], t[i])
      BY <2>10, <3>1 DEF Increasing
    <3>. QED BY <2>5, <2>6, <2>10, <3>1, <3>2
  <2>14. k # i
    BY <2>3, <2>10, <2>11
  <2>15. Less(s[i], s[k])
    BY <2>3, <2>13, <2>14 DEF Increasing
  <2>16. Less(t[j], t[i])
    BY <2>7, <2>11, <2>15
  <2>. QED BY <2>6, <2>10, <2>12, <2>16, LessAsymmetric
<1>3. \A i \in 1 .. Len(s) : i <= Len(t) /\ s[i] = t[i]
  BY <1>2
<1>4. Len(s) <= Len(t)
  <2>1. CASE Len(s) = 0
    BY <1>1, <2>1
  <2>2. CASE Len(s) # 0
    <3>1. Len(s) \in 1 .. Len(s)
      BY <1>1, <2>2
    <3>. QED BY <1>3, <3>1
  <2>. QED BY <2>1, <2>2
<1>. QED BY <1>3, <1>4

\* Two increasing lists of the same messages are the same list.
LEMMA IncreasingAgree ==
    ASSUME NEW S \in SUBSET Message, NEW s \in Seq(S), NEW t \in Seq(S),
           Increasing(s), Increasing(t), ToSet(s) = ToSet(t)
    PROVE  s = t
<1>1. /\ Len(s) \in Nat /\ Len(t) \in Nat
      /\ DOMAIN s = 1 .. Len(s) /\ DOMAIN t = 1 .. Len(t)
  OBVIOUS
<1>2. /\ \A i \in 1 .. Len(s) : \E j \in 1 .. Len(t) : s[i] = t[j]
      /\ \A j \in 1 .. Len(t) : \E i \in 1 .. Len(s) : t[j] = s[i]
  BY <1>1 DEF ToSet
<1>3. Len(s) <= Len(t) /\ Len(t) <= Len(s)
      /\ \A i \in 1 .. Len(s) : s[i] = t[i]
  BY <1>2, IncreasingPrefix
<1>4. Len(s) = Len(t)
  <2>. DEFINE a == Len(s)
              b == Len(t)
  <2>1. a \in Nat /\ b \in Nat /\ a <= b /\ b <= a
    BY <1>1, <1>3
  <2>. HIDE DEF a, b
  <2>2. a = b
    BY <2>1
  <2>. QED BY <2>2 DEF a, b
<1>. QED BY <1>3, <1>4

-----------------------------------------------------------------------------
(* The third invariant.                                                    *)

\* No two signed messages have the same clock, and while at most two peers have
\* signed anything every list increases.
AgreeInv ==
    /\ Apart(sent)
    /\ TwoSenders(sent) => \A n \in Peers : Increasing(ledger[n].messages)

\* Only signing adds to what was sent.
LEMMA NextSigns ==
    ASSUME [Next]_vars
    PROVE  UNCHANGED sent \/ \E n \in Peers : \E t \in Threads(n) : Sign(n, t)
<1>1. ASSUME NEW n \in Peers, Join(n) PROVE UNCHANGED sent
  BY <1>1 DEF Join
<1>2. ASSUME NEW n \in Peers, Send(n)
      PROVE  UNCHANGED sent \/ \E t \in Threads(n) : Sign(n, t)
  BY <1>2 DEF Send, Publish, PublishFails, AddOwn
<1>3. ASSUME NEW n \in Peers, MessagesRelay(n) PROVE UNCHANGED sent
  BY <1>3 DEF MessagesRelay, AcceptLive, MergeLive
<1>4. ASSUME NEW n \in Peers, ControlsRelay(n) PROVE UNCHANGED sent
  BY <1>4 DEF ControlsRelay, AnswerRequest, StartRepair, RepairAdd,
              RepairMerge, FinishRepair
<1>5. ASSUME NEW n \in Peers, Sync(n) PROVE UNCHANGED sent
  BY <1>5 DEF Sync, RequestSync, PublishRequest, TimerReads, TimerSetsIdle
<1>6. ASSUME NEW p \in net, Receive(p) PROVE UNCHANGED sent
  BY <1>6 DEF Receive
<1>7. CASE UNCHANGED vars
  BY <1>7 DEF vars
<1>. QED BY <1>1, <1>2, <1>3, <1>4, <1>5, <1>6, <1>7 DEF Next

\* main.go:199-208: nobody's clock counts a message that is being signed.
LEMMA NextApart ==
    ASSUME IInv, Apart(sent), [Next]_vars
    PROVE  Apart(sent') /\ sent \subseteq sent'
<1>1. CASE UNCHANGED sent
  BY <1>1
<1>2. ASSUME NEW n \in Peers, NEW t \in Threads(n), Sign(n, t)
      PROVE  Apart(sent') /\ sent \subseteq sent'
  <2>. DEFINE m == NewMessage(n, Increment(vc[n], n), prevHash[n])
  <2>1. sent' = sent \cup {m}
    BY <1>2 DEF Sign
  <2>2. vc[n] \in VectorClocks /\ vc[n][n] \in Nat
    BY DEF IInv, Clocks, VectorClocks
  <2>3. m.vc[n] = vc[n][n] + 1
    BY <2>2, IncrementForward DEF NewMessage
  <2>. HIDE DEF m
  <2>4. ASSUME NEW x \in sent PROVE x.vc # m.vc
    <3>1. x.vc[n] <= vc[n][n]
      BY DEF IInv, Clocks, Leq, Horizon
    <3>. QED BY <2>2, <2>3, <3>1
  <2>. QED BY <2>1, <2>4 DEF Apart
<1>. QED BY <1>1, <1>2, NextSigns

\* What is added to an increasing list is a signed message, and sorted into it.
LEMMA NextAgrees ==
    ASSUME IInv, OrderInv, AgreeInv, [Next]_vars
    PROVE  AgreeInv'
<1>1. Apart(sent') /\ sent \subseteq sent'
  BY NextApart DEF AgreeInv
<1>2. /\ sent \in SUBSET Message /\ Signed(sent)
      /\ \A n \in Peers : BuiltFrom(ledger[n], sent) /\ Listed(ledger[n])
  BY DEF IInv, Clocks, Chains, Ledgers, OrderInv, ListsOrdered, AgreeInv, Signed
<1>3. ASSUME TwoSenders(sent'), NEW n \in Peers
      PROVE  Increasing(ledger'[n].messages)
  <2>1. TwoSenders(sent)
    BY <1>1, <1>3 DEF TwoSenders
  <2>2. Increasing(ledger[n].messages)
    BY <2>1 DEF AgreeInv
  <2>3. CASE SameList(ledger[n], ledger'[n])
    BY <2>2, <2>3 DEF SameList
  <2>4. ASSUME NEW m \in sent,
               SameList(AddWithReason(ledger[n], m), ledger'[n])
        PROVE  Increasing(ledger'[n].messages)
    <3>1. Increasing(AddWithReason(ledger[n], m).messages)
      BY <1>2, <2>1, <2>2, AddIncreasing
    <3>. QED BY <2>4, <3>1 DEF SameList
  <2>. QED BY <2>3, <2>4, NextWrites DEF Wrote, Writes
<1>. QED BY <1>1, <1>3 DEF AgreeInv

-----------------------------------------------------------------------------
(* What a peer hears.                                                      *)

\* The guards of ledger l remember what peer n took: its clock map counts all
\* it decided on and nothing it did not take, its ids and its list name
\* nothing else.
Remembers(l, taken, n) ==
    /\ \A x \in Decided(taken, n) : Own(x) <= l.senderClock[x.sender]
    /\ \A p \in Peers :
          \/ l.senderClock[p] = 0
          \/ \E x \in taken : x.sender = p /\ Own(x) = l.senderClock[p]
    /\ \A d \in l.ids :
          \E x \in taken : x.id = d /\ Own(x) <= l.senderClock[x.sender]
    /\ \A i \in 1 .. Len(l.messages) : l.messages[i] \in taken

\* What a goroutine is sending is its peer's own, and the last the peer signed
\* unless the peer has another goroutine that signs.
SendsOwn ==
    \A n \in Peers : \A t \in Threads(n) :
       sending[n][t].pc \in {"signed", "published"} =>
          /\ sending[n][t].msg.sender = n
          /\ n \notin Personas => Own(sending[n][t].msg) = vc[n][n]

\* Every peer's last message is among those signed.
LastSent ==
    \A n \in Peers :
       vc[n][n] > 0 => \E x \in sent : x.sender = n /\ Own(x) = vc[n][n]

HeardInv ==
    /\ \A n \in Peers : Remembers(ledger[n], Taken(n), n)
    /\ SendsOwn
    /\ LastSent

\* Two signed messages of one sender with one count are one message.
LEMMA SameMessage ==
    ASSUME NEW S \in SUBSET Message, Chained(S),
           \A x \in S : Closed(S, x.vc),
           NEW x \in S, NEW y \in S, x.sender = y.sender, Own(x) = Own(y)
    PROVE  x = y
<1>1. Leq(x.vc, y.vc) /\ Leq(y.vc, x.vc)
  BY DEF Closed, Own, Message, VectorClocks
<1>2. /\ x.vc \in VectorClocks /\ y.vc \in VectorClocks
      /\ \A p \in Peers : x.vc[p] = y.vc[p]
  BY <1>1 DEF Leq, Message, VectorClocks
<1>3. x.vc = y.vc
  BY <1>2 DEF VectorClocks
<1>4. x.id = y.id /\ x.prevHash = y.prevHash
  BY DEF Chained
<1>. QED BY <1>3, <1>4 DEF Message

\* Only signed messages are taken.
LEMMA TakenSent ==
    ASSUME IInv, NEW n \in Peers
    PROVE  Taken(n) \subseteq sent
<1>1. shown[n] \subseteq sent /\ merging[n] \in sent \cup {None}
  BY DEF IInv, Screens, Mergings
<1>2. repair[n].pc = "merge" => repair[n].msgs[repair[n].done] \in sent
  <2>. SUFFICES ASSUME repair[n].pc = "merge"
                PROVE  repair[n].msgs[repair[n].done] \in sent
    OBVIOUS
  <2>1. /\ repair[n].msgs \in Seq(sent) /\ Len(repair[n].msgs) \in Nat
        /\ repair[n].done \in Nat /\ repair[n].repaired \in Nat
        /\ repair[n].done <= Len(repair[n].msgs)
        /\ repair[n].repaired < repair[n].done
    BY RepairFields DEF IInv
  <2>2. repair[n].done \in 1 .. Len(repair[n].msgs)
    BY <2>1
  <2>. QED BY <2>1, <2>2
<1>. QED BY <1>1, <1>2 DEF Taken, InHand

\* No message is None.
LEMMA NoneIsNoMessage == None \notin Message
<1>1. \A m \in Message : "sender" \in DOMAIN m
  BY DEF Message
<1>2. "sender" \notin DOMAIN None
  BY DEF None
<1>. QED BY <1>1, <1>2

\* A ledger whose list, ids and clocks stay remembers the same.
LEMMA RemembersSame ==
    ASSUME NEW l, NEW k, NEW taken, NEW n, Remembers(l, taken, n),
           SameList(l, k)
    PROVE  Remembers(k, taken, n)
BY DEF Remembers, SameList

\* main.go:226-231: showing an own message that the ledger refused takes
\* nothing that the ledger decides on.
LEMMA RemembersShown ==
    ASSUME NEW l, NEW taken, NEW n, Remembers(l, taken, n), NEW m,
           m \in taken \/ (m.sender = n /\ n \in Personas)
    PROVE  Remembers(l, taken \cup {m}, n)
<1>1. Decided(taken \cup {m}, n) = Decided(taken, n)
  BY DEF Decided
<1>. QED BY <1>1 DEF Remembers

\* ledger.go:89-107: an accepted message is remembered, and was later than all
\* of its sender that the ledger had decided on.
LEMMA RemembersAccepted ==
    ASSUME NEW S \in SUBSET Message, Chained(S), NEW l, BuiltFrom(l, S),
           NEW taken \in SUBSET S, NEW n, Remembers(l, taken, n),
           NEW m \in S, AddReason(l, m) = NoReason
    PROVE  /\ Remembers(AddWithReason(l, m), taken \cup {m}, n)
           /\ l.senderClock[m.sender] < Own(m)
           /\ \A x \in Decided(taken, n) :
                 x.sender = m.sender => Own(x) < Own(m)
<1>. DEFINE k == AddWithReason(l, m)
            more == taken \cup {m}
            c == l.senderClock
<1>1. l \in LedgerRecord /\ m \in Message /\ m.vc[m.sender] > 0
      /\ l.messages \in Seq(S)
  BY DEF BuiltFrom, Chained, Own
<1>2. /\ ~ Regression(l, m)
      /\ k.ids = (l.ids \cup {m.id}) \ Evicted(Sorted(l.messages, m))
      /\ k.messages = Trim(Sorted(l.messages, m))
      /\ k.senderClock = [c EXCEPT ![m.sender] = m.vc[m.sender]]
  BY <1>1, AcceptedFields
<1>3. c \in VectorClocks /\ m.sender \in Peers /\ Own(m) \in Nat
  BY <1>1 DEF LedgerRecord, Message, VectorClocks, Own
<1>4. \A p \in Peers : c[p] \in Nat
  BY <1>3 DEF VectorClocks
<1>5. c[m.sender] < Own(m)
  BY <1>1, <1>2, <1>3, <1>4 DEF Regression, Own
<1>6. \A p \in Peers : k.senderClock[p] = IF p = m.sender THEN Own(m) ELSE c[p]
  BY <1>2, <1>3 DEF VectorClocks, Own
<1>7. ASSUME NEW x \in S
      PROVE  /\ x.sender \in Peers /\ Own(x) \in Nat
             /\ Own(x) <= c[x.sender] => Own(x) <= k.senderClock[x.sender]
  <2>1. x.sender \in Peers /\ Own(x) \in Nat
    BY DEF Message, VectorClocks, Own
  <2>. QED BY <1>3, <1>4, <1>5, <1>6, <2>1
<1>8. Own(m) <= k.senderClock[m.sender]
  BY <1>3, <1>6
<1>9. \A i \in 1 .. Len(k.messages) : k.messages[i] \in more
  <2>1. l.messages \in Seq(more)
    <3>1. \A i \in 1 .. Len(l.messages) : l.messages[i] \in more
      BY DEF Remembers
    <3>. QED BY <1>1, <3>1
  <2>2. Sorted(l.messages, m) \in Seq(more)
    <3>1. m \in more /\ more \in SUBSET Message
      OBVIOUS
    <3>. HIDE DEF more
    <3>. QED BY <2>1, <3>1, SortedElements
  <2>. HIDE DEF more, k
  <2>3. k.messages \in Seq(more)
    BY <1>2, <2>2, TrimElements
  <2>. QED BY <2>3
<1>. HIDE DEF k
<1>10. \A x \in Decided(more, n) : Own(x) <= k.senderClock[x.sender]
  BY <1>7, <1>8 DEF Remembers, Decided
<1>11. ASSUME NEW p \in Peers, k.senderClock[p] # 0
       PROVE  \E x \in more : x.sender = p /\ Own(x) = k.senderClock[p]
  <2>1. CASE p = m.sender
    BY <1>6, <2>1
  <2>2. CASE p # m.sender
    <3>1. k.senderClock[p] = l.senderClock[p]
      BY <1>6, <2>2
    <3>2. \E x \in taken : x.sender = p /\ Own(x) = l.senderClock[p]
      BY <1>11, <3>1 DEF Remembers
    <3>. QED BY <3>1, <3>2
  <2>. QED BY <2>1, <2>2
<1>12. \A d \in k.ids :
          \E x \in more : x.id = d /\ Own(x) <= k.senderClock[x.sender]
  <2>1. \A d \in k.ids : d \in l.ids \/ d = m.id
    BY <1>2
  <2>. QED BY <1>7, <1>8, <2>1 DEF Remembers
<1>13. Remembers(k, more, n)
  BY <1>9, <1>10, <1>11, <1>12 DEF Remembers
<1>14. ASSUME NEW x \in Decided(taken, n), x.sender = m.sender
       PROVE  Own(x) < Own(m)
  <2>1. x \in S /\ Own(x) <= c[m.sender]
    BY <1>14 DEF Decided, Remembers
  <2>. QED BY <1>3, <1>4, <1>5, <1>7, <2>1
<1>. QED BY <1>5, <1>13, <1>14 DEF k

\* Peer n goes on with what it has taken.
Keeps(n) == Taken(n)' = Taken(n) /\ SameList(ledger[n], ledger'[n])

\* It takes m: its ledger accepts m, or a goroutine of n has published m.
Takes(n, m) ==
    /\ Taken(n)' = Taken(n) \cup {m}
    /\ SameList(AddWithReason(ledger[n], m), ledger'[n])
    /\ \/ AddReason(ledger[n], m) = NoReason
       \/ \E t \in Threads(n) :
             sending[n][t].pc = "published" /\ sending[n][t].msg = m

\* At most one peer takes a message.
Hears ==
    \/ \A n \in Peers : Keeps(n)
    \/ \E n \in Peers : \E m \in sent :
          /\ Takes(n, m) /\ \A q \in Peers \ {n} : Keeps(q)
          /\ UNCHANGED sent

\* Nothing is taken where the relays and the screen stay.
LEMMA TakenStays ==
    ASSUME NEW q, shown'[q] = shown[q], merging'[q] = merging[q],
           repair'[q] = repair[q]
    PROVE  Taken(q)' = Taken(q)
BY DEF Taken, InHand

\* Peers whose ledger, screen and relays stay keep what they have.
LEMMA OthersKeep ==
    ASSUME NEW n, \A q \in Peers \ {n} : /\ ledger'[q] = ledger[q]
                                         /\ shown'[q] = shown[q]
                                         /\ merging'[q] = merging[q]
                                         /\ repair'[q] = repair[q]
    PROVE  \A q \in Peers \ {n} : Keeps(q)
BY TakenStays DEF Keeps, SameList

\* A refused message leaves list, ids and clocks alone.
LEMMA RefusedSame ==
    ASSUME NEW l \in LedgerRecord, NEW m, AddReason(l, m) # NoReason
    PROVE  SameList(l, AddWithReason(l, m))
BY Refused DEF SameList

\* main.go:226-231: a goroutine shows the own message it published.
LEMMA AddOwnHears ==
    ASSUME IInv, NEW n \in Peers, NEW t \in Threads(n), AddOwn(n, t)
    PROVE  Hears
<1>. DEFINE m == sending[n][t].msg
<1>1. /\ sending[n][t].pc = "published"
      /\ ledger' = [ledger EXCEPT ![n] = AddWithReason(ledger[n], m)]
      /\ shown' = [shown EXCEPT ![n] = shown[n] \cup {m}]
      /\ UNCHANGED <<merging, repair, sent>>
  BY DEF AddOwn
<1>2. m \in sent
  BY <1>1, SigningMessage DEF IInv
<1>3. /\ ledger'[n] = AddWithReason(ledger[n], m)
      /\ shown'[n] = shown[n] \cup {m}
      /\ \A q \in Peers \ {n} : ledger'[q] = ledger[q] /\ shown'[q] = shown[q]
  BY <1>1 DEF IInv, Ledgers, Screens
<1>4. Taken(n)' = Taken(n) \cup {m}
  BY <1>1, <1>3 DEF Taken, InHand
<1>5. \A q \in Peers \ {n} : Keeps(q)
  BY <1>1, <1>3, OthersKeep
<1>6. Takes(n, m)
  BY <1>1, <1>3, <1>4 DEF Takes, SameList
<1>. HIDE DEF m
<1>. QED BY <1>1, <1>2, <1>5, <1>6 DEF Hears

\* main.go:350-364: the relay of Messages has what its ledger accepted in hand.
LEMMA AcceptLiveHears ==
    ASSUME IInv, NEW n \in Peers, AcceptLive(n)
    PROVE  Hears
<1>. DEFINE m == Head(messages[n])
            l == Accept(ledger[n], m)
            next == IF AddReason(ledger[n], m) = NoReason THEN m ELSE None
<1>1. /\ messages[n] # << >> /\ merging[n] = None
      /\ ledger' = [ledger EXCEPT ![n] = l]
      /\ merging' = [merging EXCEPT ![n] = next]
      /\ UNCHANGED <<shown, repair, sent>>
  BY DEF AcceptLive
<1>2. m \in sent /\ m # None
  <2>1. m \in sent
    BY <1>1, ChannelRead DEF IInv, Channels
  <2>. QED BY <2>1, NoneIsNoMessage DEF IInv, Clocks
<1>. HIDE DEF m
<1>3. SameList(AddWithReason(ledger[n], m), l)
  BY <1>2, AcceptWrites DEF IInv, Clocks, Chains, Ledgers
<1>. HIDE DEF l, next
<1>4. /\ ledger'[n] = l /\ merging'[n] = next
      /\ \A q \in Peers \ {n} : ledger'[q] = ledger[q] /\ merging'[q] = merging[q]
  BY <1>1 DEF IInv, Ledgers, Mergings
<1>5. \A q \in Peers \ {n} : Keeps(q)
  BY <1>1, <1>4, OthersKeep
<1>6. CASE AddReason(ledger[n], m) = NoReason
  <2>1. Taken(n)' = Taken(n) \cup {m}
    BY <1>1, <1>2, <1>4, <1>6 DEF Taken, InHand, next
  <2>2. Takes(n, m)
    BY <1>3, <1>4, <1>6, <2>1 DEF Takes
  <2>. QED BY <1>1, <1>2, <1>5, <2>2 DEF Hears
<1>7. CASE AddReason(ledger[n], m) # NoReason
  <2>1. Taken(n)' = Taken(n)
    BY <1>1, <1>4, <1>7 DEF Taken, InHand, next
  <2>2. SameList(ledger[n], l)
    BY <1>3, <1>7, RefusedSame DEF IInv, Ledgers, SameList
  <2>3. Keeps(n)
    BY <1>4, <2>1, <2>2 DEF Keeps
  <2>. QED BY <1>5, <2>3 DEF Hears
<1>. QED BY <1>6, <1>7

\* main.go:382-388: what it broadcasts it had in hand.
LEMMA MergeLiveHears ==
    ASSUME IInv, NEW n \in Peers, MergeLive(n)
    PROVE  Hears
<1>1. /\ merging[n] # None
      /\ shown' = [shown EXCEPT ![n] = shown[n] \cup {merging[n]}]
      /\ merging' = [merging EXCEPT ![n] = None]
      /\ UNCHANGED <<ledger, repair, sent>>
  BY DEF MergeLive
<1>2. /\ shown'[n] = shown[n] \cup {merging[n]} /\ merging'[n] = None
      /\ \A q \in Peers \ {n} : shown'[q] = shown[q] /\ merging'[q] = merging[q]
  BY <1>1 DEF IInv, Screens, Mergings
<1>3. Taken(n)' = Taken(n)
  BY <1>1, <1>2 DEF Taken, InHand
<1>4. Keeps(n)
  BY <1>1, <1>3 DEF Keeps, SameList
<1>5. \A q \in Peers \ {n} : Keeps(q)
  BY <1>1, <1>2, OthersKeep
<1>. QED BY <1>4, <1>5 DEF Hears

\* main.go:972-973: the relay of Controls has what its ledger accepted in hand.
LEMMA RepairAddHears ==
    ASSUME IInv, NEW n \in Peers, RepairAdd(n)
    PROVE  Hears
<1>. DEFINE r == repair[n]
            c == r.done + 1
            m == r.msgs[c]
            l == Accept(ledger[n], m)
            next == IF AddReason(ledger[n], m) = NoReason
                    THEN "merge" ELSE "add"
<1>1. /\ r.pc = "add" /\ r.done < Len(r.msgs)
      /\ ledger' = [ledger EXCEPT ![n] = l]
      /\ repair' = [repair EXCEPT ![n].done = @ + 1, ![n].pc = next]
      /\ UNCHANGED <<shown, merging, sent>>
  BY DEF RepairAdd
<1>2. /\ r \in RepairRecord /\ r.msgs \in Seq(sent) /\ Len(r.msgs) \in Nat
      /\ r.done \in Nat
  BY RepairFields DEF IInv
<1>3. m \in sent
  <2>1. c \in 1 .. Len(r.msgs)
    BY <1>1, <1>2
  <2>. QED BY <1>2, <2>1
<1>4. /\ repair'[n] = [r EXCEPT !.done = c, !.pc = next]
      /\ \A q \in Peers \ {n} : repair'[q] = repair[q]
  BY <1>1 DEF IInv, Repairs
<1>5. repair'[n].pc = next /\ repair'[n].done = c /\ repair'[n].msgs = r.msgs
  BY <1>2, <1>4 DEF RepairRecord
<1>6. InHand(n)' = ({merging[n]} \ {None})
                      \cup (IF next = "merge" THEN {m} ELSE {})
  BY <1>1, <1>5 DEF InHand
<1>7. InHand(n) = {merging[n]} \ {None}
  BY <1>1 DEF InHand
<1>. HIDE DEF m, r, c
<1>8. SameList(AddWithReason(ledger[n], m), l)
  BY <1>3, AcceptWrites DEF IInv, Clocks, Chains, Ledgers
<1>. HIDE DEF l
<1>9. /\ ledger'[n] = l
      /\ \A q \in Peers \ {n} : ledger'[q] = ledger[q]
  BY <1>1 DEF IInv, Ledgers
<1>10. \A q \in Peers \ {n} : Keeps(q)
  BY <1>1, <1>4, <1>9, OthersKeep
<1>11. CASE AddReason(ledger[n], m) = NoReason
  <2>1. Taken(n)' = Taken(n) \cup {m}
    BY <1>1, <1>6, <1>7, <1>11 DEF Taken
  <2>2. Takes(n, m)
    BY <1>8, <1>9, <1>11, <2>1 DEF Takes
  <2>. QED BY <1>1, <1>3, <1>10, <2>2 DEF Hears
<1>12. CASE AddReason(ledger[n], m) # NoReason
  <2>1. Taken(n)' = Taken(n)
    BY <1>1, <1>6, <1>7, <1>12 DEF Taken
  <2>2. SameList(ledger[n], l)
    BY <1>8, <1>12, RefusedSame DEF IInv, Ledgers, SameList
  <2>3. Keeps(n)
    BY <1>9, <2>1, <2>2 DEF Keeps
  <2>. QED BY <1>10, <2>3 DEF Hears
<1>. QED BY <1>11, <1>12

\* main.go:974-975: what it broadcasts it had in hand.
LEMMA RepairMergeHears ==
    ASSUME IInv, NEW n \in Peers, RepairMerge(n)
    PROVE  Hears
<1>. DEFINE r == repair[n]
            m == r.msgs[r.done]
<1>1. /\ r.pc = "merge"
      /\ shown' = [shown EXCEPT ![n] = shown[n] \cup {m}]
      /\ repair' = [repair EXCEPT ![n].pc = "add", ![n].repaired = @ + 1]
      /\ UNCHANGED <<ledger, merging, sent>>
  BY DEF RepairMerge
<1>2. r \in RepairRecord
  BY RepairFields DEF IInv
<1>3. /\ shown'[n] = shown[n] \cup {m}
      /\ \A q \in Peers \ {n} : shown'[q] = shown[q] /\ repair'[q] = repair[q]
  BY <1>1 DEF IInv, Screens, Repairs
<1>4. repair'[n].pc = "add"
  <2>1. repair'[n] = [r EXCEPT !.pc = "add", !.repaired = @ + 1]
    BY <1>1 DEF IInv, Repairs
  <2>. QED BY <1>2, <2>1 DEF RepairRecord
<1>5. InHand(n) = ({merging[n]} \ {None}) \cup {m}
  BY <1>1 DEF InHand
<1>6. InHand(n)' = {merging[n]} \ {None}
  BY <1>1, <1>4 DEF InHand
<1>. HIDE DEF r, m
<1>7. Taken(n)' = Taken(n)
  BY <1>3, <1>5, <1>6 DEF Taken
<1>8. Keeps(n)
  BY <1>1, <1>7 DEF Keeps, SameList
<1>9. \A q \in Peers \ {n} : Keeps(q)
  BY <1>1, <1>3, OthersKeep
<1>. QED BY <1>8, <1>9 DEF Hears

\* main.go:962-983: a repair begins and ends with nothing in hand.
LEMMA StatusHears ==
    ASSUME IInv, NEW n \in Peers, NEW l, SameList(ledger[n], l),
           ledger' = [ledger EXCEPT ![n] = l], UNCHANGED <<shown, merging>>,
           \/ UNCHANGED repair
           \/ \E r : /\ repair' = [repair EXCEPT ![n] = r]
                     /\ repair[n].pc # "merge" /\ r.pc # "merge"
    PROVE  Hears
<1>1. /\ ledger'[n] = l
      /\ \A q \in Peers \ {n} : ledger'[q] = ledger[q]
  BY DEF IInv, Ledgers
<1>2. /\ \A q \in Peers \ {n} : repair'[q] = repair[q]
      /\ repair'[n] = repair[n]
           \/ (repair[n].pc # "merge" /\ repair'[n].pc # "merge")
  BY DEF IInv, Repairs
<1>3. Taken(n)' = Taken(n)
  BY <1>2 DEF Taken, InHand
<1>4. Keeps(n)
  BY <1>1, <1>3 DEF Keeps
<1>5. \A q \in Peers \ {n} : Keeps(q)
  BY <1>1, <1>2, OthersKeep
<1>. QED BY <1>4, <1>5 DEF Hears

\* At most one peer takes a message in a step, and one that was signed.
LEMMA NextHears ==
    ASSUME IInv, [Next]_vars
    PROVE  Hears
<1>1. \A n \in Peers : ledger[n] \in LedgerRecord
  BY DEF IInv, Ledgers
<1>2. CASE UNCHANGED <<ledger, shown, merging, repair>>
  BY <1>2, TakenStays DEF Hears, Keeps, SameList
<1>3. ASSUME NEW n \in Peers, StartRepair(n) PROVE Hears
  <2>. DEFINE l == SetSyncStatus(ledger[n], "repairing")
              r == [NoRepair EXCEPT !.pc = "add",
                                    !.msgs = Head(controls[n]).msgs]
  <2>1. /\ repair[n].pc = "idle" /\ ledger' = [ledger EXCEPT ![n] = l]
        /\ repair' = [repair EXCEPT ![n] = r] /\ UNCHANGED <<shown, merging>>
    BY <1>3 DEF StartRepair
  <2>2. r.pc = "add"
    BY DEF NoRepair
  <2>3. SameList(ledger[n], l)
    <3>1. 0 \in Nat
      OBVIOUS
    <3>. QED BY <1>1, <3>1, StatusWrites
  <2>. HIDE DEF l, r
  <2>4. repair[n].pc # "merge" /\ r.pc # "merge"
    BY <2>1, <2>2
  <2>. QED BY <2>1, <2>3, <2>4, StatusHears
<1>4. ASSUME NEW n \in Peers, FinishRepair(n) PROVE Hears
  <2>. DEFINE c == repair[n].repaired
              st == IF c > 0 THEN "repaired" ELSE "idle"
              l == SetSyncStatus(AddRepaired(ledger[n], c), st)
  <2>1. /\ repair[n].pc = "add" /\ ledger' = [ledger EXCEPT ![n] = l]
        /\ repair' = [repair EXCEPT ![n] = NoRepair]
        /\ UNCHANGED <<shown, merging>>
    BY <1>4 DEF FinishRepair
  <2>2. c \in Nat
    BY RepairFields DEF IInv
  <2>. HIDE DEF c, st
  <2>3. SameList(ledger[n], l)
    BY <1>1, <2>2, StatusWrites
  <2>. HIDE DEF l
  <2>4. repair[n].pc # "merge" /\ NoRepair.pc # "merge"
    BY <2>1 DEF NoRepair
  <2>. QED BY <2>1, <2>3, <2>4, StatusHears
<1>5. ASSUME NEW n \in Peers, NEW st, UNCHANGED <<shown, merging, repair>>,
             ledger' = [ledger EXCEPT ![n] = SetSyncStatus(ledger[n], st)]
      PROVE  Hears
  <2>. DEFINE l == SetSyncStatus(ledger[n], st)
  <2>1. SameList(ledger[n], l) /\ ledger' = [ledger EXCEPT ![n] = l]
    <3>1. 0 \in Nat
      OBVIOUS
    <3>. QED BY <1>1, <1>5, <3>1, StatusWrites
  <2>. HIDE DEF l
  <2>. QED BY <1>5, <2>1, StatusHears
<1>6. ASSUME NEW n \in Peers, Join(n) PROVE Hears
  BY <1>2, <1>6 DEF Join, nodeVars, goVars
<1>7. ASSUME NEW n \in Peers, Send(n) PROVE Hears
  BY <1>2, <1>7, AddOwnHears DEF Send, Sign, Publish, PublishFails, nodeVars
<1>8. ASSUME NEW n \in Peers, MessagesRelay(n) PROVE Hears
  BY <1>8, AcceptLiveHears, MergeLiveHears DEF MessagesRelay
<1>9. ASSUME NEW n \in Peers, AnswerRequest(n) PROVE Hears
  BY <1>2, <1>9 DEF AnswerRequest, nodeVars, goVars
<1>10. ASSUME NEW n \in Peers, ControlsRelay(n) PROVE Hears
  BY <1>3, <1>4, <1>9, <1>10, RepairAddHears, RepairMergeHears
     DEF ControlsRelay
<1>11. ASSUME NEW n \in Peers, Sync(n) PROVE Hears
  BY <1>2, <1>5, <1>11
     DEF Sync, RequestSync, PublishRequest, TimerReads, TimerSetsIdle, nodeVars
<1>12. ASSUME NEW p \in net, Receive(p) PROVE Hears
  BY <1>2, <1>12 DEF Receive, nodeVars, goVars
<1>13. CASE UNCHANGED vars
  BY <1>2, <1>13 DEF vars, nodeVars, goVars
<1>. QED
  BY <1>6, <1>7, <1>8, <1>10, <1>11, <1>12, <1>13 DEF Next

\* main.go:226-231: a peer with one sending goroutine publishes its last
\* message, which its ledger refuses only when a sync brought it back already.
LEMMA RefusedIsTaken ==
    ASSUME IInv, OrderInv, HeardInv, NEW n \in Peers \ Personas,
           NEW t \in Threads(n), sending[n][t].pc = "published",
           AddReason(ledger[n], sending[n][t].msg) # NoReason
    PROVE  sending[n][t].msg \in Taken(n)
<1>. DEFINE m == sending[n][t].msg
            l == ledger[n]
<1>1. /\ sent \in SUBSET Message /\ Chained(sent) /\ BuiltFrom(l, sent)
      /\ \A x \in sent : Closed(sent, x.vc) /\ Leq(x.vc, Horizon)
      /\ \A x \in sent : Own(x) <= MaxSends
      /\ vc[n][n] \in Nat /\ l.senderClock[n] \in Nat
  <2>1. \A x \in sent : Own(x) <= MaxSends
    BY CountsBounded DEF OrderInv
  <2>2. sent \in SUBSET Message /\ Chained(sent) /\ BuiltFrom(l, sent)
    BY DEF IInv, Clocks, Chains, Ledgers
  <2>3. \A x \in sent : Closed(sent, x.vc) /\ Leq(x.vc, Horizon)
    BY DEF IInv, Clocks
  <2>4. vc[n][n] \in Nat
    BY DEF IInv, Clocks, VectorClocks
  <2>5. l.senderClock[n] \in Nat
    BY DEF IInv, Ledgers, LedgerRecord, VectorClocks
  <2>. QED BY <2>1, <2>2, <2>3, <2>4, <2>5
<1>2. m \in sent /\ m.sender = n /\ Own(m) = vc[n][n] /\ Own(m) > 0
  BY SigningMessage DEF IInv, HeardInv, SendsOwn, Chains, Chained
<1>3. Remembers(l, Taken(n), n) /\ Taken(n) \subseteq sent
  BY TakenSent DEF HeardInv
<1>4. ~ Fork(l, m)
  BY <1>1, <1>2, ChainNeverForks
<1>5. Duplicate(l, m) \/ Regression(l, m)
  BY <1>4 DEF AddReason
<1>. HIDE DEF m, l
<1>6. CASE Duplicate(l, m)
  <2>1. PICK x \in Taken(n) : x.id = m.id
    BY <1>3, <1>6 DEF Duplicate, Remembers
  <2>2. x \in sent /\ x.sender = m.sender /\ Own(x) = Own(m)
    BY <1>1, <1>2, <1>3, <2>1, NameOfMessage
  <2>3. x = m
    BY <1>1, <1>2, <2>2, SameMessage
  <2>. QED BY <2>3 DEF m
<1>7. CASE Regression(l, m)
  <2>1. Own(m) <= l.senderClock[n]
    BY <1>2, <1>7 DEF Regression, Own
  <2>2. l.senderClock[n] # 0
    BY <1>1, <1>2, <2>1
  <2>3. PICK x \in Taken(n) : x.sender = n /\ Own(x) = l.senderClock[n]
    BY <1>3, <2>2 DEF Remembers
  <2>4. x \in sent /\ Own(x) <= vc[n][n]
    BY <1>1, <1>3, <2>3 DEF Leq, Horizon, Own
  <2>5. Own(x) = Own(m)
    BY <1>1, <1>2, <2>1, <2>3, <2>4
  <2>6. x = m
    BY <1>1, <1>2, <2>3, <2>4, <2>5, SameMessage
  <2>. QED BY <2>6 DEF m
<1>. QED BY <1>5, <1>6, <1>7

\* What a peer takes and its ledger refuses is nothing new that it decides on.
LEMMA TakesRefused ==
    ASSUME IInv, OrderInv, HeardInv, NEW n \in Peers, NEW m, Takes(n, m),
           AddReason(ledger[n], m) # NoReason
    PROVE  m \in Taken(n) \/ (m.sender = n /\ n \in Personas)
<1>1. PICK t \in Threads(n) :
         sending[n][t].pc = "published" /\ sending[n][t].msg = m
  BY DEF Takes
<1>2. m.sender = n
  BY <1>1 DEF HeardInv, SendsOwn
<1>3. CASE n \in Personas
  BY <1>2, <1>3
<1>4. CASE n \notin Personas
  BY <1>1, <1>4, RefusedIsTaken
<1>. QED BY <1>3, <1>4

\* The guards of every ledger go on remembering.
LEMMA NextRemembers ==
    ASSUME IInv, OrderInv, HeardInv, [Next]_vars
    PROVE  \A n \in Peers : Remembers(ledger'[n], Taken(n)', n)
<1>1. \A n \in Peers : Keeps(n) => Remembers(ledger'[n], Taken(n)', n)
  BY RemembersSame DEF Keeps, HeardInv
<1>2. ASSUME NEW n \in Peers, NEW m \in sent, Takes(n, m)
      PROVE  Remembers(ledger'[n], Taken(n)', n)
  <2>. DEFINE l == ledger[n]
              k == AddWithReason(l, m)
              more == Taken(n) \cup {m}
  <2>1. /\ Remembers(l, Taken(n), n) /\ Taken(n) \subseteq sent
        /\ l \in LedgerRecord /\ BuiltFrom(l, sent)
        /\ sent \in SUBSET Message /\ Chained(sent)
    BY TakenSent DEF IInv, Ledgers, Clocks, Chains, HeardInv
  <2>2. Taken(n)' = more /\ SameList(k, ledger'[n])
    BY <1>2 DEF Takes
  <2>3. CASE AddReason(l, m) = NoReason
    <3>1. Remembers(k, more, n)
      BY <2>1, <2>3, RemembersAccepted
    <3>. HIDE DEF k, more
    <3>2. Remembers(ledger'[n], more, n)
      BY <2>2, <3>1, RemembersSame
    <3>. QED BY <2>2, <3>2
  <2>4. CASE AddReason(l, m) # NoReason
    <3>1. m \in Taken(n) \/ (m.sender = n /\ n \in Personas)
      BY <1>2, <2>4, TakesRefused
    <3>2. Remembers(l, more, n)
      BY <2>1, <3>1, RemembersShown
    <3>3. SameList(l, k)
      BY <2>1, <2>4, RefusedSame
    <3>. HIDE DEF k, more, l
    <3>4. Remembers(ledger'[n], more, n)
      BY <2>2, <3>2, <3>3, RemembersSame DEF SameList
    <3>. QED BY <2>2, <3>4
  <2>. QED BY <2>3, <2>4
<1>. QED BY <1>1, <1>2, NextHears DEF Hears

\* A step that signs nothing leaves every peer's own count alone.
LEMMA OwnCountKept ==
    ASSUME IInv, IInv', UNCHANGED prevHash, NEW n \in Peers
    PROVE  vc'[n][n] = vc[n][n]
<1>1. vc[n][n] \in Nat /\ vc'[n][n] \in Nat
  BY DEF IInv, Clocks, VectorClocks
<1>2. prevHash[n] = Nth(n, vc[n][n]) /\ prevHash'[n] = Nth(n, vc'[n][n])
  BY DEF IInv, Chains
<1>. QED BY <1>1, <1>2, NthDiffers

\* Goroutines that signed nothing in this step send what they sent before.
LEMMA SendsKept ==
    ASSUME IInv, IInv', SendsOwn, LastSent, UNCHANGED <<prevHash, sent>>,
           \A n \in Peers : \A t \in Threads(n) :
              sending'[n][t].pc \in {"signed", "published"} =>
                 /\ sending[n][t].pc \in {"signed", "published"}
                 /\ sending'[n][t].msg = sending[n][t].msg
    PROVE  SendsOwn' /\ LastSent'
<1>1. \A n \in Peers : vc'[n][n] = vc[n][n]
  BY OwnCountKept
<1>2. SendsOwn'
  BY <1>1 DEF SendsOwn, Own
<1>3. LastSent'
  BY <1>1 DEF LastSent, Own
<1>. QED BY <1>2, <1>3

\* main.go:199-208: what is signed is the peer's last message.
LEMMA SignSends ==
    ASSUME IInv, IInv', SendsOwn, LastSent, NEW n \in Peers,
           NEW t \in Threads(n), Sign(n, t)
    PROVE  SendsOwn' /\ LastSent'
<1>. DEFINE m == NewMessage(n, Increment(vc[n], n), prevHash[n])
            s == [pc |-> "signed", msg |-> m]
<1>1. /\ vc' = [vc EXCEPT ![n] = m.vc]
      /\ sent' = sent \cup {m}
      /\ sending' = [sending EXCEPT ![n][t] = s]
  BY DEF Sign, NewMessage
<1>2. m.sender = n
  BY DEF NewMessage
<1>3. s.msg = m
  OBVIOUS
<1>. HIDE DEF m, s
<1>4. /\ vc'[n] = m.vc
      /\ \A q \in Peers \ {n} : vc'[q] = vc[q]
  BY <1>1 DEF IInv, Clocks
<1>5. Own(m) = vc'[n][n]
  BY <1>2, <1>4 DEF Own
<1>6. ASSUME NEW q \in Peers, NEW u \in Threads(q)
      PROVE  sending'[q][u] = IF q = n /\ u = t THEN s ELSE sending[q][u]
  BY <1>1 DEF IInv, Sendings
<1>7. ASSUME NEW q \in Peers, NEW u \in Threads(q),
             sending'[q][u].pc \in {"signed", "published"}
      PROVE  /\ sending'[q][u].msg.sender = q
             /\ q \notin Personas => Own(sending'[q][u].msg) = vc'[q][q]
  <2>1. CASE q = n /\ u = t
    BY <1>2, <1>3, <1>5, <1>6, <2>1
  <2>2. CASE q = n /\ u # t
    <3>1. n \in Personas
      BY <2>2 DEF Threads
    <3>2. sending'[q][u] = sending[q][u]
      BY <1>6, <2>2
    <3>. QED BY <1>7, <2>2, <3>1, <3>2 DEF SendsOwn
  <2>3. CASE q # n
    <3>1. sending'[q][u] = sending[q][u] /\ vc'[q] = vc[q]
      BY <1>4, <1>6, <2>3
    <3>. QED BY <1>7, <3>1 DEF SendsOwn
  <2>. QED BY <2>1, <2>2, <2>3
<1>8. SendsOwn'
  BY <1>7 DEF SendsOwn, Own
<1>9. ASSUME NEW q \in Peers, vc'[q][q] > 0
      PROVE  \E x \in sent' : x.sender = q /\ Own(x) = vc'[q][q]
  <2>1. CASE q = n
    BY <1>1, <1>2, <1>5, <2>1
  <2>2. CASE q # n
    <3>1. vc'[q][q] = vc[q][q]
      BY <1>4, <2>2
    <3>. QED BY <1>1, <1>9, <3>1 DEF LastSent
  <2>. QED BY <2>1, <2>2
<1>10. LastSent'
  BY <1>9 DEF LastSent, Own
<1>. QED BY <1>8, <1>10

\* Every other step leaves what is being sent, or ends the sending.
LEMMA NextSends ==
    ASSUME IInv, IInv', HeardInv, [Next]_vars
    PROVE  SendsOwn' /\ LastSent'
<1>. DEFINE SameMessages ==
       /\ UNCHANGED <<prevHash, sent>>
       /\ \A n \in Peers : \A t \in Threads(n) :
             sending'[n][t].pc \in {"signed", "published"} =>
                /\ sending[n][t].pc \in {"signed", "published"}
                /\ sending'[n][t].msg = sending[n][t].msg
<1>1. SameMessages => SendsOwn' /\ LastSent'
  BY SendsKept DEF HeardInv
<1>2. UNCHANGED <<prevHash, sent, sending>> => SameMessages
  OBVIOUS
<1>3. ASSUME NEW n \in Peers, NEW t \in Threads(n), Sign(n, t)
      PROVE  SendsOwn' /\ LastSent'
  BY <1>3, SignSends DEF HeardInv
<1>4. ASSUME NEW n \in Peers, NEW t \in Threads(n), Publish(n, t)
      PROVE  SameMessages
  <2>1. /\ sending[n][t].pc = "signed" /\ UNCHANGED <<prevHash, sent>>
        /\ sending' = [sending EXCEPT ![n][t].pc = "published"]
    BY <1>4 DEF Publish, nodeVars
  <2>2. sending[n][t] = [pc |-> sending[n][t].pc, msg |-> sending[n][t].msg]
    <3>1. SendingOK(sending[n][t], sent, vc[n])
      BY DEF IInv, Sendings
    <3>2. sending[n][t] # Idle
      BY <2>1 DEF Idle
    <3>. QED BY <3>1, <3>2 DEF SendingOK
  <2>3. ASSUME NEW q \in Peers, NEW u \in Threads(q)
        PROVE  sending'[q][u] = IF q = n /\ u = t
                                THEN [sending[n][t] EXCEPT !.pc = "published"]
                                ELSE sending[q][u]
    BY <2>1 DEF IInv, Sendings
  <2>4. [sending[n][t] EXCEPT !.pc = "published"].msg = sending[n][t].msg
    BY <2>2
  <2>. QED BY <2>1, <2>3, <2>4
<1>5. ASSUME NEW n \in Peers, NEW t \in Threads(n),
             PublishFails(n, t) \/ AddOwn(n, t)
      PROVE  SameMessages
  <2>1. /\ UNCHANGED <<prevHash, sent>>
        /\ sending' = [sending EXCEPT ![n][t] = Idle]
    BY <1>5 DEF PublishFails, AddOwn, nodeVars
  <2>2. ASSUME NEW q \in Peers, NEW u \in Threads(q)
        PROVE  sending'[q][u] = IF q = n /\ u = t THEN Idle
                                ELSE sending[q][u]
    BY <2>1 DEF IInv, Sendings
  <2>3. Idle.pc = "idle"
    BY DEF Idle
  <2>. QED BY <2>1, <2>2, <2>3
<1>6. ASSUME NEW n \in Peers, Join(n) PROVE UNCHANGED <<prevHash, sent, sending>>
  BY <1>6 DEF Join, nodeVars, goVars
<1>7. ASSUME NEW n \in Peers, MessagesRelay(n)
      PROVE  UNCHANGED <<prevHash, sent, sending>>
  BY <1>7 DEF MessagesRelay, AcceptLive, MergeLive
<1>8. ASSUME NEW n \in Peers, ControlsRelay(n)
      PROVE  UNCHANGED <<prevHash, sent, sending>>
  BY <1>8 DEF ControlsRelay, AnswerRequest, StartRepair, RepairAdd,
              RepairMerge, FinishRepair, nodeVars, goVars
<1>9. ASSUME NEW n \in Peers, Sync(n)
      PROVE  UNCHANGED <<prevHash, sent, sending>>
  BY <1>9 DEF Sync, RequestSync, PublishRequest, TimerReads, TimerSetsIdle,
              nodeVars
<1>10. ASSUME NEW p \in net, Receive(p)
       PROVE  UNCHANGED <<prevHash, sent, sending>>
  BY <1>10 DEF Receive, nodeVars, goVars
<1>11. CASE UNCHANGED vars
  BY <1>1, <1>2, <1>11 DEF vars, nodeVars, goVars
<1>. HIDE DEF SameMessages
<1>12. ASSUME NEW n \in Peers, Send(n) PROVE SendsOwn' /\ LastSent'
  BY <1>1, <1>3, <1>4, <1>5, <1>12 DEF Send
<1>. QED
  BY <1>1, <1>2, <1>6, <1>7, <1>8, <1>9, <1>10, <1>11, <1>12 DEF Next

\* Nothing is taken at first.
LEMMA InitHeard ==
    ASSUME Init
    PROVE  HeardInv /\ \A n \in Peers : Taken(n) = {}
<1>1. /\ vc = [n \in Peers |-> New] /\ ledger = [n \in Peers |-> NewLedger]
      /\ shown = [n \in Peers |-> {}] /\ merging = [n \in Peers |-> None]
      /\ repair = [n \in Peers |-> NoRepair]
      /\ sending = [n \in Peers |-> [t \in Threads(n) |-> Idle]]
  BY DEF Init
<1>2. ASSUME NEW n \in Peers PROVE Taken(n) = {}
  <2>1. shown[n] = {} /\ merging[n] = None /\ repair[n] = NoRepair
    BY <1>1
  <2>2. NoRepair.pc # "merge"
    BY DEF NoRepair
  <2>. QED BY <2>1, <2>2 DEF Taken, InHand
<1>3. ASSUME NEW n \in Peers PROVE Remembers(ledger[n], {}, n)
  <2>1. /\ ledger[n].senderClock = New /\ ledger[n].ids = {}
        /\ ledger[n].messages = << >>
    BY <1>1 DEF NewLedger
  <2>2. \A p \in Peers : New[p] = 0
    BY DEF New
  <2>3. Decided({}, n) = {}
    BY DEF Decided
  <2>4. 1 .. Len(ledger[n].messages) = {}
    BY <2>1
  <2>. QED BY <2>1, <2>2, <2>3, <2>4 DEF Remembers
<1>4. SendsOwn
  BY <1>1 DEF SendsOwn, Idle
<1>5. LastSent
  BY <1>1 DEF LastSent, New
<1>. QED BY <1>2, <1>3, <1>4, <1>5 DEF HeardInv

\* The third invariant holds in every reachable state.
THEOREM Hearing == Spec => []HeardInv
<1>1. IInv /\ IInv' /\ OrderInv /\ HeardInv /\ [Next]_vars => HeardInv'
  <2>. SUFFICES ASSUME IInv, IInv', OrderInv, HeardInv, [Next]_vars
                PROVE  HeardInv'
    OBVIOUS
  <2>1. SendsOwn' /\ LastSent'
    BY NextSends
  <2>2. \A n \in Peers : Remembers(ledger'[n], Taken(n)', n)
    BY NextRemembers
  <2>3. (\A n \in Peers : Remembers(ledger[n], Taken(n), n))'
    BY <2>2 DEF Remembers, Decided, Own
  <2>. QED BY <2>1, <2>3 DEF HeardInv
<1>2. Init => HeardInv
  BY InitHeard
<1>. QED BY <1>1, <1>2, Invariance, Ordered, PTL DEF Spec

\* main.go:199-208: a message is signed as the next link of its sender's chain.
LEMMA SignWrites ==
    ASSUME IInv, IInv', OrderInv, HeardInv, NEW n \in Peers,
           NEW t \in Threads(n), Sign(n, t)
    PROVE  \E m \in Signable : Abs!Write(m)
<1>. DEFINE m == NewMessage(n, Increment(vc[n], n), prevHash[n])
            c == vc[n][n]
<1>1. sent' = sent \cup {m} /\ Cardinality(sent) < MaxSends
      /\ UNCHANGED <<shown, merging, repair>>
  BY DEF Sign
<1>2. /\ vc[n] \in VectorClocks /\ c \in Nat /\ prevHash[n] = Nth(n, c)
      /\ sent \in SUBSET Message /\ Chained(sent)
  BY DEF IInv, Clocks, Chains, VectorClocks
<1>3. /\ m.sender = n /\ m.prevHash = Nth(n, c) /\ m.vc[n] = c + 1
  BY <1>2, IncrementForward DEF NewMessage
<1>4. m \in Signable
  <2>1. Cardinality(sent) \in Nat /\ MaxSends \in Nat
    BY FS_CardinalityType, RoomAssumption DEF OrderInv, Counts
  <2>2. ASSUME NEW q \in Peers PROVE vc[n][q] \in 0 .. MaxSends - 1
    <3>1. vc[n][q] \in Nat /\ vc[q][q] \in Nat /\ vc[n][q] <= vc[q][q]
      BY DEF IInv, Clocks, Leq, Horizon, VectorClocks
    <3>2. vc[q][q] <= Cardinality(sent)
      BY DEF OrderInv, Counts
    <3>. QED BY <1>1, <2>1, <3>1, <3>2
  <2>3. vc[n] \in [Peers -> 0 .. MaxSends - 1]
    BY <1>2, <2>2 DEF VectorClocks
  <2>4. m = NewMessage(n, Increment(vc[n], n), Nth(n, vc[n][n]))
    BY <1>2
  <2>. HIDE DEF m
  <2>. QED BY <2>3, <2>4 DEF Signable
<1>. HIDE DEF m
<1>5. ASSUME NEW x \in sent, x.sender = n
      PROVE  Own(x) \in Nat /\ Own(x) > 0 /\ Own(x) <= c
  BY <1>2, <1>5 DEF IInv, Clocks, Leq, Horizon, Own, Chained, Message,
                    VectorClocks
<1>6. Abs!Extends(m)
  <2>1. CASE c = 0
    <3>1. \A x \in sent : x.sender # n
      BY <1>2, <1>5, <2>1
    <3>2. Abs!WrittenBy(m.sender) = {}
      BY <1>3, <3>1 DEF Abs!WrittenBy
    <3>3. Abs!Count(m) = 1 /\ m.prevHash = Abs!NoHash
      BY <1>3, <2>1 DEF Abs!Count, Abs!NoHash, NoHash, Nth
    <3>. QED BY <3>2, <3>3 DEF Abs!Extends
  <2>2. CASE c # 0
    <3>1. PICK x \in sent : x.sender = n /\ Own(x) = c
      BY <1>2, <2>2 DEF HeardInv, LastSent
    <3>2. x \in Abs!WrittenBy(m.sender)
      BY <1>3, <3>1 DEF Abs!WrittenBy
    <3>3. \A y \in Abs!WrittenBy(m.sender) : Abs!Count(y) <= Abs!Count(x)
      BY <1>3, <1>5, <3>1 DEF Abs!WrittenBy, Abs!Count, Own
    <3>4. Abs!Count(m) = Abs!Count(x) + 1
      BY <1>3, <3>1 DEF Abs!Count, Own
    <3>5. m.prevHash = x.id
      BY <1>2, <1>3, <3>1 DEF Chained
    <3>. QED BY <3>2, <3>3, <3>4, <3>5 DEF Abs!Extends
  <2>. QED BY <2>1, <2>2
<1>7. Abs!Causal(m)
  <2>1. \A x \in sent : Own(x) <= m.vc[x.sender] => Leq(x.vc, m.vc)
    BY <1>1 DEF IInv, Clocks, Closed, Own
  <2>. QED BY <2>1 DEF Abs!Causal, Abs!Count, Abs!Leq, Leq, Own
<1>8. \A q \in Peers : Heard(q)' = Heard(q)
  BY <1>1, TakenStays DEF Heard, Decided
<1>. QED BY <1>1, <1>4, <1>6, <1>7, <1>8 DEF Abs!Write

\* A message that a peer takes and decides on is heard, in the order of the
\* chain; any other changes nothing that is heard.
LEMMA TakesHears ==
    ASSUME IInv, OrderInv, HeardInv, NEW n \in Peers, NEW m \in sent,
           Takes(n, m)
    PROVE  \/ Heard(n)' = Heard(n)
           \/ /\ Heard(n)' = Heard(n) \cup {m}
              /\ \A x \in Heard(n) : x.sender = m.sender => Own(x) < Own(m)
<1>1. Taken(n)' = Taken(n) \cup {m}
  BY DEF Takes
<1>2. \/ Heard(n)' = Heard(n)
      \/ Heard(n)' = Heard(n) \cup {m}
  BY <1>1 DEF Heard, Decided
<1>3. CASE AddReason(ledger[n], m) = NoReason
  <2>1. /\ Remembers(ledger[n], Taken(n), n) /\ Taken(n) \subseteq sent
        /\ BuiltFrom(ledger[n], sent)
        /\ sent \in SUBSET Message /\ Chained(sent)
    BY TakenSent DEF IInv, Ledgers, Clocks, Chains, HeardInv
  <2>2. \A x \in Decided(Taken(n), n) :
           x.sender = m.sender => Own(x) < Own(m)
    BY <1>3, <2>1, RemembersAccepted
  <2>. QED BY <1>2, <2>2 DEF Heard
<1>4. CASE AddReason(ledger[n], m) # NoReason
  <2>1. m \in Taken(n) \/ (m.sender = n /\ n \in Personas)
    BY <1>4, TakesRefused
  <2>2. Heard(n)' = Heard(n)
    BY <1>1, <2>1 DEF Heard, Decided
  <2>. QED BY <2>2
<1>. QED BY <1>3, <1>4

\* Every step is a step of RoomAbs or changes nothing of it.
LEMMA NextImplements ==
    ASSUME IInv, IInv', OrderInv, HeardInv, [Next]_vars
    PROVE  [Abs!Next]_<<sent, [n \in Peers |-> Heard(n)]>>
<1>. DEFINE heard == [n \in Peers |-> Heard(n)]
<1>1. ASSUME NEW n \in Peers, NEW t \in Threads(n), Sign(n, t)
      PROVE  Abs!Next
  <2>1. \E m \in Signable : Abs!Write(m)
    BY <1>1, SignWrites
  <2>. QED BY <2>1 DEF Abs!Next
<1>2. ASSUME UNCHANGED sent
      PROVE  [Abs!Next]_<<sent, heard>>
  <2>1. \A q \in Peers : Keeps(q) => Heard(q)' = Heard(q)
    BY DEF Keeps, Heard, Decided
  <2>2. CASE \A q \in Peers : Heard(q)' = Heard(q)
    BY <1>2, <2>2
  <2>3. ASSUME NEW n \in Peers, NEW m \in sent, Takes(n, m),
               \A q \in Peers \ {n} : Keeps(q),
               ~ (\A q \in Peers : Heard(q)' = Heard(q))
        PROVE  Abs!Next
    <3>1. \A q \in Peers \ {n} : Heard(q)' = Heard(q)
      BY <2>1, <2>3
    <3>2. /\ Heard(n)' = Heard(n) \cup {m}
          /\ \A x \in Heard(n) : x.sender = m.sender => Own(x) < Own(m)
      BY <2>3, <3>1, TakesHears
    <3>3. heard' = [heard EXCEPT ![n] = Heard(n) \cup {m}]
      BY <3>1, <3>2
    <3>4. \A x \in heard[n] : x.sender = m.sender => Abs!Count(x) < Abs!Count(m)
      BY <3>2 DEF Abs!Count, Own
    <3>5. Abs!Hear(n, m)
      BY <1>2, <3>3, <3>4 DEF Abs!Hear
    <3>. QED BY <3>5 DEF Abs!Next
  <2>. QED BY <2>1, <2>2, <2>3, NextHears DEF Hears
<1>. QED BY <1>1, <1>2, NextSigns

-----------------------------------------------------------------------------
(* What a peer hears and what its ledger lists.                            *)

\* A ledger lists nothing that is neither shown nor about to be, and while no
\* more was signed than a ledger holds it lists all that it decided on.
ListIsScreen ==
    \A n \in Peers :
       /\ ToSet(ledger[n].messages) \subseteq Taken(n)
       /\ Cardinality(sent) <= MaxMessages =>
             Heard(n) \subseteq ToSet(ledger[n].messages)

\* No list has a message before one that happened before it.
ListsAreCausal ==
    \A n \in Peers : \A i, j \in 1 .. Len(ledger[n].messages) :
       Compare(ledger[n].messages[i].vc, ledger[n].messages[j].vc) = "before"
          => i < j

\* Whatever a sync response named so far is counted by the ledger that
\* works on it.
RepairCounts ==
    \A n \in Peers : \A i \in 1 .. repair[n].done :
       Own(repair[n].msgs[i])
          <= ledger[n].senderClock[repair[n].msgs[i].sender]

\* A list in its senders' order is no longer than the set it is taken from.
LEMMA OrderedLength ==
    ASSUME NEW S \in SUBSET Message, IsFiniteSet(S), NEW t \in Seq(S),
           SenderOrdered(t)
    PROVE  Len(t) <= Cardinality(S)
<1>1. Len(t) \in Nat /\ Cardinality(S) \in Nat /\ t \in [1 .. Len(t) -> S]
  BY FS_CardinalityType
<1>2. IsFiniteSet(1 .. Len(t)) /\ Cardinality(1 .. Len(t)) = Len(t)
  <2>1. 1 \in Int /\ Len(t) \in Int
    BY <1>1
  <2>2. /\ IsFiniteSet(1 .. Len(t))
        /\ Cardinality(1 .. Len(t))
              = IF 1 > Len(t) THEN 0 ELSE Len(t) - 1 + 1
    BY <2>1, FS_Interval
  <2>. QED BY <1>1, <2>2
<1>3. ASSUME NEW i \in 1 .. Len(t), NEW j \in 1 .. Len(t), i # j
      PROVE  t[i] # t[j]
  <2>1. Own(t[i]) \in Nat /\ Own(t[j]) \in Nat
    <3>1. t[i] \in Message /\ t[j] \in Message
      BY <1>1
    <3>. QED BY <3>1 DEF Own, Message, VectorClocks
  <2>2. i < j \/ j < i
    BY <1>1, <1>3
  <2>. QED BY <2>1, <2>2 DEF SenderOrdered
<1>4. ~ (Cardinality(S) < Cardinality(1 .. Len(t)))
  BY <1>1, <1>2, <1>3, FS_PigeonHole
<1>. QED BY <1>1, <1>2, <1>4

\* ledger.go:97-105: with room for all there is no eviction.
LEMMA AcceptedListed ==
    ASSUME NEW S \in SUBSET Message, Signed(S), IsFiniteSet(S),
           Cardinality(S) <= MaxMessages,
           NEW l, BuiltFrom(l, S), Listed(l), NEW m \in S,
           AddReason(l, m) = NoReason
    PROVE  ToSet(l.messages) \cup {m}
              \subseteq ToSet(AddWithReason(l, m).messages)
<1>. DEFINE k == AddWithReason(l, m)
            s == l.messages
            t == Sorted(s, m)
            p == InsertPosition(s, m)
<1>1. /\ l \in LedgerRecord /\ m \in Message /\ m.vc[m.sender] > 0
      /\ s \in Seq(S) /\ l.senderClock \in VectorClocks
  BY DEF BuiltFrom, Signed, Chained, Own, LedgerRecord
<1>2. k.messages = Trim(t) /\ ~ Regression(l, m)
  BY <1>1, AcceptedFields
<1>3. /\ Own(m) \in Nat /\ l.senderClock[m.sender] \in Nat
      /\ l.senderClock[m.sender] < Own(m)
  <2>1. Own(m) \in Nat /\ l.senderClock[m.sender] \in Nat
    BY <1>1 DEF Own, Message, VectorClocks
  <2>. QED BY <1>1, <1>2, <2>1 DEF Regression, Own
<1>4. ASSUME NEW i \in 1 .. Len(s), s[i].sender = m.sender
      PROVE  Own(s[i]) < Own(m)
  <2>1. s[i] \in Message
    BY <1>1
  <2>2. Own(s[i]) \in Nat
    BY <2>1 DEF Own, Message, VectorClocks
  <2>3. Own(s[i]) <= l.senderClock[m.sender]
    BY <1>4 DEF Listed
  <2>. QED BY <1>3, <2>2, <2>3
<1>5. t \in Seq(S) /\ InsertedAt(s, m, t, p) /\ SenderOrdered(t)
  <2>1. SenderOrdered(s) /\ Closed(S, m.vc)
    BY DEF Listed, Signed
  <2>. HIDE DEF s
  <2>. QED BY <1>1, <1>4, <2>1, SortedElements, SortedOrdered
<1>. HIDE DEF p, t
<1>6. Trim(t) = t
  <2>1. Len(t) \in Nat /\ Cardinality(S) \in Nat /\ MaxMessages \in Nat
    BY <1>5, FS_CardinalityType, MaxMessagesAssumption
  <2>2. Len(t) <= Cardinality(S)
    BY <1>5, OrderedLength
  <2>. QED BY <2>1, <2>2 DEF Trim
<1>7. \A j \in 1 .. Len(s) : \E i \in 1 .. Len(t) : t[i] = s[j]
  BY <1>1, <1>5, InsertedNew
<1>8. \E i \in 1 .. Len(t) : t[i] = m
  <2>1. p + 1 \in 1 .. Len(t) /\ t[p + 1] = m
    BY <1>1, <1>5 DEF InsertedAt
  <2>. QED BY <2>1
<1>9. ToSet(s) \cup {m} \subseteq ToSet(t)
  BY <1>7, <1>8 DEF ToSet
<1>. QED BY <1>2, <1>6, <1>9 DEF k

\* Nothing a peer heard leaves its list while there is room for all.
LEMMA NextListed ==
    ASSUME IInv, OrderInv, OrderInv', AgreeInv, HeardInv, ListIsScreen,
           [Next]_vars, Cardinality(sent') <= MaxMessages, NEW n \in Peers
    PROVE  Heard(n)' \subseteq ToSet(ledger'[n].messages)
<1>1. /\ IsFiniteSet(sent) /\ Cardinality(sent) <= MaxMessages
  <2>1. sent \subseteq sent' /\ IsFiniteSet(sent')
    BY NextApart DEF AgreeInv, OrderInv, Counts
  <2>2. /\ IsFiniteSet(sent) /\ Cardinality(sent) <= Cardinality(sent')
        /\ Cardinality(sent) \in Nat /\ Cardinality(sent') \in Nat
    BY <2>1, FS_Subset, FS_CardinalityType
  <2>. QED BY <2>2, MaxMessagesAssumption
<1>2. Heard(n) \subseteq ToSet(ledger[n].messages)
  BY <1>1 DEF ListIsScreen
<1>3. CASE Keeps(n)
  <2>1. Heard(n)' = Heard(n) /\ ledger'[n].messages = ledger[n].messages
    BY <1>3 DEF Keeps, SameList, Heard, Decided
  <2>. QED BY <1>2, <2>1
<1>4. ASSUME NEW m \in sent, Takes(n, m)
      PROVE  Heard(n)' \subseteq ToSet(ledger'[n].messages)
  <2>. DEFINE l == ledger[n]
              k == AddWithReason(l, m)
  <2>1. /\ sent \in SUBSET Message /\ Signed(sent) /\ Listed(l)
        /\ BuiltFrom(l, sent) /\ l \in LedgerRecord
    BY DEF IInv, Clocks, Chains, Ledgers, OrderInv, ListsOrdered, AgreeInv,
           Signed
  <2>2. Taken(n)' = Taken(n) \cup {m} /\ ledger'[n].messages = k.messages
    BY <1>4 DEF Takes, SameList
  <2>3. CASE AddReason(l, m) = NoReason
    <3>1. ToSet(l.messages) \cup {m} \subseteq ToSet(k.messages)
      BY <1>1, <2>1, <2>3, AcceptedListed
    <3>2. Heard(n)' \subseteq Heard(n) \cup {m}
      BY <2>2 DEF Heard, Decided
    <3>. HIDE DEF k
    <3>. QED BY <1>2, <2>2, <3>1, <3>2
  <2>4. CASE AddReason(l, m) # NoReason
    <3>1. m \in Taken(n) \/ (m.sender = n /\ n \in Personas)
      BY <1>4, <2>4, TakesRefused
    <3>2. Heard(n)' = Heard(n)
      BY <2>2, <3>1 DEF Heard, Decided
    <3>3. k.messages = l.messages
      BY <2>1, <2>4, Refused
    <3>. HIDE DEF k
    <3>. QED BY <1>2, <2>2, <3>2, <3>3
  <2>. QED BY <2>3, <2>4
<1>. QED BY <1>3, <1>4, NextHears DEF Hears

\* ledger.go:89-96: the clock map of a ledger never goes back, and counts a
\* message of the chains that was offered to it whether it takes it or not.
LEMMA OfferedCounts ==
    ASSUME NEW S \in SUBSET Message, Chained(S),
           \A x \in S : Own(x) <= MaxSends,
           NEW l, BuiltFrom(l, S), NEW taken \in SUBSET S, NEW n,
           Remembers(l, taken, n), NEW m \in S
    PROVE  /\ \A q \in Peers :
                 l.senderClock[q] <= AddWithReason(l, m).senderClock[q]
           /\ Own(m) <= AddWithReason(l, m).senderClock[m.sender]
<1>. DEFINE k == AddWithReason(l, m)
            c == l.senderClock
<1>1. /\ l \in LedgerRecord /\ m \in Message /\ m.vc[m.sender] > 0
      /\ c \in VectorClocks /\ m.sender \in Peers /\ Own(m) \in Nat
  BY DEF BuiltFrom, Chained, Own, LedgerRecord, Message, VectorClocks
<1>2. \A q \in Peers : c[q] \in Nat
  BY <1>1 DEF VectorClocks
<1>3. CASE AddReason(l, m) = NoReason
  <2>1. k.senderClock = [c EXCEPT ![m.sender] = Own(m)]
    BY <1>1, <1>3, AcceptedFields DEF Own
  <2>2. c[m.sender] < Own(m)
    BY <1>3, RemembersAccepted
  <2>. HIDE DEF k
  <2>3. \A q \in Peers :
           k.senderClock[q] = IF q = m.sender THEN Own(m) ELSE c[q]
    BY <1>1, <2>1 DEF VectorClocks
  <2>4. /\ \A q \in Peers : c[q] <= k.senderClock[q]
        /\ Own(m) <= k.senderClock[m.sender]
    BY <1>1, <1>2, <2>2, <2>3
  <2>. QED BY <2>4 DEF k
<1>4. CASE AddReason(l, m) # NoReason
  <2>1. k.senderClock = c
    BY <1>1, <1>4, Refused
  <2>2. Duplicate(l, m) \/ Regression(l, m)
    BY <1>4, ChainNeverForks DEF AddReason
  <2>3. ASSUME Duplicate(l, m) PROVE Own(m) <= c[m.sender]
    <3>1. PICK x \in taken : x.id = m.id /\ Own(x) <= c[x.sender]
      BY <2>3 DEF Duplicate, Remembers
    <3>2. x.sender = m.sender /\ Own(x) = Own(m)
      BY <3>1, NameOfMessage
    <3>. QED BY <3>1, <3>2
  <2>4. ASSUME Regression(l, m) PROVE Own(m) <= c[m.sender]
    BY <2>4 DEF Regression, Own
  <2>. HIDE DEF k
  <2>5. /\ \A q \in Peers : c[q] <= k.senderClock[q]
        /\ Own(m) <= k.senderClock[m.sender]
    BY <1>2, <2>1, <2>2, <2>3, <2>4
  <2>. QED BY <2>5 DEF k
<1>. QED BY <1>3, <1>4

\* No ledger's clock map goes back.
LEMMA NextClocks ==
    ASSUME IInv, OrderInv, HeardInv, [Next]_vars, NEW n \in Peers
    PROVE  \A q \in Peers :
              /\ ledger[n].senderClock[q] <= ledger'[n].senderClock[q]
              /\ {ledger[n].senderClock[q], ledger'[n].senderClock[q]}
                    \subseteq Nat
<1>1. /\ sent \in SUBSET Message /\ Chained(sent) /\ BuiltFrom(ledger[n], sent)
      /\ \A x \in sent : Own(x) <= MaxSends
      /\ Taken(n) \subseteq sent /\ Remembers(ledger[n], Taken(n), n)
      /\ ledger[n].senderClock \in VectorClocks
  BY CountsBounded, TakenSent
     DEF IInv, Clocks, Chains, Ledgers, OrderInv, HeardInv, LedgerRecord
<1>2. \A q \in Peers : ledger[n].senderClock[q] \in Nat
  BY <1>1 DEF VectorClocks
<1>3. CASE SameList(ledger[n], ledger'[n])
  BY <1>2, <1>3 DEF SameList
<1>4. ASSUME NEW m \in sent, SameList(AddWithReason(ledger[n], m), ledger'[n])
      PROVE  \A q \in Peers :
                /\ ledger[n].senderClock[q] <= ledger'[n].senderClock[q]
                /\ ledger'[n].senderClock[q] \in Nat
  <2>1. \A q \in Peers : ledger[n].senderClock[q]
                            <= AddWithReason(ledger[n], m).senderClock[q]
    BY <1>1, OfferedCounts
  <2>2. AddWithReason(ledger[n], m).senderClock \in VectorClocks
    BY <1>1, AddBuilds DEF BuiltFrom, LedgerRecord
  <2>. QED BY <1>4, <2>1, <2>2 DEF SameList, VectorClocks
<1>. QED BY <1>2, <1>3, <1>4, NextWrites DEF Wrote, Writes

\* main.go:967-980: what the relay goes through is offered to the ledger.
LEMMA NextRepairs ==
    ASSUME IInv, IInv', OrderInv, HeardInv, RepairCounts, [Next]_vars
    PROVE  RepairCounts'
<1>. DEFINE Counted(n, i) ==
       Own(repair[n].msgs[i])
          <= ledger[n].senderClock[repair[n].msgs[i].sender]
<1>1. ASSUME NEW n \in Peers, NEW i \in 1 .. repair[n].done
      PROVE  Own(repair[n].msgs[i])
                <= ledger'[n].senderClock[repair[n].msgs[i].sender]
  <2>. DEFINE m == repair[n].msgs[i]
  <2>1. m \in sent
    <3>1. /\ repair[n].msgs \in Seq(sent) /\ Len(repair[n].msgs) \in Nat
          /\ repair[n].done \in Nat /\ repair[n].done <= Len(repair[n].msgs)
      BY RepairFields DEF IInv
    <3>2. i \in 1 .. Len(repair[n].msgs)
      BY <3>1
    <3>. QED BY <3>1, <3>2
  <2>2. Own(m) <= ledger[n].senderClock[m.sender]
    BY DEF RepairCounts
  <2>. HIDE DEF m
  <2>3. m.sender \in Peers /\ Own(m) \in Nat
    BY <2>1 DEF IInv, Clocks, Message, VectorClocks, Own
  <2>4. Own(m) <= ledger'[n].senderClock[m.sender]
    BY <2>2, <2>3, NextClocks
  <2>. QED BY <2>4 DEF m
<1>2. ASSUME NEW n \in Peers, RepairAdd(n)
      PROVE  \A i \in 1 .. repair'[n].done :
                Own(repair'[n].msgs[i])
                   <= ledger'[n].senderClock[repair'[n].msgs[i].sender]
  <2>. DEFINE r == repair[n]
              c == r.done + 1
              m == r.msgs[c]
              l == Accept(ledger[n], m)
              next == IF AddReason(ledger[n], m) = NoReason
                      THEN "merge" ELSE "add"
  <2>1. /\ r.done < Len(r.msgs) /\ ledger' = [ledger EXCEPT ![n] = l]
        /\ repair' = [repair EXCEPT ![n].done = @ + 1, ![n].pc = next]
    BY <1>2 DEF RepairAdd
  <2>2. /\ r \in RepairRecord /\ r.msgs \in Seq(sent) /\ Len(r.msgs) \in Nat
        /\ r.done \in Nat
    BY RepairFields DEF IInv
  <2>3. repair'[n].done = c /\ repair'[n].msgs = r.msgs
    <3>1. repair'[n] = [r EXCEPT !.done = c, !.pc = next]
      BY <2>1 DEF IInv, Repairs
    <3>. QED BY <2>2, <3>1 DEF RepairRecord
  <2>4. m \in sent
    <3>1. c \in 1 .. Len(r.msgs)
      BY <2>1, <2>2
    <3>. QED BY <2>2, <3>1
  <2>. HIDE DEF m
  <2>5. Own(m) <= ledger'[n].senderClock[m.sender]
    <3>1. /\ sent \in SUBSET Message /\ Chained(sent)
          /\ BuiltFrom(ledger[n], sent) /\ \A x \in sent : Own(x) <= MaxSends
          /\ Taken(n) \subseteq sent /\ Remembers(ledger[n], Taken(n), n)
      BY CountsBounded, TakenSent
         DEF IInv, Clocks, Chains, Ledgers, OrderInv, HeardInv
    <3>2. Own(m) <= AddWithReason(ledger[n], m).senderClock[m.sender]
      BY <2>4, <3>1, OfferedCounts
    <3>3. SameList(AddWithReason(ledger[n], m), l)
      BY <2>4, <3>1, AcceptWrites
    <3>. HIDE DEF l
    <3>4. ledger'[n] = l
      BY <2>1 DEF IInv, Ledgers
    <3>. QED BY <3>2, <3>3, <3>4 DEF SameList
  <2>6. ASSUME NEW i \in 1 .. c
        PROVE  Own(r.msgs[i]) <= ledger'[n].senderClock[r.msgs[i].sender]
    <3>1. CASE i = c
      BY <2>5, <3>1 DEF m
    <3>2. CASE i # c
      <4>1. i \in 1 .. repair[n].done
        BY <2>2, <3>2
      <4>. QED BY <1>1, <4>1
    <3>. QED BY <3>1, <3>2
  <2>. HIDE DEF r, c, l
  <2>. QED BY <2>3, <2>6
<1>3. ASSUME NEW n \in Peers,
             \/ /\ repair'[n].msgs = repair[n].msgs
                /\ repair'[n].done = repair[n].done
             \/ repair'[n].done = 0
      PROVE  \A i \in 1 .. repair'[n].done :
                Own(repair'[n].msgs[i])
                   <= ledger'[n].senderClock[repair'[n].msgs[i].sender]
  <2>1. CASE repair'[n].done = 0
    <3>1. 1 .. 0 = {}
      OBVIOUS
    <3>. QED BY <2>1, <3>1
  <2>2. CASE /\ repair'[n].msgs = repair[n].msgs
             /\ repair'[n].done = repair[n].done
    <3>1. \A i \in 1 .. repair[n].done :
             Own(repair[n].msgs[i])
                <= ledger'[n].senderClock[repair[n].msgs[i].sender]
      BY <1>1
    <3>. QED BY <2>2, <3>1
  <2>. QED BY <1>3, <2>1, <2>2
<1>4. ASSUME NEW n \in Peers
      PROVE  \/ RepairAdd(n)
             \/ /\ repair'[n].msgs = repair[n].msgs
                /\ repair'[n].done = repair[n].done
             \/ repair'[n].done = 0
  <2>. DEFINE Goes ==
         \/ RepairAdd(n)
         \/ /\ repair'[n].msgs = repair[n].msgs
            /\ repair'[n].done = repair[n].done
         \/ repair'[n].done = 0
  <2>1. repair \in [Peers -> RepairRecord]
    BY DEF IInv, Repairs
  <2>2. CASE UNCHANGED repair
    BY <2>2
  <2>3. ASSUME NEW q \in Peers, RepairAdd(q) PROVE Goes
    BY <2>1, <2>3 DEF RepairAdd
  <2>4. ASSUME NEW q \in Peers, StartRepair(q) PROVE Goes
    <3>. DEFINE s == Head(controls[q]).msgs
    <3>1. repair' = [repair EXCEPT
                       ![q] = [NoRepair EXCEPT !.pc = "add", !.msgs = s]]
      BY <2>4 DEF StartRepair
    <3>. HIDE DEF s
    <3>2. n = q => repair'[n] = [NoRepair EXCEPT !.pc = "add", !.msgs = s]
      BY <2>1, <3>1
    <3>3. n # q => repair'[n] = repair[n]
      BY <2>1, <3>1
    <3>. QED BY <3>2, <3>3 DEF NoRepair
  <2>5. ASSUME NEW q \in Peers, RepairMerge(q) PROVE Goes
    <3>1. repair' = [repair EXCEPT ![q].pc = "add", ![q].repaired = @ + 1]
      BY <2>5 DEF RepairMerge
    <3>2. n = q => repair'[n] = [repair[n] EXCEPT !.pc = "add",
                                                  !.repaired = @ + 1]
      BY <2>1, <3>1
    <3>3. n # q => repair'[n] = repair[n]
      BY <2>1, <3>1
    <3>. QED BY <2>1, <3>2, <3>3 DEF RepairRecord
  <2>6. ASSUME NEW q \in Peers, FinishRepair(q) PROVE Goes
    <3>1. repair' = [repair EXCEPT ![q] = NoRepair]
      BY <2>6 DEF FinishRepair
    <3>. QED BY <2>1, <3>1 DEF NoRepair
  <2>7. ASSUME NEW q \in Peers, Join(q) PROVE Goes
    BY <2>2, <2>7 DEF Join, goVars
  <2>8. ASSUME NEW q \in Peers, Send(q) PROVE Goes
    BY <2>2, <2>8 DEF Send, Sign, Publish, PublishFails, AddOwn
  <2>9. ASSUME NEW q \in Peers, MessagesRelay(q) PROVE Goes
    BY <2>2, <2>9 DEF MessagesRelay, AcceptLive, MergeLive
  <2>10. ASSUME NEW q \in Peers, AnswerRequest(q) PROVE Goes
    BY <2>2, <2>10 DEF AnswerRequest, goVars
  <2>11. ASSUME NEW q \in Peers, Sync(q) PROVE Goes
    BY <2>2, <2>11
       DEF Sync, RequestSync, PublishRequest, TimerReads, TimerSetsIdle
  <2>12. ASSUME NEW p \in net, Receive(p) PROVE Goes
    BY <2>2, <2>12 DEF Receive, goVars
  <2>13. CASE UNCHANGED vars
    BY <2>2, <2>13 DEF vars, goVars
  <2>14. ASSUME NEW q \in Peers, ControlsRelay(q) PROVE Goes
    BY <2>3, <2>4, <2>5, <2>6, <2>10, <2>14 DEF ControlsRelay
  <2>15. \/ \E q \in Peers : \/ Join(q) \/ Send(q) \/ MessagesRelay(q)
                            \/ ControlsRelay(q) \/ Sync(q)
         \/ \E p \in net : Receive(p)
         \/ UNCHANGED vars
    BY DEF Next
  <2>16. Goes
    BY <2>7, <2>8, <2>9, <2>11, <2>12, <2>13, <2>14, <2>15
  <2>. QED BY <2>16 DEF Goes
<1>. QED BY <1>2, <1>3, <1>4 DEF RepairCounts, Own

-----------------------------------------------------------------------------
(* The theorems.                                                           *)

\* main.go:162-184, pubsub.go:100-106: every variable keeps its shape and no
\* channel overflows.
THEOREM TypeCorrect == Spec => []TypeOK
<1>1. IInv => TypeOK
  <2>. SUFFICES ASSUME IInv PROVE TypeOK
    OBVIOUS
  <2>1. /\ joined \in [Peers -> BOOLEAN]
        /\ sync \in [Peers -> {"sleeping", "publishing", "waiting", "expired",
                               "done"}]
    BY DEF IInv, Scalars
  <2>2. vc \in [Peers -> VectorClocks] /\ sent \subseteq Message
    BY DEF IInv, Clocks
  <2>3. prevHash \in [Peers -> Nat]
    <3>1. \A n \in Peers : vc[n][n] \in Nat
      BY <2>2 DEF VectorClocks
    <3>2. \A n \in Peers : Nth(n, vc[n][n]) \in Nat
      BY <3>1, NthDiffers
    <3>. QED BY <3>2 DEF IInv, Chains
  <2>4. ledger \in [Peers -> LedgerRecord]
    BY DEF IInv, Ledgers
  <2>5. \A n \in Peers : shown[n] \subseteq sent
    BY DEF IInv, Screens
  <2>6. \A n \in Peers : \A t \in Threads(n) :
           \/ sending[n][t] = Idle
           \/ sending[n][t].pc \in {"signed", "published"}
              /\ sending[n][t].msg \in sent
    BY DEF IInv, Sendings, SendingOK
  <2>7. \A p \in net : {p.from, p.to} \subseteq Peers /\ p.from # p.to
    BY DEF IInv, Nets
  <2>8. ASSUME NEW n \in Peers
        PROVE  /\ messages[n] \in Seq(sent) /\ Len(messages[n]) <= ChanCap
               /\ Len(controls[n]) <= ChanCap
               /\ merging[n] \in sent \cup {None}
               /\ repair[n].msgs \in Seq(sent)
               /\ repair[n].repaired <= repair[n].done
               /\ repair[n].done <= Len(repair[n].msgs)
               /\ repair[n].pc \in {"idle", "add", "merge"}
    <3>1. messages[n] \in Seq(sent) /\ Len(messages[n]) <= ChanCap
          /\ Len(controls[n]) <= ChanCap
      BY DEF IInv, Channels
    <3>2. merging[n] \in sent \cup {None}
      BY DEF IInv, Mergings
    <3>. QED BY <3>1, <3>2, RepairFields DEF IInv
  <2>. QED BY <2>1, <2>2, <2>3, <2>4, <2>5, <2>6, <2>7, <2>8 DEF TypeOK
<1>. QED BY <1>1, Invariance, PTL

\* vector.go:26-52, main.go:199-208: whoever counts a message knew everything
\* its sender knew, for any number of peers, goroutines and lost packets.
THEOREM ClocksAlwaysCausal == Spec => []CausalClocks
<1>1. IInv => CausalClocks
  BY DEF IInv, Clocks, Closed, Own, CausalClocks
<1>. QED BY <1>1, Invariance, PTL

\* main.go:382-386: what a peer shows is in the clock of its next message.
THEOREM ScreenAlwaysKnown == Spec => []ScreenIsKnown
<1>1. IInv => ScreenIsKnown
  BY DEF IInv, Screens
<1>. QED BY <1>1, Invariance, PTL

\* main.go:199-208: honest peers are never taken for equivocators, however
\* their goroutines interleave.
THEOREM HonestNeverForks == Spec => []HonestNeverFork
<1>1. IInv => HonestNeverFork
  BY DEF IInv, Ledgers, BuiltFrom, HonestNeverFork
<1>. QED BY <1>1, Invariance, PTL

\* main.go:961-964, ledger.go:142-155: a peer that joins with nothing takes
\* the whole of any response, whatever was evicted, left out as known, cut by
\* the limit or reordered on its way to the peer that answers.
THEOREM ResponsesReplayable == Spec => []ResponseReplayable
<1>1. IInv /\ OrderInv => ResponseReplayable
  BY OrderedResponses
<1>. QED BY <1>1, Invariance, Ordered, PTL

\* main.go:188-233, 350-390: for any peers, goroutines, losses, orders and
\* repairs, and however small the ledgers are, what a peer hears of a sender is
\* a part of the sender's one chain, in its order and without repetition.
THEOREM Implements == Spec => ImplementsAbs
<1>1. Init => Abs!Init
  <2>. SUFFICES ASSUME Init PROVE Abs!Init
    OBVIOUS
  <2>1. ASSUME NEW n \in Peers PROVE Heard(n) = {}
    <3>1. Taken(n) = {}
      BY InitHeard
    <3>. QED BY <3>1 DEF Heard, Decided
  <2>2. sent = {}
    BY DEF Init
  <2>. QED BY <2>1, <2>2 DEF Abs!Init
<1>2. /\ IInv /\ IInv' /\ OrderInv /\ HeardInv /\ [Next]_vars
      => [Abs!Next]_<<sent, [n \in Peers |-> Heard(n)]>>
  BY NextImplements
<1>. QED
  BY <1>1, <1>2, Invariance, Ordered, Hearing, PTL
     DEF Spec, ImplementsAbs, Abs!Spec

\* While two peers write, every list is in the ledger's own order.
LEMMA Agreeing == Spec => []AgreeInv
<1>1. Init => AgreeInv
  <2>. SUFFICES ASSUME Init PROVE AgreeInv
    OBVIOUS
  <2>1. sent = {} /\ ledger = [n \in Peers |-> NewLedger]
    BY DEF Init
  <2>2. NewLedger.messages = << >>
    BY DEF NewLedger
  <2>3. Increasing(<< >>)
    BY DEF Increasing
  <2>. HIDE DEF NewLedger
  <2>4. \A n \in Peers : ledger[n].messages = << >>
    BY <2>1, <2>2
  <2>. QED BY <2>1, <2>3, <2>4 DEF AgreeInv, Apart
<1>2. IInv /\ OrderInv /\ AgreeInv /\ [Next]_vars => AgreeInv'
  BY NextAgrees
<1>. QED BY <1>1, <1>2, Invariance, Ordered, PTL DEF Spec

\* ledger.go:237-257: as long as at most two of the peers have written, peers
\* that list the same messages list them in the same order, whatever order
\* they came in.  (With a third writer the order has cycles: run room_order.)
THEOREM TwoSendersAgree == Spec => [](TwoSenders(sent) => ReplicasAgree)
<1>1. IInv /\ AgreeInv => (TwoSenders(sent) => ReplicasAgree)
  <2>. SUFFICES ASSUME IInv, AgreeInv, TwoSenders(sent),
                       NEW n \in Peers, NEW q \in Peers,
                       ToSet(ledger[n].messages) = ToSet(ledger[q].messages)
                PROVE  ledger[n].messages = ledger[q].messages
    BY DEF ReplicasAgree
  <2>1. /\ sent \in SUBSET Message
        /\ ledger[n].messages \in Seq(sent) /\ ledger[q].messages \in Seq(sent)
        /\ Increasing(ledger[n].messages) /\ Increasing(ledger[q].messages)
    BY DEF IInv, Clocks, Ledgers, BuiltFrom, AgreeInv
  <2>. QED BY <2>1, IncreasingAgree
<1>. QED BY <1>1, Invariance, Agreeing, PTL

\* ledger.go:237-257: as long as at most two of the peers have written, no
\* list has a message before one that happened before it.
THEOREM TwoSendersListCausally ==
    Spec => [](TwoSenders(sent) => ListsAreCausal)
<1>1. IInv /\ AgreeInv => (TwoSenders(sent) => ListsAreCausal)
  <2>. SUFFICES ASSUME IInv, AgreeInv, TwoSenders(sent), NEW n \in Peers,
                       NEW i \in 1 .. Len(ledger[n].messages),
                       NEW j \in 1 .. Len(ledger[n].messages),
                       Compare(ledger[n].messages[i].vc,
                               ledger[n].messages[j].vc) = "before"
                PROVE  i < j
    BY DEF ListsAreCausal
  <2>. DEFINE x == ledger[n].messages[i]
              y == ledger[n].messages[j]
  <2>1. /\ x \in Message /\ y \in Message
        /\ Increasing(ledger[n].messages)
    <3>1. sent \in SUBSET Message /\ ledger[n].messages \in Seq(sent)
      BY DEF IInv, Clocks, Ledgers, BuiltFrom
    <3>. QED BY <3>1 DEF AgreeInv
  <2>2. /\ x.vc \in VectorClocks /\ y.vc \in VectorClocks
    BY <2>1 DEF Message
  <2>3. /\ Compare(y.vc, x.vc) = "after" /\ x.vc # y.vc
    BY <2>2, CompareMeaning
  <2>4. ~ Less(y, x) /\ x.vc # y.vc
    BY <2>3 DEF Less
  <2>5. i # j /\ i \in Nat /\ j \in Nat
    BY <2>4
  <2>6. j < i => Less(y, x)
    BY <2>1 DEF Increasing
  <2>. QED BY <2>4, <2>5, <2>6
<1>. QED BY <1>1, Invariance, Agreeing, PTL

\* main.go:350-390, 967-980: what a ledger lists is on the screen or about to
\* be, and until its limit evicts something all that was shown is listed: the
\* ledger a peer answers a sync request from is what its page shows.
THEOREM ListsAreScreens == Spec => []ListIsScreen
<1>1. Init => ListIsScreen
  <2>. SUFFICES ASSUME Init, NEW n \in Peers
                PROVE  /\ ToSet(ledger[n].messages) \subseteq Taken(n)
                       /\ Heard(n) \subseteq ToSet(ledger[n].messages)
    BY DEF ListIsScreen, Heard
  <2>1. ledger[n].messages = << >>
    BY DEF Init, NewLedger
  <2>2. Taken(n) = {}
    BY InitHeard
  <2>. QED BY <2>1, <2>2 DEF ToSet, Heard, Decided
<1>2. ASSUME IInv, IInv', OrderInv, OrderInv', AgreeInv, HeardInv, HeardInv',
             ListIsScreen, [Next]_vars
      PROVE  ListIsScreen'
  <2>. SUFFICES ASSUME NEW n \in Peers
                PROVE  /\ ToSet(ledger'[n].messages) \subseteq Taken(n)'
                       /\ Cardinality(sent') <= MaxMessages =>
                             Heard(n)' \subseteq ToSet(ledger'[n].messages)
    BY DEF ListIsScreen
  <2>1. ToSet(ledger'[n].messages) \subseteq Taken(n)'
    <3>1. ledger'[n].messages \in Seq(sent')
      BY <1>2 DEF IInv, Ledgers, BuiltFrom
    <3>2. \A i \in 1 .. Len(ledger'[n].messages) :
             ledger'[n].messages[i] \in Taken(n)'
      BY <1>2 DEF HeardInv, Remembers
    <3>. QED BY <3>1, <3>2 DEF ToSet
  <2>2. Cardinality(sent') <= MaxMessages =>
           Heard(n)' \subseteq ToSet(ledger'[n].messages)
    BY <1>2, NextListed
  <2>. QED BY <2>1, <2>2
<1>. QED
  BY <1>1, <1>2, Invariance, Ordered, Agreeing, Hearing, PTL DEF Spec

\* main.go:967-980: whatever a relay went through of a response is counted by
\* its ledger, taken or refused, and whatever the other goroutines did since.
THEOREM RepairsCounted == Spec => []RepairCounts
<1>1. Init => RepairCounts
  <2>. SUFFICES ASSUME Init, NEW n \in Peers PROVE repair[n].done = 0
    BY DEF RepairCounts
  <2>. QED BY DEF Init, NoRepair
<1>2. IInv /\ IInv' /\ OrderInv /\ HeardInv /\ RepairCounts /\ [Next]_vars
      => RepairCounts'
  BY NextRepairs
<1>. QED BY <1>1, <1>2, Invariance, Ordered, Hearing, PTL DEF Spec

\* ledger.go:237-257: in a room of two peers replicas agree always.
THEOREM TwoPeersAgree ==
    ASSUME NEW a, NEW b, Peers \subseteq {a, b}
    PROVE  Spec => []ReplicasAgree
<1>1. IInv => TwoSenders(sent)
  <2>1. IInv => \A x \in sent : x.sender = a \/ x.sender = b
    BY DEF IInv, Clocks, Message
  <2>. QED BY <2>1 DEF TwoSenders
<1>. QED BY <1>1, Invariance, TwoSendersAgree, PTL
=============================================================================
