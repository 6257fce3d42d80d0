----------------------------- MODULE LedgerProofs -----------------------------
(***************************************************************************)
(* The safety properties of Ledger for every set of peers, every maximum,  *)
(* every set of messages and every bound on the calls.                     *)
(***************************************************************************)
EXTENDS Ledger, LedgerOpsProofs, FiniteSetTheorems

\* The inductive invariant: the checked invariants, and why they persist.
IInv ==
    /\ TypeOK
    /\ IdsMatchList
    /\ SortIsFixpoint
    /\ SenderCausal
    /\ IsFiniteSet(accepted)
    /\ VerifiedOnce
    /\ GuardsRemember

-----------------------------------------------------------------------------
(* What a call does to the ledger.                                         *)

\* ledger.go:69-87: a refused message changes counters only.
LEMMA RejectStep ==
    ASSUME TypeOK, NEW m \in Messages, Add(m), AddReason(ledger, m) # NoReason
    PROVE  /\ ledger' \in LedgerRecord
           /\ accepted' = accepted
           /\ ledger'.ids = ledger.ids
           /\ ledger'.messages = ledger.messages
           /\ ledger'.senderClock = ledger.senderClock
           /\ ledger'.prevHashBySender = ledger.prevHashBySender
           /\ ledger'.verified = ledger.verified
<1>1. accepted' = accepted /\ ledger' = AddWithReason(ledger, m)
  BY DEF Add
<1>2. ledger \in LedgerRecord
  BY DEF TypeOK
<1>. QED BY <1>1, <1>2, Refused

\* ledger.go:89-107: what an accepted message changes.
LEMMA AcceptStep ==
    ASSUME TypeOK, NEW m \in Messages, Add(m), AddReason(ledger, m) = NoReason
    PROVE  /\ ~ Duplicate(ledger, m)
           /\ ~ Regression(ledger, m)
           /\ ~ Fork(ledger, m)
           /\ accepted' = accepted \cup {m}
           /\ ledger'.ids =
                 (ledger.ids \cup {m.id}) \ Evicted(Sorted(ledger.messages, m))
           /\ ledger'.messages = Trim(Sorted(ledger.messages, m))
           /\ ledger'.senderClock =
                 [ledger.senderClock EXCEPT ![m.sender] = m.vc[m.sender]]
           /\ ledger'.prevHashBySender =
                 IF m.prevHash = NoHash THEN ledger.prevHashBySender
                 ELSE ledger.prevHashBySender
                         \cup {<<m.sender, m.prevHash, m.id>>}
           /\ ledger'.verified = ledger.verified + 1
           /\ ledger' \in LedgerRecord
<1>1. accepted' = accepted \cup {m} /\ ledger' = AddWithReason(ledger, m)
  BY DEF Add
<1>2. ledger \in LedgerRecord /\ m \in Message /\ m.vc[m.sender] > 0
  BY MessagesAssumption DEF TypeOK
<1>. QED BY <1>1, <1>2, AcceptedFields

-----------------------------------------------------------------------------
(* The list after an acceptance, element by element.                       *)

\* ledger.go:97-105: an acceptance inserts the message and drops the oldest.
LEMMA NewList ==
    ASSUME TypeOK, NEW m \in Messages, Add(m),
           AddReason(ledger, m) = NoReason
    PROVE  /\ ledger.messages \in Seq(accepted)
           /\ Sorted(ledger.messages, m) \in Seq(accepted')
           /\ ledger'.messages \in Seq(accepted')
           /\ \E k \in Nat : InsertedAt(ledger.messages, m,
                                        Sorted(ledger.messages, m), k)
           /\ \E d \in Nat : DroppedFirst(Sorted(ledger.messages, m),
                                          ledger'.messages, d)
<1>. DEFINE s == ledger.messages
            t == Sorted(s, m)
<1>1. accepted' = accepted \cup {m} /\ ledger'.messages = Trim(t)
  BY AcceptStep
<1>2. accepted' \in SUBSET Message /\ m \in accepted'
  BY <1>1, MessagesAssumption DEF TypeOK
<1>3. s \in Seq(accepted) /\ s \in Seq(accepted')
  BY <1>1 DEF TypeOK
<1>4. t \in Seq(accepted') /\ InsertedAt(s, m, t, InsertPosition(s, m))
  BY <1>2, <1>3, SortedElements
<1>5. InsertPosition(s, m) \in Nat
  BY <1>3, <1>4 DEF InsertedAt
<1>6. Trim(t) \in Seq(accepted') /\ \E d \in Nat : DroppedFirst(t, Trim(t), d)
  BY <1>4, TrimElements
<1>. QED BY <1>1, <1>3, <1>4, <1>5, <1>6

-----------------------------------------------------------------------------
(* Each part of the invariant after an acceptance.                         *)

\* ledger.go:89-105: the id set follows the list.
LEMMA IdsMatchListStep ==
    ASSUME TypeOK, IdsMatchList, NEW m \in Messages, Add(m),
           AddReason(ledger, m) = NoReason
    PROVE  IdsMatchList'
<1>. DEFINE s == ledger.messages
            t == Sorted(s, m)
            u == ledger'.messages
<1>1. PICK k \in Nat : InsertedAt(s, m, t, k)
  BY NewList
<1>2. PICK d \in Nat : DroppedFirst(t, u, d)
  BY NewList
<1>3. s \in Seq(accepted) /\ t \in Seq(accepted') /\ u \in Seq(accepted')
  BY NewList
<1>4. m.id \notin ledger.ids
      /\ ledger'.ids = (ledger.ids \cup {m.id}) \ Evicted(t)
  BY AcceptStep DEF Duplicate
<1>5. /\ ledger.ids = {s[i].id : i \in 1 .. Len(s)}
      /\ \A i, j \in 1 .. Len(s) : s[i].id = s[j].id => i = j
  BY <1>3 DEF IdsMatchList, Indices
<1>. HIDE DEF s, t, u
<1>6. /\ Len(s) \in Nat /\ MaxMessages \in Nat /\ Len(u) \in Nat
      /\ k \in 0 .. Len(s) /\ Len(t) = Len(s) + 1 /\ d \in 0 .. Len(t)
      /\ d = IF Len(t) > MaxMessages THEN Len(t) - MaxMessages ELSE 0
      /\ Len(u) = Len(t) - d /\ t[k + 1] = m
  BY <1>3, <1>1, <1>2, MaxMessagesAssumption DEF InsertedAt, DroppedFirst
<1>7. ASSUME NEW i \in 1 .. Len(t), NEW j \in 1 .. Len(t),
             t[i].id = t[j].id
      PROVE  i = j
  <2>1. \A x \in 1 .. Len(s) : s[x].id # m.id
    BY <1>4, <1>5
  <2>2. ASSUME NEW x \in 1 .. Len(t), x # k + 1 PROVE t[x].id # m.id
    BY <1>3, <1>1, <2>1, <2>2, InsertedOld
  <2>3. i = k + 1 <=> j = k + 1
    BY <1>6, <1>7, <2>2
  <2>4. CASE i # k + 1 /\ j # k + 1
    <3>1. Old(k, i) \in 1 .. Len(s) /\ t[i] = s[Old(k, i)]
      BY <1>3, <1>1, <2>4, InsertedOld
    <3>2. Old(k, j) \in 1 .. Len(s) /\ t[j] = s[Old(k, j)]
      BY <1>3, <1>1, <2>4, InsertedOld
    <3>3. Old(k, i) = Old(k, j)
      BY <1>5, <1>7, <3>1, <3>2
    <3>. QED BY <1>6, <2>4, <3>3 DEF Old
  <2>. QED BY <2>3, <2>4
<1>8. ledger.ids \cup {m.id} = {t[i].id : i \in 1 .. Len(t)}
  <2>1. ASSUME NEW i \in 1 .. Len(t)
        PROVE  t[i].id \in ledger.ids \cup {m.id}
    <3>1. CASE i = k + 1
      BY <1>6, <3>1
    <3>2. CASE i # k + 1
      <4>1. Old(k, i) \in 1 .. Len(s) /\ t[i] = s[Old(k, i)]
        BY <1>3, <1>1, <3>2, InsertedOld
      <4>. QED BY <1>5, <4>1
    <3>. QED BY <3>1, <3>2
  <2>2. \A x \in ledger.ids : \E j \in 1 .. Len(t) : t[j].id = x
    BY <1>3, <1>5, <1>1, InsertedNew
  <2>3. \E j \in 1 .. Len(t) : t[j].id = m.id
    BY <1>6
  <2>. QED BY <2>1, <2>2, <2>3
<1>9. Evicted(t) = {t[i].id : i \in 1 .. d}
  <2>1. 1 .. (Len(t) - MaxMessages) = 1 .. d
    BY <1>6
  <2>. QED BY <2>1 DEF Evicted
<1>10. ASSUME NEW i \in 1 .. Len(u)
      PROVE  i + d \in 1 .. Len(t) /\ u[i] = t[i + d]
  <2>1. u[i] = t[i + d]
    BY <1>2 DEF DroppedFirst
  <2>2. i + d \in 1 .. Len(t)
    BY <1>6
  <2>. QED BY <2>1, <2>2
<1>11. ledger'.ids = {u[i].id : i \in 1 .. Len(u)}
  <2>1. ASSUME NEW i \in 1 .. Len(u)
        PROVE  u[i].id \in ledger'.ids
    <3>1. \A j \in 1 .. d : t[j].id # t[i + d].id
      <4>. SUFFICES ASSUME NEW j \in 1 .. d, t[j].id = t[i + d].id
                    PROVE  FALSE
        OBVIOUS
      <4>1. j \in 1 .. Len(t) /\ j # i + d
        BY <1>6
      <4>. QED BY <1>7, <1>10, <4>1
    <3>. QED BY <1>4, <1>8, <1>9, <1>10, <3>1
  <2>2. ASSUME NEW x \in ledger'.ids
        PROVE  \E i \in 1 .. Len(u) : x = u[i].id
    <3>1. PICK i \in 1 .. Len(t) : x = t[i].id /\ i \notin 1 .. d
      BY <1>4, <1>8, <1>9
    <3>2. i - d \in 1 .. Len(u) /\ (i - d) + d = i
      BY <1>6, <3>1
    <3>. QED BY <1>10, <3>1, <3>2
  <2>. QED BY <2>1, <2>2
<1>12. ASSUME NEW i \in 1 .. Len(u), NEW j \in 1 .. Len(u),
              u[i].id = u[j].id
       PROVE  i = j
  <2>1. i + d = j + d
    BY <1>7, <1>10, <1>12
  <2>. QED BY <1>6, <2>1
<1>13. Len(u) <= MaxMessages
  BY <1>6
<1>14. DOMAIN u = 1 .. Len(u)
  BY <1>3
<1>. QED BY <1>11, <1>12, <1>13, <1>14 DEF IdsMatchList, Indices, u

\* ledger.go:98: the insertion leaves no neighbours out of order.
LEMMA SortIsFixpointStep ==
    ASSUME TypeOK, SortIsFixpoint, NEW m \in Messages, Add(m),
           AddReason(ledger, m) = NoReason
    PROVE  SortIsFixpoint'
<1>. DEFINE s == ledger.messages
            t == Sorted(s, m)
            u == ledger'.messages
<1>1. s \in Seq(Message) /\ t \in Seq(Message) /\ u \in Seq(Message)
      /\ m \in Message
  <2>1. accepted \subseteq Message /\ accepted' \subseteq Message
    <3>1. accepted' = accepted \cup {m} /\ accepted \subseteq Messages
      BY AcceptStep DEF TypeOK
    <3>. QED BY <3>1, MessagesAssumption
  <2>. QED BY <2>1, NewList, MessagesAssumption
<1>2. PICK k \in Nat : InsertedAt(s, m, t, k)
  BY NewList
<1>3. PICK d \in Nat : DroppedFirst(t, u, d)
  BY NewList
<1>4. \A i \in 1 .. Len(s) : i + 1 <= Len(s) => ~ Less(s[i + 1], s[i])
  <2>1. DOMAIN s = 1 .. Len(s) /\ Len(s) \in Nat
    BY <1>1
  <2>2. \A i \in DOMAIN s : i + 1 \in DOMAIN s => ~ Less(s[i + 1], s[i])
    BY DEF SortIsFixpoint, Indices
  <2>. HIDE DEF s
  <2>3. ASSUME NEW i \in 1 .. Len(s), i + 1 <= Len(s)
        PROVE  i + 1 \in 1 .. Len(s)
    BY <2>1, <2>3
  <2>. QED BY <2>1, <2>2, <2>3
<1>. HIDE DEF s, t, u
<1>5. \A i \in 1 .. Len(t) : i + 1 <= Len(t) => ~ Less(t[i + 1], t[i])
  BY <1>1, <1>2, <1>4, InsertedAdjacent
<1>6. /\ Len(u) = Len(t) - d /\ Len(t) \in Nat
      /\ \A i \in 1 .. Len(u) : u[i] = t[i + d]
  BY <1>1, <1>3 DEF DroppedFirst
<1>7. ASSUME NEW i \in 1 .. Len(u), i + 1 \in 1 .. Len(u)
      PROVE  ~ Less(u[i + 1], u[i])
  <2>1. i + d \in 1 .. Len(t) /\ (i + d) + 1 <= Len(t)
        /\ (i + 1) + d = (i + d) + 1
    <3>1. Len(u) = Len(t) - d /\ Len(t) \in Nat /\ i + 1 <= Len(u)
      BY <1>6, <1>7
    <3>. QED BY <3>1
  <2>2. u[i] = t[i + d] /\ u[i + 1] = t[(i + d) + 1]
    BY <1>6, <1>7, <2>1
  <2>. QED BY <1>5, <2>1, <2>2
<1>8. DOMAIN u = 1 .. Len(u)
  BY <1>1
<1>. QED BY <1>7, <1>8 DEF SortIsFixpoint, Indices, u

\* ledger.go:72-73: the clock guard only lets through a message that does not
\* happen before an accepted message of the same sender.
LEMMA NewIsNotBeforeOld ==
    ASSUME TypeOK, GuardsRemember, NEW m \in Messages,
           ~ Regression(ledger, m), NEW x \in accepted, x.sender = m.sender
    PROVE  /\ x.vc[m.sender] < m.vc[m.sender]
           /\ Compare(m.vc, x.vc) # "before"
<1>1. m \in Message /\ x \in Message /\ m.vc[m.sender] > 0
  BY MessagesAssumption DEF TypeOK
<1>2. m.sender \in Peers /\ m.vc \in VectorClocks /\ x.vc \in VectorClocks
  BY <1>1 DEF Message
<1>3. /\ m.vc[m.sender] \in Nat /\ x.vc[m.sender] \in Nat
      /\ ledger.senderClock[m.sender] \in Nat
  BY <1>2 DEF TypeOK, LedgerRecord, VectorClocks
<1>4. x.vc[m.sender] <= ledger.senderClock[m.sender]
  BY <1>2 DEF GuardsRemember
<1>5. ~ (m.vc[m.sender] <= ledger.senderClock[m.sender])
  BY <1>1 DEF Regression
<1>6. x.vc[m.sender] < m.vc[m.sender]
  BY <1>3, <1>4, <1>5
<1>7. ~ Leq(m.vc, x.vc)
  BY <1>2, <1>3, <1>6 DEF Leq
<1>. QED BY <1>2, <1>6, <1>7, CompareMeaning

\* ledger.go:231-257: an acceptance keeps each sender's messages in causal
\* order.
LEMMA SenderCausalStep ==
    ASSUME TypeOK, SenderCausal, GuardsRemember, NEW m \in Messages, Add(m),
           AddReason(ledger, m) = NoReason
    PROVE  SenderCausal'
<1>. DEFINE s == ledger.messages
            t == Sorted(s, m)
            u == ledger'.messages
<1>1. /\ s \in Seq(Message) /\ t \in Seq(Message) /\ u \in Seq(Message)
      /\ m \in Message /\ s \in Seq(accepted)
  <2>1. accepted \subseteq Message /\ accepted' \subseteq Message
    <3>1. accepted' = accepted \cup {m} /\ accepted \subseteq Messages
      BY AcceptStep DEF TypeOK
    <3>. QED BY <3>1, MessagesAssumption
  <2>. QED BY <2>1, NewList, MessagesAssumption
<1>2. PICK k \in Nat : InsertedAt(s, m, t, k)
  BY NewList
<1>3. PICK d \in Nat : DroppedFirst(t, u, d)
  BY NewList
<1>4. \A i, j \in 1 .. Len(s) :
         s[i].sender = s[j].sender /\ Compare(s[i].vc, s[j].vc) = "before"
            => i < j
  BY <1>1 DEF SenderCausal, Indices
<1>5. ~ Regression(ledger, m)
  BY AcceptStep
<1>. HIDE DEF s, t, u
<1>6. t[k + 1] = m /\ k \in 0 .. Len(s) /\ Len(t) = Len(s) + 1
  BY <1>2 DEF InsertedAt
<1>7. ASSUME NEW i \in 1 .. Len(t), NEW j \in 1 .. Len(t),
             t[i].sender = t[j].sender, Compare(t[i].vc, t[j].vc) = "before"
      PROVE  i < j
  <2>1. CASE j = k + 1
    BY <1>1, <1>2, <1>6, <1>7, <2>1, InsertedCauses
  <2>2. CASE i = k + 1 /\ j # k + 1
    <3>1. t[j] \in accepted
      BY <1>1, <1>2, <2>2, InsertedOld
    <3>. QED BY <1>5, <1>6, <1>7, <2>2, <3>1, NewIsNotBeforeOld
  <2>3. CASE i # k + 1 /\ j # k + 1
    <3>1. Old(k, i) < Old(k, j)
      BY <1>1, <1>2, <1>4, <1>7, <2>3, InsertedOld
    <3>. QED BY <1>6, <2>3, <3>1 DEF Old
  <2>. QED BY <2>1, <2>2, <2>3
<1>8. /\ Len(u) = Len(t) - d /\ Len(t) \in Nat
      /\ \A i \in 1 .. Len(u) : u[i] = t[i + d]
  BY <1>1, <1>3 DEF DroppedFirst
<1>9. ASSUME NEW i \in 1 .. Len(u), NEW j \in 1 .. Len(u),
             u[i].sender = u[j].sender, Compare(u[i].vc, u[j].vc) = "before"
      PROVE  i < j
  <2>1. i + d \in 1 .. Len(t) /\ j + d \in 1 .. Len(t)
    BY <1>8
  <2>2. u[i] = t[i + d] /\ u[j] = t[j + d]
    BY <1>8
  <2>3. i + d < j + d
    BY <1>7, <1>9, <2>1, <2>2
  <2>. QED BY <2>3
<1>10. DOMAIN u = 1 .. Len(u)
  BY <1>1
<1>. QED BY <1>9, <1>10 DEF SenderCausal, Indices, u

\* ledger.go:89-96: the clock map and the predecessor index take in the
\* accepted message.
LEMMA GuardsRememberStep ==
    ASSUME TypeOK, GuardsRemember, NEW m \in Messages, Add(m),
           AddReason(ledger, m) = NoReason
    PROVE  GuardsRemember'
<1>1. /\ accepted' = accepted \cup {m}
      /\ ledger'.senderClock =
            [ledger.senderClock EXCEPT ![m.sender] = m.vc[m.sender]]
      /\ ledger'.prevHashBySender =
            IF m.prevHash = NoHash THEN ledger.prevHashBySender
            ELSE ledger.prevHashBySender
                    \cup {<<m.sender, m.prevHash, m.id>>}
      /\ ~ Regression(ledger, m)
  BY AcceptStep
<1>2. m \in Message /\ m.sender \in Peers /\ m.vc \in VectorClocks
  BY MessagesAssumption DEF Message
<1>3. ledger.senderClock \in VectorClocks
  BY DEF TypeOK, LedgerRecord
<1>4. ASSUME NEW p \in Peers, NEW x \in accepted', x.sender = p
      PROVE  x.vc[p] <= ledger'.senderClock[p]
  <2>1. CASE x = m
    <3>1. ledger'.senderClock[p] = m.vc[p] /\ m.vc[p] \in Nat
      BY <1>1, <1>2, <1>3, <1>4, <2>1 DEF VectorClocks
    <3>. QED BY <2>1, <3>1
  <2>2. CASE x \in accepted /\ p = m.sender
    <3>1. x.vc[p] < m.vc[p] /\ ledger'.senderClock[p] = m.vc[p]
      BY <1>1, <1>2, <1>3, <1>4, <2>2, NewIsNotBeforeOld DEF VectorClocks
    <3>2. x.vc[p] \in Nat /\ m.vc[p] \in Nat
      <4>1. x \in Message
        BY <2>2, MessagesAssumption DEF TypeOK
      <4>. QED BY <1>2, <4>1 DEF Message, VectorClocks
    <3>. QED BY <3>1, <3>2
  <2>3. CASE x \in accepted /\ p # m.sender
    <3>1. ledger'.senderClock[p] = ledger.senderClock[p]
      BY <1>1, <1>3, <2>3 DEF VectorClocks
    <3>. QED BY <1>4, <2>3, <3>1 DEF GuardsRemember
  <2>. QED BY <1>1, <2>1, <2>2, <2>3
<1>5. ASSUME NEW p \in Peers
      PROVE  \/ ledger'.senderClock[p] = 0
             \/ \E x \in accepted' :
                   x.sender = p /\ x.vc[p] = ledger'.senderClock[p]
  <2>1. CASE p = m.sender
    <3>1. ledger'.senderClock[p] = m.vc[p] /\ m \in accepted'
      BY <1>1, <1>2, <1>3, <2>1 DEF VectorClocks
    <3>. QED BY <2>1, <3>1
  <2>2. CASE p # m.sender
    <3>1. ledger'.senderClock[p] = ledger.senderClock[p]
      BY <1>1, <1>3, <2>2 DEF VectorClocks
    <3>. QED BY <1>1, <3>1 DEF GuardsRemember
  <2>. QED BY <2>1, <2>2
<1>6. ledger'.prevHashBySender =
         {<<x.sender, x.prevHash, x.id>> :
             x \in {y \in accepted' : y.prevHash # NoHash}}
  <2>1. ledger.prevHashBySender =
           {<<x.sender, x.prevHash, x.id>> :
               x \in {y \in accepted : y.prevHash # NoHash}}
    BY DEF GuardsRemember
  <2>2. CASE m.prevHash = NoHash
    BY <1>1, <2>1, <2>2
  <2>3. CASE m.prevHash # NoHash
    BY <1>1, <2>1, <2>3
  <2>. QED BY <2>2, <2>3
<1>. QED BY <1>4, <1>5, <1>6 DEF GuardsRemember

\* ledger.go:107: each acceptance counts one message never counted before.
LEMMA VerifiedOnceStep ==
    ASSUME TypeOK, GuardsRemember, IsFiniteSet(accepted), VerifiedOnce,
           NEW m \in Messages, Add(m), AddReason(ledger, m) = NoReason
    PROVE  IsFiniteSet(accepted') /\ VerifiedOnce'
<1>1. /\ accepted' = accepted \cup {m}
      /\ ledger'.verified = ledger.verified + 1
      /\ ~ Regression(ledger, m)
  BY AcceptStep
<1>2. m \notin accepted
  <2>. SUFFICES ASSUME m \in accepted PROVE FALSE
    OBVIOUS
  <2>1. m.vc[m.sender] < m.vc[m.sender]
    BY <1>1, NewIsNotBeforeOld
  <2>2. m.vc[m.sender] \in Nat
    BY MessagesAssumption DEF Message, VectorClocks
  <2>. QED BY <2>1, <2>2
<1>. QED BY <1>1, <1>2, FS_AddElement DEF VerifiedOnce

-----------------------------------------------------------------------------
(* The invariant.                                                          *)

\* ledger.go:89-107: an acceptance keeps the ledger's type.
LEMMA TypeOKStep ==
    ASSUME TypeOK, NEW m \in Messages, Add(m)
    PROVE  TypeOK'
<1>1. CASE AddReason(ledger, m) = NoReason
  BY <1>1, AcceptStep, NewList DEF TypeOK
<1>2. CASE AddReason(ledger, m) # NoReason
  BY <1>2, RejectStep DEF TypeOK
<1>. QED BY <1>1, <1>2

\* A new ledger is empty.
LEMMA InitIInv == Init => IInv
<1>. SUFFICES ASSUME Init PROVE IInv
  OBVIOUS
<1>1. accepted = {} /\ ledger = NewLedger
  BY DEF Init
<1>2. ledger.messages = << >> /\ ledger.ids = {} /\ ledger.verified = 0
      /\ ledger.senderClock = New /\ ledger.prevHashBySender = {}
  BY <1>1 DEF NewLedger
<1>3. ledger \in LedgerRecord
  <2>1. New \in VectorClocks
    BY DEF New, VectorClocks
  <2>. QED BY <1>1, <2>1
       DEF NewLedger, LedgerRecord, VectorClocks, Reasons, Statuses
<1>4. TypeOK
  BY <1>1, <1>2, <1>3 DEF TypeOK
<1>5. IdsMatchList /\ SortIsFixpoint /\ SenderCausal
  BY <1>2, MaxMessagesAssumption
  DEF IdsMatchList, SortIsFixpoint, SenderCausal, Indices
<1>6. IsFiniteSet(accepted) /\ VerifiedOnce
  BY <1>1, <1>2, FS_EmptySet DEF VerifiedOnce
<1>7. GuardsRemember
  BY <1>1, <1>2 DEF GuardsRemember, New
<1>. QED BY <1>4, <1>5, <1>6, <1>7 DEF IInv

\* Every call keeps the invariant.
LEMMA NextIInv == IInv /\ [Next]_vars => IInv'
<1>. SUFFICES ASSUME IInv, [Next]_vars PROVE IInv'
  OBVIOUS
<1>1. ASSUME NEW m \in Messages, Add(m), AddReason(ledger, m) = NoReason
      PROVE  IInv'
  BY <1>1, TypeOKStep, IdsMatchListStep, SortIsFixpointStep,
     SenderCausalStep, VerifiedOnceStep, GuardsRememberStep DEF IInv
<1>2. ASSUME NEW m \in Messages, Add(m), AddReason(ledger, m) # NoReason
      PROVE  IInv'
  <2>1. TypeOK'
    BY <1>2, TypeOKStep DEF IInv
  <2>2. /\ accepted' = accepted
        /\ ledger'.ids = ledger.ids
        /\ ledger'.messages = ledger.messages
        /\ ledger'.senderClock = ledger.senderClock
        /\ ledger'.prevHashBySender = ledger.prevHashBySender
        /\ ledger'.verified = ledger.verified
    BY <1>2, RejectStep DEF IInv
  <2>3. IdsMatchList' /\ SortIsFixpoint' /\ SenderCausal'
    BY <2>2 DEF IInv, IdsMatchList, SortIsFixpoint, SenderCausal, Indices
  <2>4. IsFiniteSet(accepted') /\ VerifiedOnce' /\ GuardsRemember'
    BY <2>2 DEF IInv, VerifiedOnce, GuardsRemember
  <2>. QED BY <2>1, <2>3, <2>4 DEF IInv
<1>3. CASE UNCHANGED vars
  BY <1>3 DEF vars, IInv, TypeOK, IdsMatchList, SortIsFixpoint, SenderCausal,
              VerifiedOnce, GuardsRemember, Indices
<1>. QED BY <1>1, <1>2, <1>3 DEF Next

\* The strengthened invariant holds in every reachable state.
THEOREM Invariance == Spec => []IInv
BY InitIInv, NextIInv, PTL DEF Spec

-----------------------------------------------------------------------------
(* The theorems.                                                           *)

\* ledger.go:27-42: the ledger keeps its type and lists accepted messages.
THEOREM TypeCorrect == Spec => []TypeOK
<1>1. IInv => TypeOK
  BY DEF IInv
<1>. QED BY <1>1, Invariance, PTL

\* ledger.go:89-105: the id set is the bounded list's, whatever was evicted.
THEOREM IdsAlwaysMatchList == Spec => []IdsMatchList
<1>1. IInv => IdsMatchList
  BY DEF IInv
<1>. QED BY <1>1, Invariance, PTL

\* ledger.go:98: sorting the list once more never changes it.
THEOREM SortAlwaysFixpoint == Spec => []SortIsFixpoint
<1>1. IInv => SortIsFixpoint
  BY DEF IInv
<1>. QED BY <1>1, Invariance, PTL

\* ledger.go:107: no message is ever counted as verified twice.
THEOREM VerifiedAlwaysOnce == Spec => []VerifiedOnce
<1>1. IInv => VerifiedOnce
  BY DEF IInv
<1>. QED BY <1>1, Invariance, PTL

\* ledger.go:231-257: each sender's listed messages are in causal order.
THEOREM SenderAlwaysCausal == Spec => []SenderCausal
<1>1. IInv => SenderCausal
  BY DEF IInv
<1>. QED BY <1>1, Invariance, PTL

\* The clock map says the same as the accepted messages it stands for.
LEMMA FreshMeaning ==
    ASSUME TypeOK, GuardsRemember, NEW m \in Messages
    PROVE  Abs!Fresh(m) <=> ~ Regression(ledger, m)
<1>1. m \in Message /\ m.vc[m.sender] > 0 /\ m.sender \in Peers
      /\ m.vc[m.sender] \in Nat /\ ledger.senderClock[m.sender] \in Nat
  BY MessagesAssumption DEF TypeOK, Message, LedgerRecord, VectorClocks
<1>2. ASSUME ~ Regression(ledger, m) PROVE Abs!Fresh(m)
  BY <1>2, NewIsNotBeforeOld DEF Abs!Fresh
<1>3. ASSUME Abs!Fresh(m), Regression(ledger, m) PROVE FALSE
  <2>1. m.vc[m.sender] <= ledger.senderClock[m.sender]
    BY <1>3 DEF Regression
  <2>2. PICK x \in accepted :
           x.sender = m.sender /\ x.vc[m.sender] = ledger.senderClock[m.sender]
    BY <1>1, <2>1 DEF GuardsRemember
  <2>3. x.vc[m.sender] < m.vc[m.sender]
    BY <1>3, <2>2 DEF Abs!Fresh
  <2>. QED BY <1>1, <2>1, <2>2, <2>3
<1>. QED BY <1>2, <1>3

\* So does the predecessor index.
LEMMA UnforkedMeaning ==
    ASSUME TypeOK, GuardsRemember, NEW m \in Messages
    PROVE  Abs!Unforked(m) <=> ~ Fork(ledger, m)
<1>1. ledger.prevHashBySender =
         {<<x.sender, x.prevHash, x.id>> :
             x \in {y \in accepted : y.prevHash # NoHash}}
  BY DEF GuardsRemember
<1>2. ASSUME Fork(ledger, m) PROVE ~ Abs!Unforked(m)
  <2>1. PICK e \in ledger.prevHashBySender :
           e[1] = m.sender /\ e[2] = m.prevHash /\ e[3] # m.id
    BY <1>2 DEF Fork
  <2>2. PICK x \in accepted : e = <<x.sender, x.prevHash, x.id>>
    BY <1>1
  <2>3. m.prevHash # NoHash /\ x.sender = m.sender
        /\ x.prevHash = m.prevHash /\ x.id # m.id
    BY <1>2, <2>1, <2>2 DEF Fork
  <2>. QED BY <2>3 DEF Abs!Unforked, Abs!NoHash, NoHash
<1>3. ASSUME ~ Abs!Unforked(m) PROVE Fork(ledger, m)
  <2>1. PICK x \in accepted :
           x.sender = m.sender /\ x.prevHash = m.prevHash /\ x.id # m.id
    BY <1>3 DEF Abs!Unforked
  <2>2. m.prevHash # NoHash
    BY <1>3 DEF Abs!Unforked, Abs!NoHash, NoHash
  <2>. DEFINE e == <<x.sender, x.prevHash, x.id>>
  <2>3. e \in ledger.prevHashBySender
    BY <1>1, <2>1, <2>2
  <2>4. e[1] = m.sender /\ e[2] = m.prevHash /\ e[3] # m.id
    BY <2>1
  <2>. QED BY <2>2, <2>3, <2>4 DEF Fork
<1>. QED BY <1>2, <1>3

\* ledger.go:69-87: AddWithReason accepts exactly the messages that are not
\* listed, later than and not a fork of everything ever accepted.
THEOREM AcceptanceAlwaysExact == Spec => []AcceptanceExact
<1>1. IInv => AcceptanceExact
  <2>. SUFFICES ASSUME IInv, NEW m \in Messages
                PROVE  AddReason(ledger, m) = NoReason
                          <=> m.id \notin ledger.ids
                              /\ Abs!Fresh(m) /\ Abs!Unforked(m)
    BY DEF AcceptanceExact
  <2>1. AddReason(ledger, m) = NoReason
           <=> ~ Duplicate(ledger, m) /\ ~ Regression(ledger, m)
               /\ ~ Fork(ledger, m)
    BY DEF AddReason, NoReason
  <2>. QED BY <2>1, FreshMeaning, UnforkedMeaning DEF Duplicate, IInv
<1>. QED BY <1>1, Invariance, PTL

\* ledger.go:69-107: the ledger implements the chain it promises.
THEOREM Refinement == Spec => ImplementsAbs
<1>1. Init => Abs!Init
  BY DEF Init, Abs!Init
<1>2. IInv /\ [Next]_vars => [Abs!Next]_accepted
  <2>. SUFFICES ASSUME IInv, [Next]_vars PROVE [Abs!Next]_accepted
    OBVIOUS
  <2>1. ASSUME NEW m \in Messages, Add(m), AddReason(ledger, m) = NoReason
        PROVE  Abs!Accept(m)
    BY <2>1, AcceptStep, FreshMeaning, UnforkedMeaning DEF Abs!Accept, IInv
  <2>2. ASSUME NEW m \in Messages, Add(m), AddReason(ledger, m) # NoReason
        PROVE  UNCHANGED accepted
    BY <2>2, RejectStep DEF IInv
  <2>3. CASE UNCHANGED vars
    BY <2>3 DEF vars
  <2>. QED BY <2>1, <2>2, <2>3 DEF Next, Abs!Next
<1>. QED BY <1>1, <1>2, Invariance, PTL DEF Spec, ImplementsAbs, Abs!Spec

\* ledger.go:97-98: an accepted message is listed behind all its causes that
\* are listed.
THEOREM EffectAlwaysAfterCauses == Spec => EffectAfterCauses
<1>. DEFINE Behaved ==
       \A i, j \in DOMAIN ledger'.messages :
          /\ ledger'.messages[j] \notin accepted
          /\ Compare(ledger'.messages[i].vc, ledger'.messages[j].vc) = "before"
          => i < j
<1>1. IInv /\ [Next]_vars => [Behaved]_vars
  <2>. SUFFICES ASSUME IInv, Next PROVE Behaved
    OBVIOUS
  <2>1. ASSUME NEW m \in Messages, Add(m), AddReason(ledger, m) # NoReason
        PROVE  Behaved
    <3>1. ledger'.messages = ledger.messages
          /\ ledger.messages \in Seq(accepted)
      BY <2>1, RejectStep DEF IInv, TypeOK
    <3>. QED BY <3>1
  <2>2. ASSUME NEW m \in Messages, Add(m), AddReason(ledger, m) = NoReason,
               NEW i \in DOMAIN ledger'.messages,
               NEW j \in DOMAIN ledger'.messages,
               ledger'.messages[j] \notin accepted,
               Compare(ledger'.messages[i].vc, ledger'.messages[j].vc)
                  = "before"
        PROVE  i < j
    <3>. DEFINE s == ledger.messages
                t == Sorted(s, m)
                u == ledger'.messages
    <3>1. TypeOK /\ m \in Message /\ accepted \subseteq Message
      BY MessagesAssumption DEF IInv, TypeOK
    <3>2. /\ s \in Seq(accepted) /\ s \in Seq(Message)
          /\ t \in Seq(accepted') /\ u \in Seq(accepted')
      BY <2>2, <3>1, NewList
    <3>3. PICK k \in Nat : InsertedAt(s, m, t, k)
      BY <2>2, <3>1, NewList
    <3>4. PICK d \in Nat : DroppedFirst(t, u, d)
      BY <2>2, <3>1, NewList
    <3>. HIDE DEF s, t
    <3>5. /\ Len(u) = Len(t) - d /\ Len(t) \in Nat
          /\ i \in 1 .. Len(u) /\ j \in 1 .. Len(u)
      BY <2>2, <3>2, <3>4 DEF DroppedFirst
    <3>6. i + d \in 1 .. Len(t) /\ j + d \in 1 .. Len(t)
      BY <3>5
    <3>7. u[i] = t[i + d] /\ u[j] = t[j + d]
      BY <3>4, <3>5 DEF DroppedFirst
    <3>8. t[k + 1] = m
      BY <3>3 DEF InsertedAt
    <3>9. j + d = k + 1
      <4>. SUFFICES ASSUME j + d # k + 1 PROVE FALSE
        OBVIOUS
      <4>1. s \in Seq(accepted)
        BY <3>2
      <4>2. Old(k, j + d) \in 1 .. Len(s) /\ t[j + d] = s[Old(k, j + d)]
        BY <4>1, <3>3, <3>6, InsertedOld
      <4>3. t[j + d] \in accepted
        BY <4>1, <4>2
      <4>. QED BY <2>2, <3>7, <4>3
    <3>10. i + d < k + 1
      BY <2>2, <3>1, <3>2, <3>3, <3>6, <3>7, <3>8, <3>9, InsertedCauses
    <3>. QED BY <3>5, <3>9, <3>10
  <2>. QED BY <2>1, <2>2 DEF Next
<1>. QED BY <1>1, Invariance, PTL DEF Spec, EffectAfterCauses
=============================================================================
