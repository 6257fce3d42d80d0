---------------------------- MODULE LedgerOpsProofs ----------------------------
(***************************************************************************)
(* Facts about vector clocks, the order of the ledger and the insertion    *)
(* and eviction of a message, for every set of peers and every maximum.    *)
(***************************************************************************)
EXTENDS LedgerOps, WellFoundedInduction, SequenceTheorems, TLAPS

\* vector.go:60-87: Compare answers one of four outcomes, each of them what
\* its name says of the pointwise order.
LEMMA CompareMeaning ==
    ASSUME NEW a \in VectorClocks, NEW b \in VectorClocks
    PROVE  /\ Compare(a, b) = "before" <=> Leq(a, b) /\ a # b
           /\ Compare(a, b) = "after" <=> Leq(b, a) /\ a # b
           /\ Compare(a, b) = "equal" <=> a = b
           /\ Compare(a, b) \in {"before", "after", "equal", "concurrent"}
<1>1. Behind(a, b) <=> ~ Leq(b, a)
  BY DEF Behind, Leq, VectorClocks
<1>2. Behind(b, a) <=> ~ Leq(a, b)
  BY DEF Behind, Leq, VectorClocks
<1>3. Leq(a, b) /\ Leq(b, a) <=> a = b
  <2>1. ASSUME Leq(a, b), Leq(b, a) PROVE a = b
    <3>1. ASSUME NEW p \in Peers PROVE a[p] = b[p]
      <4>1. a[p] <= b[p] /\ b[p] <= a[p]
        BY <2>1 DEF Leq
      <4>2. a[p] \in Nat /\ b[p] \in Nat
        BY DEF VectorClocks
      <4>. QED BY <4>1, <4>2
    <3>. QED BY <3>1 DEF VectorClocks
  <2>2. ASSUME a = b PROVE Leq(a, b) /\ Leq(b, a)
    BY <2>2 DEF Leq, VectorClocks
  <2>. QED BY <2>1, <2>2
<1>. QED BY <1>1, <1>2, <1>3 DEF Compare

\* vector.go:33-40: Merge returns the least clock above both arguments.
LEMMA MergeIsJoin ==
    ASSUME NEW a \in VectorClocks, NEW b \in VectorClocks
    PROVE  /\ Merge(a, b) \in VectorClocks
           /\ Leq(a, Merge(a, b)) /\ Leq(b, Merge(a, b))
           /\ \A c \in VectorClocks :
                 Leq(a, c) /\ Leq(b, c) => Leq(Merge(a, b), c)
BY DEF Merge, Leq, VectorClocks

\* ledger.go:237-257: no two messages each precede the other.
LEMMA LessAsymmetric ==
    ASSUME NEW a \in Message, NEW b \in Message, Less(a, b)
    PROVE  ~ Less(b, a)
<1>1. a.vc \in VectorClocks /\ b.vc \in VectorClocks
  BY DEF Message
<1>2. a.sender \in Nat /\ b.sender \in Nat /\ a.id \in Nat /\ b.id \in Nat
  BY PeersAssumption DEF Message
<1>3. Compare(a.vc, b.vc) = "before" <=> Compare(b.vc, a.vc) = "after"
  BY <1>1, CompareMeaning
<1>4. Compare(a.vc, b.vc) = "after" <=> Compare(b.vc, a.vc) = "before"
  BY <1>1, CompareMeaning
<1>5. Compare(b.vc, a.vc) \in {"equal", "concurrent"}
         => Compare(a.vc, b.vc) \in {"equal", "concurrent"}
  BY <1>1, <1>3, <1>4, CompareMeaning
<1>. QED BY <1>2, <1>3, <1>4, <1>5 DEF Less

-----------------------------------------------------------------------------
\* A nonempty set of positions of a list has a last one.
LEMMA MaxOfPositions ==
    ASSUME NEW n \in Nat, NEW I \in SUBSET (1 .. n), I # {}
    PROVE  Max(I) \in I /\ \A i \in I : i <= Max(I)
<1>. DEFINE T == {n - i : i \in I}
<1>1. T \subseteq Nat /\ T # {}
  OBVIOUS
<1>2. PICK t \in T : \A u \in T : ~ (<<u, t>> \in OpToRel(<, Nat))
  BY <1>1, WFMin, NatLessThanWellFounded
<1>3. \A u \in T : t <= u
  <2>. SUFFICES ASSUME NEW u \in T PROVE t <= u
    OBVIOUS
  <2>1. ~ (u < t)
    BY <1>1, <1>2 DEF OpToRel
  <2>. QED BY <1>1, <2>1
<1>4. PICK i \in I : t = n - i
  BY <1>2
<1>5. \A j \in I : i >= j
  <2>. SUFFICES ASSUME NEW j \in I PROVE i >= j
    OBVIOUS
  <2>1. n - j \in T
    OBVIOUS
  <2>2. n - i <= n - j
    BY <1>3, <1>4, <2>1
  <2>. QED BY <2>2
<1>6. \E x \in I : \A y \in I : x >= y
  BY <1>5
<1>7. Max(I) \in I /\ \A y \in I : Max(I) >= y
  BY <1>6 DEF Max
<1>. QED BY <1>7

\* ledger.go:231-235: the sort leaves the new message behind the last listed
\* message it is not less than.
LEMMA InsertPositionMeaning ==
    ASSUME NEW s \in Seq(Message), NEW m
    PROVE  /\ InsertPosition(s, m) \in 0 .. Len(s)
           /\ InsertPosition(s, m) > 0 => ~ Less(m, s[InsertPosition(s, m)])
           /\ \A j \in 1 .. Len(s) : j > InsertPosition(s, m) => Less(m, s[j])
<1>. DEFINE I == {i \in 1 .. Len(s) : ~ Less(m, s[i])}
<1>1. InsertPosition(s, m) = IF I # {} THEN Max(I) ELSE 0
  BY DEF InsertPosition, SelectLastInSeq
<1>2. Len(s) \in Nat
  OBVIOUS
<1>3. CASE I = {}
  BY <1>1, <1>2, <1>3
<1>4. CASE I # {}
  <2>1. Max(I) \in I /\ \A i \in I : i <= Max(I)
    <3>1. I \in SUBSET (1 .. Len(s))
      OBVIOUS
    <3>. HIDE DEF I
    <3>. QED BY <1>2, <1>4, <3>1, MaxOfPositions
  <2>2. /\ InsertPosition(s, m) \in I
        /\ \A i \in I : i <= InsertPosition(s, m)
    BY <1>1, <1>4, <2>1
  <2>3. \A j \in 1 .. Len(s) : j > InsertPosition(s, m) => j \notin I
    BY <1>2, <2>2
  <2>. QED BY <1>2, <2>2, <2>3
<1>. QED BY <1>3, <1>4

\* The list t is s with m inserted behind position k, where k is the last
\* position of a message that m is not less than.
InsertedAt(s, m, t, k) ==
    /\ k \in 0 .. Len(s)
    /\ k > 0 => ~ Less(m, s[k])
    /\ \A j \in 1 .. Len(s) : j > k => Less(m, s[j])
    /\ Len(t) = Len(s) + 1
    /\ \A i \in 1 .. k : t[i] = s[i]
    /\ t[k + 1] = m
    /\ \A i \in k + 1 .. Len(s) : t[i + 1] = s[i]

\* The list u is t without its first d elements, those beyond the maximum.
DroppedFirst(t, u, d) ==
    /\ d \in 0 .. Len(t)
    /\ d = IF Len(t) > MaxMessages THEN Len(t) - MaxMessages ELSE 0
    /\ Len(u) = Len(t) - d
    /\ \A i \in 1 .. Len(u) : u[i] = t[i + d]

\* Where the element at position i of the new list was in the old one.
Old(k, i) == IF i <= k THEN i ELSE i - 1

\* ledger.go:97-98: the sorted list is the old one with one more element.
LEMMA SortedElements ==
    ASSUME NEW S \in SUBSET Message, NEW s \in Seq(S), NEW m \in S
    PROVE  /\ Sorted(s, m) \in Seq(S)
           /\ InsertedAt(s, m, Sorted(s, m), InsertPosition(s, m))
<1>. DEFINE k == InsertPosition(s, m)
            a == SubSeq(s, 1, k)
            b == SubSeq(s, k + 1, Len(s))
<1>1. s \in Seq(Message)
  OBVIOUS
<1>2. k \in 0 .. Len(s)
  BY <1>1, InsertPositionMeaning
<1>3. /\ k > 0 => ~ Less(m, s[k])
      /\ \A j \in 1 .. Len(s) : j > k => Less(m, s[j])
  BY <1>1, InsertPositionMeaning
<1>. HIDE DEF k
<1>4. Sorted(s, m) = a \o <<m>> \o b
  <2>1. (k + 1) - 1 = k
    BY <1>2
  <2>. QED BY <2>1 DEF Sorted, InsertAt, k
<1>5. /\ a \in Seq(S) /\ Len(a) = k
      /\ \A i \in 1 .. k : a[i] = s[i]
  BY <1>2, SubSeqProperties
<1>6. /\ b \in Seq(S) /\ Len(b) = Len(s) - k
      /\ \A i \in 1 .. Len(s) - k : b[i] = s[k + i]
  BY <1>2, SubSeqProperties
<1>. HIDE DEF a, b
<1>. DEFINE c == a \o <<m>>
<1>7. /\ c \in Seq(S) /\ Len(c) = k + 1
      /\ \A i \in 1 .. k + 1 : c[i] = IF i <= k THEN s[i] ELSE m
  BY <1>2, <1>5, ConcatProperties
<1>. HIDE DEF c
<1>8. /\ c \o b \in Seq(S) /\ Len(c \o b) = Len(s) + 1
      /\ \A i \in 1 .. Len(s) + 1 :
            (c \o b)[i] = IF i <= k + 1 THEN c[i] ELSE b[i - (k + 1)]
  BY <1>2, <1>6, <1>7, ConcatProperties
<1>9. \A i \in 1 .. k : (c \o b)[i] = s[i]
  BY <1>2, <1>7, <1>8
<1>10. (c \o b)[k + 1] = m
  BY <1>2, <1>7, <1>8
<1>11. ASSUME NEW i \in k + 1 .. Len(s) PROVE (c \o b)[i + 1] = s[i]
  <2>1. (i + 1) - (k + 1) \in 1 .. Len(s) - k
        /\ k + ((i + 1) - (k + 1)) = i
    BY <1>2
  <2>2. (c \o b)[i + 1] = b[(i + 1) - (k + 1)]
    BY <1>2, <1>8
  <2>. QED BY <1>6, <2>1, <2>2
<1>12. InsertedAt(s, m, c \o b, k)
  BY <1>2, <1>3, <1>8, <1>9, <1>10, <1>11 DEF InsertedAt
<1>. QED BY <1>4, <1>8, <1>12 DEF c, k

\* Every element of the new list but m was in the old one, in that order.
LEMMA InsertedOld ==
    ASSUME NEW S, NEW s \in Seq(S), NEW m, NEW t, NEW k,
           InsertedAt(s, m, t, k), NEW i \in 1 .. Len(t), i # k + 1
    PROVE  Old(k, i) \in 1 .. Len(s) /\ t[i] = s[Old(k, i)]
<1>1. Len(s) \in Nat /\ k \in 0 .. Len(s) /\ Len(t) = Len(s) + 1
  BY DEF InsertedAt
<1>2. CASE i <= k
  BY <1>1, <1>2 DEF InsertedAt, Old
<1>3. CASE i > k + 1
  <2>1. i - 1 \in k + 1 .. Len(s) /\ (i - 1) + 1 = i /\ Old(k, i) = i - 1
    BY <1>1, <1>3 DEF Old
  <2>2. t[(i - 1) + 1] = s[i - 1]
    BY <2>1 DEF InsertedAt
  <2>. QED BY <1>1, <2>1, <2>2
<1>. QED BY <1>1, <1>2, <1>3

\* Every element of the old list is in the new one.
LEMMA InsertedNew ==
    ASSUME NEW S, NEW s \in Seq(S), NEW m, NEW t, NEW k,
           InsertedAt(s, m, t, k), NEW j \in 1 .. Len(s)
    PROVE  \E i \in 1 .. Len(t) : i # k + 1 /\ t[i] = s[j] /\ Old(k, i) = j
<1>1. Len(s) \in Nat /\ k \in 0 .. Len(s) /\ Len(t) = Len(s) + 1
  BY DEF InsertedAt
<1>2. CASE j <= k
  <2>1. j \in 1 .. Len(t) /\ j # k + 1 /\ t[j] = s[j] /\ Old(k, j) = j
    BY <1>1, <1>2 DEF InsertedAt, Old
  <2>. QED BY <2>1
<1>3. CASE j > k
  <2>1. j + 1 \in 1 .. Len(t) /\ j + 1 # k + 1 /\ t[j + 1] = s[j]
    BY <1>1, <1>3 DEF InsertedAt
  <2>2. Old(k, j + 1) = j
    BY <1>1, <1>3 DEF Old
  <2>. QED BY <2>1, <2>2
<1>. QED BY <1>1, <1>2, <1>3

\* An insertion puts no two neighbours out of order.
LEMMA InsertedAdjacent ==
    ASSUME NEW s \in Seq(Message), NEW m \in Message, NEW t, NEW k,
           InsertedAt(s, m, t, k),
           \A i \in 1 .. Len(s) : i + 1 <= Len(s) => ~ Less(s[i + 1], s[i]),
           NEW i \in 1 .. Len(t), i + 1 <= Len(t)
    PROVE  ~ Less(t[i + 1], t[i])
<1>1. Len(s) \in Nat /\ k \in 0 .. Len(s) /\ Len(t) = Len(s) + 1
  BY DEF InsertedAt
<1>2. CASE i + 1 <= k
  <2>1. i \in 1 .. k /\ i + 1 \in 1 .. k /\ i \in 1 .. Len(s)
        /\ i + 1 <= Len(s)
    BY <1>1, <1>2
  <2>. QED BY <2>1 DEF InsertedAt
<1>3. CASE i = k
  <2>1. k \in 1 .. k /\ k > 0
    BY <1>1, <1>3
  <2>. QED BY <1>3, <2>1 DEF InsertedAt
<1>4. CASE i = k + 1
  <2>1. k + 1 \in k + 1 .. Len(s) /\ k + 1 \in 1 .. Len(s) /\ k + 1 > k
    BY <1>1, <1>4
  <2>2. t[i] = m /\ t[i + 1] = s[k + 1] /\ Less(m, s[k + 1])
    BY <1>4, <2>1 DEF InsertedAt
  <2>. QED BY <2>1, <2>2, LessAsymmetric
<1>5. CASE i > k + 1
  <2>1. i - 1 \in k + 1 .. Len(s) /\ i \in k + 1 .. Len(s)
        /\ (i - 1) + 1 = i /\ i - 1 \in 1 .. Len(s) /\ i <= Len(s)
    BY <1>1, <1>5
  <2>2. t[(i - 1) + 1] = s[i - 1] /\ t[i + 1] = s[i]
    BY <2>1 DEF InsertedAt
  <2>3. ~ Less(s[(i - 1) + 1], s[i - 1])
    BY <2>1
  <2>. QED BY <2>1, <2>2, <2>3
<1>. QED BY <1>1, <1>2, <1>3, <1>4, <1>5

\* Everything listed that happened before m ends up in front of it.
LEMMA InsertedCauses ==
    ASSUME NEW s \in Seq(Message), NEW m \in Message, NEW t, NEW k,
           InsertedAt(s, m, t, k), NEW i \in 1 .. Len(t),
           Compare(t[i].vc, m.vc) = "before"
    PROVE  i < k + 1
<1>1. Len(s) \in Nat /\ k \in 0 .. Len(s) /\ Len(t) = Len(s) + 1
      /\ t[k + 1] = m
  BY DEF InsertedAt
<1>2. i # k + 1
  <2>1. Compare(m.vc, m.vc) # "before"
    BY CompareMeaning DEF Message
  <2>. QED BY <1>1, <2>1
<1>3. ~ (i > k + 1)
  <2>. SUFFICES ASSUME i > k + 1 PROVE FALSE
    OBVIOUS
  <2>1. Old(k, i) \in 1 .. Len(s) /\ t[i] = s[Old(k, i)]
    BY <1>2, InsertedOld
  <2>2. Old(k, i) > k
    BY <1>1 DEF Old
  <2>3. Less(m, s[Old(k, i)])
    BY <2>1, <2>2 DEF InsertedAt
  <2>4. Less(s[Old(k, i)], m)
    BY <2>1 DEF Less
  <2>. QED BY <2>1, <2>3, <2>4, LessAsymmetric
<1>. QED BY <1>1, <1>2, <1>3

\* ledger.go:99-105: eviction keeps the last MaxMessages of the list.
LEMMA TrimElements ==
    ASSUME NEW S, NEW s \in Seq(S)
    PROVE  /\ Trim(s) \in Seq(S)
           /\ \E d \in Nat : DroppedFirst(s, Trim(s), d)
<1>. DEFINE d == IF Len(s) > MaxMessages THEN Len(s) - MaxMessages ELSE 0
<1>1. MaxMessages \in Nat /\ MaxMessages > 0 /\ Len(s) \in Nat
  BY MaxMessagesAssumption
<1>2. d \in 0 .. Len(s)
  BY <1>1
<1>3. CASE Len(s) > MaxMessages
  <2>1. Trim(s) = SubSeq(s, d + 1, Len(s))
    BY <1>1, <1>3 DEF Trim
  <2>2. \A i \in d + 1 .. Len(s) : s[i] \in S
    BY <1>2
  <2>. HIDE DEF d
  <2>3. /\ Trim(s) \in Seq(S)
        /\ Len(Trim(s)) = Len(s) - d
        /\ \A i \in 1 .. Len(s) - d : Trim(s)[i] = s[i + d]
    BY <1>1, <1>2, <2>1, <2>2, SubSeqProperties
  <2>4. d \in Nat /\ DroppedFirst(s, Trim(s), d)
    BY <1>2, <2>3 DEF DroppedFirst, d
  <2>. QED BY <2>3, <2>4
<1>4. CASE ~ (Len(s) > MaxMessages)
  <2>1. Trim(s) = s /\ d = 0
    BY <1>4 DEF Trim
  <2>2. DroppedFirst(s, Trim(s), 0)
    BY <1>1, <1>4, <2>1 DEF DroppedFirst
  <2>. QED BY <2>1, <2>2
<1>. QED BY <1>3, <1>4

-----------------------------------------------------------------------------
\* ledger.go:70: counting a duplicate keeps the ledger a ledger record.
LEMMA CountedDuplicate ==
    ASSUME NEW l \in LedgerRecord
    PROVE  [l EXCEPT !.duplicate = @ + 1] \in LedgerRecord
BY DEF LedgerRecord, VectorClocks

\* ledger.go:77-78: so does counting a clock that went back.
LEMMA CountedRegression ==
    ASSUME NEW l \in LedgerRecord, NEW n \in Nat, NEW r \in Reasons
    PROVE  [l EXCEPT !.clockBack = n, !.lastReject = r] \in LedgerRecord
BY DEF LedgerRecord, VectorClocks

\* ledger.go:84-85: so does counting a fork.
LEMMA CountedFork ==
    ASSUME NEW l \in LedgerRecord, NEW n \in Nat, NEW r \in Reasons
    PROVE  [l EXCEPT !.equivocation = n, !.lastReject = r] \in LedgerRecord
BY DEF LedgerRecord, VectorClocks

\* ledger.go:89-107: the five fields an acceptance writes.
LEMMA AcceptedRecord ==
    ASSUME NEW l \in LedgerRecord, NEW i \in SUBSET Nat,
           NEW p \in SUBSET (Peers \X Nat \X Nat), NEW c \in VectorClocks,
           NEW s \in Seq(Message), NEW n \in Nat
    PROVE  [l EXCEPT !.ids = i, !.prevHashBySender = p, !.senderClock = c,
                     !.messages = s, !.verified = n] \in LedgerRecord
BY DEF LedgerRecord, VectorClocks

\* ledger.go:69-87: a refused message changes counters only.
LEMMA Refused ==
    ASSUME NEW l \in LedgerRecord, NEW m, AddReason(l, m) # NoReason
    PROVE  /\ AddWithReason(l, m) \in LedgerRecord
           /\ AddWithReason(l, m).ids = l.ids
           /\ AddWithReason(l, m).messages = l.messages
           /\ AddWithReason(l, m).senderClock = l.senderClock
           /\ AddWithReason(l, m).prevHashBySender = l.prevHashBySender
           /\ AddWithReason(l, m).verified = l.verified
           /\ AddReason(l, m) # "equivocation_fork"
                 => AddWithReason(l, m).equivocation = l.equivocation
<1>. DEFINE k == AddWithReason(l, m)
<1>1. AddReason(l, m)
         \in {"duplicate_message", "clock_regression", "equivocation_fork"}
  BY DEF AddReason, NoReason
<1>2. CASE AddReason(l, m) = "duplicate_message"
  <2>1. k = [l EXCEPT !.duplicate = @ + 1]
    BY <1>2 DEF AddWithReason
  <2>2. k \in LedgerRecord
    BY <2>1, CountedDuplicate
  <2>. HIDE DEF k
  <2>3. /\ k.ids = l.ids /\ k.messages = l.messages
        /\ k.senderClock = l.senderClock
        /\ k.prevHashBySender = l.prevHashBySender
        /\ k.verified = l.verified /\ k.equivocation = l.equivocation
    BY <2>1 DEF LedgerRecord
  <2>. QED BY <2>2, <2>3 DEF k
<1>3. CASE AddReason(l, m) = "clock_regression"
  <2>. DEFINE n == l.clockBack + 1
  <2>1. n \in Nat /\ "clock_regression" \in Reasons
    BY DEF LedgerRecord, Reasons
  <2>2. k = [l EXCEPT !.clockBack = n, !.lastReject = "clock_regression"]
    BY <1>3 DEF AddWithReason
  <2>. HIDE DEF k, n
  <2>3. k \in LedgerRecord
    <3>1. [l EXCEPT !.clockBack = n, !.lastReject = "clock_regression"]
             \in LedgerRecord
      BY <2>1, CountedRegression
    <3>. QED BY <2>2, <3>1
  <2>4. /\ k.ids = l.ids /\ k.messages = l.messages
        /\ k.senderClock = l.senderClock
        /\ k.prevHashBySender = l.prevHashBySender
        /\ k.verified = l.verified /\ k.equivocation = l.equivocation
    BY <2>2 DEF LedgerRecord
  <2>. QED BY <2>3, <2>4 DEF k
<1>4. CASE AddReason(l, m) = "equivocation_fork"
  <2>. DEFINE n == l.equivocation + 1
  <2>1. n \in Nat /\ "equivocation_fork" \in Reasons
    BY DEF LedgerRecord, Reasons
  <2>2. k = [l EXCEPT !.equivocation = n, !.lastReject = "equivocation_fork"]
    BY <1>4 DEF AddWithReason
  <2>. HIDE DEF k, n
  <2>3. k \in LedgerRecord
    <3>1. [l EXCEPT !.equivocation = n, !.lastReject = "equivocation_fork"]
             \in LedgerRecord
      BY <2>1, CountedFork
    <3>. QED BY <2>2, <3>1
  <2>4. /\ k.ids = l.ids /\ k.messages = l.messages
        /\ k.senderClock = l.senderClock
        /\ k.prevHashBySender = l.prevHashBySender
        /\ k.verified = l.verified
    BY <2>2 DEF LedgerRecord
  <2>. QED BY <1>4, <2>3, <2>4 DEF k
<1>. QED BY <1>1, <1>2, <1>3, <1>4

\* ledger.go:89-107: what an accepted message changes.
LEMMA AcceptedFields ==
    ASSUME NEW l \in LedgerRecord, NEW m \in Message, m.vc[m.sender] > 0,
           AddReason(l, m) = NoReason
    PROVE  /\ ~ Duplicate(l, m) /\ ~ Regression(l, m) /\ ~ Fork(l, m)
           /\ AddWithReason(l, m) \in LedgerRecord
           /\ AddWithReason(l, m).ids =
                 (l.ids \cup {m.id}) \ Evicted(Sorted(l.messages, m))
           /\ AddWithReason(l, m).messages = Trim(Sorted(l.messages, m))
           /\ AddWithReason(l, m).senderClock =
                 [l.senderClock EXCEPT ![m.sender] = m.vc[m.sender]]
           /\ AddWithReason(l, m).prevHashBySender =
                 IF m.prevHash = NoHash THEN l.prevHashBySender
                 ELSE l.prevHashBySender \cup {<<m.sender, m.prevHash, m.id>>}
           /\ AddWithReason(l, m).verified = l.verified + 1
           /\ AddWithReason(l, m).equivocation = l.equivocation
<1>1. ~ Duplicate(l, m) /\ ~ Regression(l, m) /\ ~ Fork(l, m)
  BY DEF AddReason, NoReason
<1>2. m.sender \in Peers /\ m.vc \in VectorClocks /\ m.id \in Nat
      /\ m.prevHash \in Nat
  BY DEF Message
<1>3. l.senderClock \in VectorClocks /\ l.messages \in Seq(Message)
      /\ l.ids \in SUBSET Nat /\ l.verified \in Nat
      /\ l.prevHashBySender \in SUBSET (Peers \X Nat \X Nat)
  BY DEF LedgerRecord
<1>4. m.vc[m.sender] > l.senderClock[m.sender]
  <2>1. m.vc[m.sender] \in Nat /\ l.senderClock[m.sender] \in Nat
    BY <1>2, <1>3 DEF VectorClocks
  <2>2. ~ (m.vc[m.sender] <= l.senderClock[m.sender])
    BY <1>1 DEF Regression
  <2>. QED BY <2>1, <2>2
<1>. DEFINE t  == Sorted(l.messages, m)
            i1 == (l.ids \cup {m.id}) \ Evicted(t)
            l1 == Trim(t)
            c1 == [l.senderClock EXCEPT ![m.sender] = m.vc[m.sender]]
            p1 == IF m.prevHash = NoHash THEN l.prevHashBySender
                  ELSE l.prevHashBySender \cup {<<m.sender, m.prevHash, m.id>>}
            n1 == l.verified + 1
            k  == AddWithReason(l, m)
<1>5. c1 = [l.senderClock EXCEPT ![m.sender] =
               IF m.vc[m.sender] > @ THEN m.vc[m.sender] ELSE @]
  BY <1>4
<1>6. c1 \in VectorClocks
  BY <1>2, <1>3 DEF VectorClocks
<1>7. l1 \in Seq(Message)
  <2>1. t \in Seq(Message)
    BY <1>3, SortedElements
  <2>. QED BY <2>1, TrimElements
<1>8. i1 \in SUBSET Nat
  BY <1>2, <1>3
<1>9. p1 \in SUBSET (Peers \X Nat \X Nat)
  <2>1. <<m.sender, m.prevHash, m.id>> \in Peers \X Nat \X Nat
    BY <1>2
  <2>. QED BY <1>3, <2>1
<1>10. n1 \in Nat
  BY <1>3
<1>11. k = [l EXCEPT !.ids = i1, !.prevHashBySender = p1, !.senderClock = c1,
                     !.messages = l1, !.verified = n1]
  <2>1. k = Accepted(l, m)
    BY DEF AddWithReason, NoReason
  <2>. QED BY <1>3, <1>5, <2>1 DEF Accepted, LedgerRecord
<1>. HIDE DEF i1, p1, c1, l1, n1, k
<1>12. /\ k.ids = i1 /\ k.prevHashBySender = p1 /\ k.senderClock = c1
       /\ k.messages = l1 /\ k.verified = n1
       /\ k.equivocation = l.equivocation
  BY <1>11 DEF LedgerRecord
<1>13. k \in LedgerRecord
  BY <1>6, <1>7, <1>8, <1>9, <1>10, <1>11, AcceptedRecord
<1>. QED BY <1>1, <1>12, <1>13 DEF i1, p1, c1, l1, n1, t, k

-----------------------------------------------------------------------------
(* The loop of MissingFrom.                                                *)

\* A nonempty set of numbers has a least element.
LEMMA LeastOf ==
    ASSUME NEW T \in SUBSET Nat, T # {}
    PROVE  \E n \in T : \A u \in T : ~ (u < n)
<1>1. PICK n \in T : \A u \in T : ~ (<<u, n>> \in OpToRel(<, Nat))
  BY WFMin, NatLessThanWellFounded
<1>. QED BY <1>1 DEF OpToRel

\* What the loop has kept after element i, f being what it kept before.
KeptAt(s, known, f, i) ==
    IF i = 0 THEN << >>
    ELSE IF s[i].id \in known THEN f[i - 1]
    ELSE Append(f[i - 1], s[i])

\* The loop has run over the first n elements and f is its history.
KeptUpTo(s, known, f, n) == f = [i \in 0 .. n |-> KeptAt(s, known, f, i)]

\* Running over one more element extends the history.
LEMMA KeptOneMore ==
    ASSUME NEW s, NEW known, NEW n \in Nat, n # 0, NEW f,
           KeptUpTo(s, known, f, n - 1)
    PROVE  \E g : KeptUpTo(s, known, g, n)
<1>. DEFINE g == [i \in 0 .. n |-> IF i = n THEN KeptAt(s, known, f, n)
                                   ELSE f[i]]
<1>1. g[n] = KeptAt(s, known, f, n)
  OBVIOUS
<1>2. \A i \in 0 .. n - 1 : g[i] = f[i]
  OBVIOUS
<1>3. \A i \in 0 .. n - 1 : f[i] = KeptAt(s, known, f, i)
  BY DEF KeptUpTo
<1>4. g = [i \in 0 .. n |-> g[i]]
  OBVIOUS
<1>. HIDE DEF g
<1>5. ASSUME NEW i \in 0 .. n PROVE g[i] = KeptAt(s, known, g, i)
  <2>1. i # 0 => i - 1 \in 0 .. n - 1
    OBVIOUS
  <2>2. i # 0 => g[i - 1] = f[i - 1]
    BY <1>2, <2>1
  <2>3. KeptAt(s, known, g, i) = KeptAt(s, known, f, i)
    BY <2>2 DEF KeptAt
  <2>4. i = n \/ i \in 0 .. n - 1
    OBVIOUS
  <2>. QED BY <1>1, <1>2, <1>3, <2>3, <2>4
<1>. QED BY <1>4, <1>5 DEF KeptUpTo

\* The loop has a history for a list of any length.
LEMMA KeptExists ==
    ASSUME NEW s, NEW known, NEW n \in Nat
    PROVE  \E f : KeptUpTo(s, known, f, n)
<1>. DEFINE T == {i \in Nat : ~ \E f : KeptUpTo(s, known, f, i)}
<1>. SUFFICES ASSUME T # {} PROVE FALSE
  OBVIOUS
<1>1. PICK i \in T : \A u \in T : ~ (u < i)
  BY LeastOf
<1>2. i # 0
  <2>. DEFINE g == [j \in 0 .. 0 |-> << >>]
  <2>1. KeptUpTo(s, known, g, 0)
    BY DEF KeptUpTo, KeptAt
  <2>. QED BY <2>1
<1>3. i \in Nat /\ i - 1 \in Nat /\ i - 1 < i
  BY <1>2
<1>4. i - 1 \notin T
  BY <1>1, <1>3
<1>5. \E f : KeptUpTo(s, known, f, i - 1)
  BY <1>3, <1>4
<1>6. \E f : KeptUpTo(s, known, f, i)
  BY <1>2, <1>3, <1>5, KeptOneMore
<1>. QED BY <1>6

\* What the loop of MissingFrom has kept after each element.
LEMMA UnknownLoop ==
    ASSUME NEW S, NEW s \in Seq(S), NEW known
    PROVE  \E f : /\ Unknown(s, known) = f[Len(s)]
                  /\ \A i \in 0 .. Len(s) : f[i] = KeptAt(s, known, f, i)
<1>. DEFINE Kept == CHOOSE g : g = [i \in 0 .. Len(s) |-> KeptAt(s, known, g, i)]
<1>1. Len(s) \in Nat
  OBVIOUS
<1>2. Unknown(s, known) = Kept[Len(s)]
  BY DEF Unknown, KeptAt
<1>3. Kept = [i \in 0 .. Len(s) |-> KeptAt(s, known, Kept, i)]
  <2>1. \E f : f = [i \in 0 .. Len(s) |-> KeptAt(s, known, f, i)]
    BY <1>1, KeptExists DEF KeptUpTo
  <2>. QED BY <2>1
<1>. HIDE DEF Kept
<1>4. \A i \in 0 .. Len(s) : Kept[i] = KeptAt(s, known, Kept, i)
  BY <1>3
<1>. QED BY <1>2, <1>4

\* The list u has elements of the first n of s, in their order.
TakenFrom(u, s, n) ==
    \E at \in [1 .. Len(u) -> 1 .. n] :
       /\ \A j \in 1 .. Len(u) : u[j] = s[at[j]]
       /\ \A i, j \in 1 .. Len(u) : i < j => at[i] < at[j]

\* One more element of s may be taken, or not.
LEMMA TakenMore ==
    ASSUME NEW S, NEW s \in Seq(S), NEW n \in 1 .. Len(s), NEW u \in Seq(S),
           TakenFrom(u, s, n - 1)
    PROVE  TakenFrom(u, s, n) /\ TakenFrom(Append(u, s[n]), s, n)
<1>1. PICK at \in [1 .. Len(u) -> 1 .. n - 1] :
         /\ \A j \in 1 .. Len(u) : u[j] = s[at[j]]
         /\ \A i, j \in 1 .. Len(u) : i < j => at[i] < at[j]
  BY DEF TakenFrom
<1>2. TakenFrom(u, s, n)
  <2>1. at \in [1 .. Len(u) -> 1 .. n]
    OBVIOUS
  <2>. QED BY <1>1, <2>1 DEF TakenFrom
<1>3. TakenFrom(Append(u, s[n]), s, n)
  <2>. DEFINE v == Append(u, s[n])
              c == Len(u) + 1
              more == [j \in 1 .. c |-> IF j = c THEN n ELSE at[j]]
  <2>1. /\ Len(u) \in Nat /\ Len(v) = c /\ v[c] = s[n]
        /\ \A j \in 1 .. Len(u) : v[j] = u[j]
    BY AppendProperties
  <2>. HIDE DEF v
  <2>2. \A j \in 1 .. c : j = c \/ j \in 1 .. Len(u)
    BY <2>1
  <2>3. /\ c \in 1 .. c /\ more[c] = n
        /\ \A j \in 1 .. Len(u) : more[j] = at[j]
    BY <2>1
  <2>4. more \in [1 .. Len(v) -> 1 .. n]
    BY <2>1
  <2>. HIDE DEF more
  <2>5. \A j \in 1 .. Len(v) : v[j] = s[more[j]]
    BY <1>1, <2>1, <2>2, <2>3
  <2>6. \A i, j \in 1 .. Len(v) : i < j => more[i] < more[j]
    <3>. SUFFICES ASSUME NEW i \in 1 .. c, NEW j \in 1 .. c, i < j
                  PROVE  more[i] < more[j]
      BY <2>1
    <3>1. i \in 1 .. Len(u)
      BY <2>1
    <3>2. CASE j = c
      BY <2>3, <3>1, <3>2
    <3>3. CASE j # c
      BY <1>1, <2>2, <2>3, <3>1, <3>3
    <3>. QED BY <3>2, <3>3
  <2>7. TakenFrom(v, s, n)
    BY <2>4, <2>5, <2>6 DEF TakenFrom
  <2>. QED BY <2>7 DEF v
<1>. QED BY <1>2, <1>3

\* ledger.go:147-153: the loop keeps elements of the list, in their order.
LEMMA UnknownTaken ==
    ASSUME NEW S, NEW s \in Seq(S), NEW known
    PROVE  /\ Unknown(s, known) \in Seq(S)
           /\ TakenFrom(Unknown(s, known), s, Len(s))
<1>1. Len(s) \in Nat
  OBVIOUS
<1>2. PICK f : /\ Unknown(s, known) = f[Len(s)]
               /\ \A i \in 0 .. Len(s) : f[i] = KeptAt(s, known, f, i)
  BY UnknownLoop
<1>. DEFINE Good(i) == f[i] \in Seq(S) /\ TakenFrom(f[i], s, i)
            T == {i \in 0 .. Len(s) : ~ Good(i)}
<1>3. Good(0)
  <2>1. f[0] = << >>
    BY <1>1, <1>2 DEF KeptAt
  <2>2. TakenFrom(<< >>, s, 0)
    <3>. DEFINE at == [j \in 1 .. 0 |-> 0]
    <3>1. at \in [1 .. Len(<< >>) -> 1 .. 0]
      OBVIOUS
    <3>2. 1 .. Len(<< >>) = {}
      OBVIOUS
    <3>. QED BY <3>1, <3>2 DEF TakenFrom
  <2>. QED BY <2>1, <2>2
<1>4. ASSUME NEW i \in 1 .. Len(s), Good(i - 1) PROVE Good(i)
  <2>1. f[i] = f[i - 1] \/ f[i] = Append(f[i - 1], s[i])
    <3>1. i # 0 /\ i \in 0 .. Len(s)
      BY <1>1
    <3>2. f[i] = KeptAt(s, known, f, i)
      BY <1>2, <3>1
    <3>. QED BY <3>1, <3>2, Zenon DEF KeptAt
  <2>2. TakenFrom(f[i - 1], s, i) /\ TakenFrom(Append(f[i - 1], s[i]), s, i)
    BY <1>4, TakenMore
  <2>3. Append(f[i - 1], s[i]) \in Seq(S)
    BY <1>4, AppendProperties
  <2>. QED BY <1>4, <2>1, <2>2, <2>3
<1>. HIDE DEF Good
<1>5. T = {}
  <2>. SUFFICES ASSUME T # {} PROVE FALSE
    OBVIOUS
  <2>1. T \in SUBSET Nat
    OBVIOUS
  <2>2. PICK i \in T : \A u \in T : ~ (u < i)
    BY <2>1, LeastOf
  <2>3. i \in 0 .. Len(s) /\ ~ Good(i)
    OBVIOUS
  <2>4. i \in 1 .. Len(s) /\ i - 1 \in 0 .. Len(s) /\ i - 1 < i
    BY <1>1, <1>3, <2>3
  <2>5. Good(i - 1)
    BY <2>2, <2>4
  <2>. QED BY <1>4, <2>3, <2>4, <2>5
<1>6. Good(Len(s))
  BY <1>1, <1>5
<1>. QED BY <1>2, <1>6 DEF Good
=============================================================================
