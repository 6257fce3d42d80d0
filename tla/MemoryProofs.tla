----------------------------- MODULE MemoryProofs -----------------------------
(***************************************************************************)
(* One store on its file, never killed inside a save, for every number of  *)
(* facts and every set of limits: nothing is forgotten, and every restart  *)
(* leaves the list of MemoryAbs as it was.                                 *)
(***************************************************************************)
EXTENDS MemoryStore, SequenceTheorems, TLAPS

Ascending(s) == \A i, j \in DOMAIN s : i < j => s[i] < s[j]

-----------------------------------------------------------------------------
(* Lists of facts in the order of their making.                            *)

\* memory.go:55-57: a fact made last goes to the end.
LEMMA AppendAscends ==
    ASSUME NEW m \in Nat, NEW s \in Seq(1 .. m), Ascending(s)
    PROVE  /\ Append(s, m + 1) \in Seq(1 .. m + 1)
           /\ Ascending(Append(s, m + 1))
           /\ ToSet(s) \subseteq ToSet(Append(s, m + 1))
<1>. DEFINE u == Append(s, m + 1)
<1>1. /\ Len(s) \in Nat /\ DOMAIN s = 1 .. Len(s)
      /\ DOMAIN u = 1 .. Len(s) + 1 /\ u[Len(s) + 1] = m + 1
      /\ \A i \in 1 .. Len(s) : u[i] = s[i] /\ s[i] \in 1 .. m
  OBVIOUS
<1>2. s \in Seq(1 .. m + 1) /\ m + 1 \in 1 .. m + 1
  <2>1. \A i \in 1 .. Len(s) : s[i] \in 1 .. m + 1
    BY <1>1
  <2>. QED BY <1>1, <2>1
<1>3. u \in Seq(1 .. m + 1)
  BY <1>2
<1>. HIDE DEF u
<1>4. Ascending(u)
  BY <1>1 DEF Ascending
<1>5. ToSet(s) \subseteq ToSet(u)
  BY <1>1 DEF ToSet
<1>. QED BY <1>3, <1>4, <1>5 DEF u

\* memory.go:58-60: what the limit leaves is the end of the list, and what it
\* drops is older than all of that.
LEMMA LatestKeeps ==
    ASSUME NEW m \in Nat, NEW n \in Nat \ {0}, NEW s \in Seq(1 .. m), Ascending(s)
    PROVE  /\ Latest(s, n) \in Seq(1 .. m)
           /\ Ascending(Latest(s, n))
           /\ \A f \in ToSet(s) :
                 \/ f \in ToSet(Latest(s, n))
                 \/ /\ Len(Latest(s, n)) = n
                    /\ \A g \in ToSet(Latest(s, n)) : f < g
<1>. DEFINE u == Latest(s, n)
<1>1. Len(s) \in Nat /\ DOMAIN s = 1 .. Len(s) /\ \A i \in 1 .. Len(s) : s[i] \in 1 .. m
  OBVIOUS
<1>2. CASE ~ (Len(s) > n)
  BY <1>2 DEF Latest
<1>3. CASE Len(s) > n
  <2>. DEFINE a == Len(s) - n + 1
  <2>1. a \in 2 .. Len(s) /\ \A i \in a .. Len(s) : s[i] \in 1 .. m
    BY <1>1, <1>3
  <2>2. /\ u \in Seq(1 .. m) /\ Len(u) = n
        /\ \A i \in 1 .. n : u[i] = s[a + i - 1]
    <3>1. u = SubSeq(s, a, Len(s))
      BY <1>3 DEF Latest
    <3>2. Len(s) - a + 1 = n
      BY <1>1
    <3>. HIDE DEF a, u
    <3>. QED BY <1>1, <2>1, <3>1, <3>2, SubSeqProperties
  <2>. HIDE DEF u
  <2>3. DOMAIN u = 1 .. n
    BY <2>2
  <2>4. Ascending(u)
    <3>1. ASSUME NEW i \in 1 .. n, NEW j \in 1 .. n, i < j PROVE u[i] < u[j]
      <4>1. /\ a + i - 1 \in DOMAIN s /\ a + j - 1 \in DOMAIN s
            /\ a + i - 1 < a + j - 1
        BY <1>1, <1>3, <3>1
      <4>2. s[a + i - 1] < s[a + j - 1]
        BY <4>1 DEF Ascending
      <4>. QED BY <2>2, <4>2
    <3>. QED BY <2>3, <3>1 DEF Ascending
  <2>5. ASSUME NEW f \in ToSet(s)
        PROVE  f \in ToSet(u) \/ \A g \in ToSet(u) : f < g
    <3>1. PICK i \in 1 .. Len(s) : f = s[i]
      BY <1>1 DEF ToSet
    <3>2. CASE i >= a
      <4>1. i - a + 1 \in 1 .. n /\ a + (i - a + 1) - 1 = i
        BY <1>1, <3>2
      <4>2. f = u[i - a + 1]
        BY <2>2, <3>1, <4>1
      <4>. QED BY <2>3, <4>1, <4>2 DEF ToSet
    <3>3. CASE i < a
      <4>1. ASSUME NEW g \in ToSet(u) PROVE f < g
        <5>1. PICK j \in 1 .. n : g = u[j]
          BY <2>3 DEF ToSet
        <5>2. a + j - 1 \in 1 .. Len(s) /\ i < a + j - 1
          BY <1>1, <3>3
        <5>. QED BY <1>1, <2>2, <3>1, <5>1, <5>2 DEF Ascending
      <4>. QED BY <4>1
    <3>. QED BY <1>1, <2>1, <3>2, <3>3
  <2>. QED BY <2>2, <2>4, <2>5 DEF u
<1>. QED BY <1>2, <1>3

\* The i-th of what is left of a list without its k-th was the Skip(k, i)-th.
Skip(k, i) == IF i < k THEN i ELSE i + 1

LEMMA SkipInOrder ==
    ASSUME NEW n \in Nat, NEW k \in 1 .. n,
           NEW i \in 1 .. n - 1, NEW j \in 1 .. n - 1, i < j
    PROVE  Skip(k, i) \in 1 .. n /\ Skip(k, j) \in 1 .. n /\ Skip(k, i) < Skip(k, j)
<1>1. /\ i \in 1 .. n /\ i + 1 \in 1 .. n
      /\ j \in 1 .. n /\ j + 1 \in 1 .. n
  OBVIOUS
<1>2. Skip(k, i) \in {i, i + 1} /\ Skip(k, j) \in {j, j + 1}
  BY DEF Skip
<1>3. i < j /\ i < j + 1 /\ i + 1 < j + 1
  OBVIOUS
<1>4. j < k => i < k
  OBVIOUS
<1>5. Skip(k, i) < Skip(k, j)
  BY <1>3, <1>4 DEF Skip
<1>. QED BY <1>1, <1>2, <1>5

\* memory.go:64-75: a deletion removes one fact and moves no other.
LEMMA RemoveKeeps ==
    ASSUME NEW m \in Nat, NEW s \in Seq(1 .. m), Ascending(s), NEW k \in DOMAIN s
    PROVE  /\ RemoveAt(s, k) \in Seq(1 .. m)
           /\ Ascending(RemoveAt(s, k))
           /\ ToSet(s) \ {s[k]} \subseteq ToSet(RemoveAt(s, k))
<1>. DEFINE u == RemoveAt(s, k)
            l == SubSeq(s, 1, k - 1)
            r == SubSeq(s, k + 1, Len(s))
<1>1. /\ Len(s) \in Nat /\ DOMAIN s = 1 .. Len(s) /\ k \in 1 .. Len(s)
      /\ \A i \in 1 .. Len(s) : s[i] \in 1 .. m
  OBVIOUS
<1>2. /\ l \in Seq(1 .. m) /\ Len(l) = k - 1
      /\ \A i \in 1 .. k - 1 : l[i] = s[i]
  <2>1. 1 \in Int /\ k - 1 \in Int /\ \A i \in 1 .. k - 1 : s[i] \in 1 .. m
    BY <1>1
  <2>2. /\ l \in Seq(1 .. m) /\ Len(l) = (IF 1 <= k - 1 THEN (k - 1) - 1 + 1 ELSE 0)
        /\ \A i \in 1 .. (k - 1) - 1 + 1 : l[i] = s[1 + i - 1]
    BY <2>1, SubSeqProperties
  <2>. HIDE DEF l
  <2>. QED BY <1>1, <2>2
<1>3. /\ r \in Seq(1 .. m) /\ Len(r) = Len(s) - k
      /\ \A i \in 1 .. Len(s) - k : r[i] = s[k + i]
  <2>. DEFINE a == k + 1
              b == Len(s)
  <2>1. a \in Int /\ b \in Int /\ \A i \in a .. b : s[i] \in 1 .. m
    BY <1>1
  <2>2. r = SubSeq(s, a, b)
    OBVIOUS
  <2>3. /\ b - a + 1 = b - k /\ (a <= b => Len(s) - k = b - a + 1)
        /\ (~ (a <= b) => Len(s) - k = 0)
    <3>1. Len(s) \in Int /\ k \in Int /\ k <= Len(s)
      BY <1>1
    <3>2. b - (k + 1) + 1 = b - k
      BY <3>1
    <3>3. ~ (k + 1 <= Len(s)) => Len(s) - k = 0
      BY <3>1
    <3>. QED BY <3>2, <3>3
  <2>4. ASSUME NEW i \in 1 .. b - k PROVE a + i - 1 = k + i
    BY <1>1
  <2>. HIDE DEF r, a, b
  <2>5. /\ r \in Seq(1 .. m)
        /\ Len(r) = (IF a <= b THEN b - a + 1 ELSE 0)
        /\ \A i \in 1 .. b - a + 1 : r[i] = s[a + i - 1]
    BY <2>1, <2>2, SubSeqProperties
  <2>6. Len(r) = Len(s) - k
    BY <2>3, <2>5
  <2>7. ASSUME NEW i \in 1 .. b - k PROVE r[i] = s[k + i]
    BY <2>3, <2>4, <2>5
  <2>. QED BY <2>5, <2>6, <2>7 DEF b
<1>4. u = l \o r
  BY DEF RemoveAt
<1>. HIDE DEF u, l, r
<1>5. /\ u \in Seq(1 .. m) /\ DOMAIN u = 1 .. Len(s) - 1
      /\ \A i \in 1 .. Len(s) - 1 : u[i] = s[Skip(k, i)]
  <2>1. /\ l \o r \in Seq(1 .. m) /\ Len(l \o r) = Len(l) + Len(r)
        /\ \A i \in 1 .. Len(l) + Len(r) :
              (l \o r)[i] = IF i <= Len(l) THEN l[i] ELSE r[i - Len(l)]
    BY <1>2, <1>3, ConcatProperties
  <2>2. /\ Len(s) \in Nat /\ k \in 1 .. Len(s)
        /\ Len(l) = k - 1 /\ Len(r) = Len(s) - k
    BY <1>1, <1>2, <1>3
  <2>3. Len(l) + Len(r) = Len(s) - 1
    BY <2>2
  <2>4. Len(u) = Len(s) - 1 /\ u \in Seq(1 .. m)
    BY <1>4, <2>1, <2>3
  <2>5. ASSUME NEW i \in 1 .. Len(s) - 1 PROVE u[i] = s[Skip(k, i)]
    <3>1. u[i] = IF i <= k - 1 THEN l[i] ELSE r[i - (k - 1)]
      BY <1>4, <2>1, <2>2, <2>3
    <3>2. CASE i < k
      <4>1. i \in 1 .. k - 1 /\ i <= k - 1
        BY <2>2, <3>2
      <4>2. u[i] = l[i] /\ l[i] = s[i]
        BY <1>2, <3>1, <4>1
      <4>. QED BY <3>2, <4>2 DEF Skip
    <3>3. CASE ~ (i < k)
      <4>1. /\ ~ (i <= k - 1) /\ i - (k - 1) \in 1 .. Len(s) - k
            /\ k + (i - (k - 1)) = i + 1
        <5>1. i \in Int /\ i <= Len(s) - 1 /\ k \in Int /\ i >= k /\ Len(s) \in Int
          BY <2>2, <3>3
        <5>2. i - (k - 1) \in Int /\ 1 <= i - (k - 1) /\ i - (k - 1) <= Len(s) - k
          BY <5>1
        <5>3. k + (i - (k - 1)) = i + 1 /\ ~ (i <= k - 1)
          BY <5>1
        <5>. QED BY <5>1, <5>2, <5>3
      <4>2. u[i] = r[i - (k - 1)]
        BY <3>1, <4>1
      <4>3. r[i - (k - 1)] = s[i + 1]
        BY <1>3, <4>1
      <4>. QED BY <3>3, <4>2, <4>3 DEF Skip
    <3>. QED BY <3>2, <3>3
  <2>. QED BY <2>4, <2>5
<1>6. Ascending(u)
  <2>1. ASSUME NEW i \in DOMAIN u, NEW j \in DOMAIN u, i < j PROVE u[i] < u[j]
    <3>1. i \in 1 .. Len(s) - 1 /\ j \in 1 .. Len(s) - 1
      BY <1>5
    <3>2. Skip(k, i) \in 1 .. Len(s) /\ Skip(k, j) \in 1 .. Len(s)
          /\ Skip(k, i) < Skip(k, j)
      <4>1. Len(s) \in Nat /\ k \in 1 .. Len(s)
        BY <1>1
      <4>. QED BY <2>1, <3>1, <4>1, SkipInOrder
    <3>3. u[i] = s[Skip(k, i)] /\ u[j] = s[Skip(k, j)]
      BY <1>5, <3>1
    <3>4. s[Skip(k, i)] < s[Skip(k, j)]
      BY <1>1, <3>2 DEF Ascending
    <3>. QED BY <3>3, <3>4
  <2>. QED BY <2>1 DEF Ascending
<1>7. ASSUME NEW f \in ToSet(s), f # s[k] PROVE f \in ToSet(u)
  <2>1. PICK i \in 1 .. Len(s) : f = s[i]
    BY <1>1 DEF ToSet
  <2>2. CASE i < k
    <3>1. i \in 1 .. Len(s) - 1
      BY <1>1, <2>2
    <3>2. i \in DOMAIN u /\ u[i] = f
      <4>1. Skip(k, i) = i
        BY <2>2 DEF Skip
      <4>. QED BY <1>5, <2>1, <3>1, <4>1
    <3>. QED BY <3>2 DEF ToSet
  <2>3. CASE i > k
    <3>1. i - 1 \in 1 .. Len(s) - 1 /\ ~ (i - 1 < k) /\ (i - 1) + 1 = i
      BY <1>1, <2>3
    <3>2. Skip(k, i - 1) = i
      BY <3>1 DEF Skip
    <3>3. i - 1 \in DOMAIN u /\ u[i - 1] = f
      BY <1>5, <2>1, <3>1, <3>2
    <3>. QED BY <3>3 DEF ToSet
  <2>. QED BY <1>1, <1>7, <2>1, <2>2, <2>3
<1>. QED BY <1>5, <1>6, <1>7 DEF u

-----------------------------------------------------------------------------
(* One store.                                                              *)

\* The invariant of the only store r.  Inside a save the file is empty and what
\* it promised is in memory, less what the limit has just dropped.
Inv(r) ==
    /\ made \in 0 .. MaxFacts
    /\ saving \subseteq open /\ open \subseteq {r}
    /\ limit \in [Stores -> Nat] /\ (r \in open => limit[r] \in Limits)
    /\ memories \in [Stores -> Seq(1 .. made)] /\ Ascending(memories[r])
    /\ file \in [whole : BOOLEAN, facts : Seq(1 .. made)]
    /\ Ascending(file.facts)
    /\ kept \subseteq 1 .. made
    /\ saving = {} => file.whole /\ kept \subseteq ToSet(file.facts)
    /\ r \in open \ saving => memories[r] = file.facts
    /\ r \in saving =>
          /\ ~ file.whole
          /\ \A f \in kept :
                \/ f \in ToSet(memories[r])
                \/ /\ Len(memories[r]) = limit[r]
                   /\ \A g \in ToSet(memories[r]) : f < g

\* memory.go:30-41: no memories and no file.
LEMMA InitInv == ASSUME NEW r, Stores = {r} PROVE Init => Inv(r)
<1>. SUFFICES ASSUME Init PROVE Inv(r)
  OBVIOUS
<1>1. << >> \in Seq(1 .. 0) /\ Ascending(<< >>)
  BY DEF Ascending
<1>. QED BY <1>1, MemoryAssumption DEF Init, Inv

\* Facts that are made later do not change what a list is.
LEMMA MoreFacts ==
    ASSUME NEW m \in Nat, NEW s \in Seq(1 .. m) PROVE s \in Seq(1 .. m + 1)
<1>1. \A i \in 1 .. Len(s) : s[i] \in 1 .. m + 1
  OBVIOUS
<1>. QED BY <1>1

\* memory.go: every step keeps the invariant.
LEMMA NextInv ==
    ASSUME NEW r, Stores = {r}, ~ CrashInSave
    PROVE  Inv(r) /\ [Next]_vars => Inv(r)'
<1>. SUFFICES ASSUME Inv(r), [Next]_vars PROVE Inv(r)'
  OBVIOUS
<1>1. /\ made \in Nat /\ r \in Stores
      /\ memories[r] \in Seq(1 .. made) /\ Ascending(memories[r])
      /\ file.facts \in Seq(1 .. made) /\ file.whole \in BOOLEAN
  BY DEF Inv
<1>2. << >> \in Seq(1 .. made) /\ Ascending(<< >>) /\ ToSet(<< >>) = {}
  BY DEF Ascending, ToSet
<1>3. ASSUME NEW n \in Limits, Open(r, n) PROVE Inv(r)'
  <2>1. saving = {} /\ file.whole /\ Loaded = file.facts
    BY <1>3 DEF Open, Inv, Loaded
  <2>2. n \in Nat
    BY MemoryAssumption
  <2>. QED BY <1>1, <1>3, <2>1, <2>2 DEF Open, Inv
<1>4. CASE Add(r)
  <2>. DEFINE more == Append(memories[r], made + 1)
              left == Latest(more, limit[r])
  <2>1. /\ r \in open /\ saving = {} /\ limit[r] \in Nat \ {0}
        /\ made + 1 \in 0 .. MaxFacts /\ made' = made + 1
        /\ kept \subseteq ToSet(memories[r])
    BY <1>4, MemoryAssumption DEF Add, Inv
  <2>2. /\ memories' = [memories EXCEPT ![r] = left] /\ saving' = {r}
        /\ file' = [whole |-> FALSE, facts |-> << >>]
    BY <1>4, <2>1 DEF Add, StartSave, Trimmed
  <2>3. /\ more \in Seq(1 .. made + 1) /\ Ascending(more)
        /\ ToSet(memories[r]) \subseteq ToSet(more)
    BY <1>1, AppendAscends
  <2>. HIDE DEF more
  <2>4. /\ left \in Seq(1 .. made + 1) /\ Ascending(left)
        /\ \A f \in ToSet(more) :
              \/ f \in ToSet(left)
              \/ Len(left) = limit[r] /\ \A g \in ToSet(left) : f < g
    <3>1. made + 1 \in Nat /\ limit[r] \in Nat \ {0}
      BY <1>1, <2>1
    <3>. QED BY <2>3, <3>1, LatestKeeps
  <2>. HIDE DEF left
  <2>5. memories' \in [Stores -> Seq(1 .. made')] /\ memories'[r] = left
    BY <1>1, <2>1, <2>2, <2>4 DEF Inv
  <2>6. << >> \in Seq(1 .. made') /\ kept \subseteq 1 .. made'
    BY <1>1, <2>1 DEF Inv
  <2>7. UNCHANGED <<limit, open, kept>>
    BY <1>4 DEF Add
  <2>. QED BY <1>2, <2>1, <2>2, <2>3, <2>4, <2>5, <2>6, <2>7 DEF Inv
<1>5. ASSUME NEW i \in DOMAIN memories[r], Delete(r, i) PROVE Inv(r)'
  <2>. DEFINE left == RemoveAt(memories[r], i)
  <2>1. r \in open /\ saving = {} /\ kept \subseteq ToSet(memories[r])
    BY <1>5 DEF Delete, Inv
  <2>2. /\ memories' = [memories EXCEPT ![r] = left] /\ saving' = {r}
        /\ file' = [whole |-> FALSE, facts |-> << >>]
        /\ kept' = kept \ {memories[r][i]} /\ UNCHANGED <<limit, open, made>>
    BY <1>5, <2>1 DEF Delete, StartSave
  <2>3. /\ left \in Seq(1 .. made) /\ Ascending(left)
        /\ ToSet(memories[r]) \ {memories[r][i]} \subseteq ToSet(left)
    BY <1>1, RemoveKeeps
  <2>. HIDE DEF left
  <2>4. memories' \in [Stores -> Seq(1 .. made)] /\ memories'[r] = left
    BY <1>1, <2>2, <2>3 DEF Inv
  <2>5. kept' \subseteq ToSet(left) /\ kept' \subseteq 1 .. made
    BY <2>1, <2>2, <2>3 DEF Inv
  <2>. QED BY <1>2, <2>1, <2>2, <2>3, <2>4, <2>5 DEF Inv
<1>6. CASE Write(r)
  <2>1. r \in saving /\ saving' = {} /\ UNCHANGED <<memories, limit, open, made>>
    BY <1>6 DEF Write, Inv
  <2>2. file' = [whole |-> TRUE, facts |-> memories[r]]
    BY <1>6, <2>1 DEF Write, Written, Inv
  <2>3. ToSet(memories[r]) \subseteq 1 .. made
    BY <1>1 DEF ToSet
  <2>4. kept' \subseteq ToSet(memories[r])
    BY <1>6, <2>1 DEF Write, Inv
  <2>. QED BY <1>1, <2>1, <2>2, <2>3, <2>4 DEF Inv
<1>7. CASE Close(r)
  <2>1. r \in open /\ saving = {} /\ saving' = {} /\ open' = {}
    BY <1>7 DEF Close, Inv
  <2>2. memories' \in [Stores -> Seq(1 .. made)] /\ memories'[r] = << >>
    BY <1>1, <1>2, <1>7 DEF Close, Inv
  <2>. QED BY <1>2, <1>7, <2>1, <2>2 DEF Close, Inv
<1>8. CASE UNCHANGED vars
  BY <1>8 DEF vars, Inv
<1>. QED BY <1>3, <1>4, <1>5, <1>6, <1>7, <1>8 DEF Next

\* memory.go: the invariant always holds.
LEMMA SpecInv ==
    ASSUME NEW r, Stores = {r}, ~ CrashInSave PROVE Spec => []Inv(r)
BY InitInv, NextInv, PTL DEF Spec

\* memory.go:22,48-75: NothingForgotten.  A list loaded under a larger limit is
\* cut by more than one fact, so the invariant says which facts a limit drops.
THEOREM Remembers ==
    ASSUME NEW r, Stores = {r}, ~ CrashInSave PROVE Spec => []NothingForgotten
<1>1. Inv(r) => NothingForgotten
  BY DEF Inv, NothingForgotten
<1>. QED BY <1>1, SpecInv, PTL

\* memory.go:22-114: the store implements MemoryAbs: a step of Add or Delete is
\* its step, and opening, writing and closing change nothing it promises.
THEOREM Implements ==
    ASSUME NEW r, Stores = {r}, ~ CrashInSave PROVE Spec => ImplementsAbs
<1>1. Init => Abs!Init
  BY DEF Init, Abs!Init, Known
<1>2. Inv(r) /\ Inv(r)' /\ [Next]_vars => [Abs!Next]_Known
  <2>. SUFFICES ASSUME Inv(r), Inv(r)', [Next]_vars PROVE [Abs!Next]_Known
    OBVIOUS
  <2>1. /\ Known = IF r \in open THEN memories[r] ELSE file.facts
        /\ Known' = IF r \in open' THEN memories'[r] ELSE file'.facts
    BY DEF Known, Inv
  <2>2. ASSUME NEW n \in Limits, Open(r, n) PROVE Known' = Known
    BY <2>1, <2>2 DEF Open, Loaded, Inv
  <2>3. CASE Add(r)
    <3>1. /\ Known = memories[r]
          /\ Known' = Latest(Append(memories[r], made'), limit[r])
      BY <2>1, <2>3 DEF Add, StartSave, Trimmed, Inv
    <3>2. made' \in 1 .. MaxFacts /\ limit[r] \in Limits
      BY <2>3 DEF Add, Inv
    <3>. QED BY <3>1, <3>2 DEF Abs!Next, Abs!Remember, Abs!Latest, Latest
  <2>4. ASSUME NEW i \in DOMAIN memories[r], Delete(r, i)
        PROVE  Abs!Next
    <3>1. Known = memories[r] /\ Known' = RemoveAt(memories[r], i)
      BY <2>1, <2>4 DEF Delete, StartSave, Inv
    <3>. QED BY <3>1 DEF Abs!Next, Abs!Forget, Abs!Without, RemoveAt
  <2>5. CASE Write(r)
    BY <2>1, <2>5 DEF Write, Inv
  <2>6. CASE Close(r)
    BY <2>1, <2>6 DEF Close, Inv
  <2>7. CASE UNCHANGED vars
    BY <2>1, <2>7 DEF vars
  <2>. QED BY <2>2, <2>3, <2>4, <2>5, <2>6, <2>7 DEF Next
<1>. QED BY <1>1, <1>2, SpecInv, PTL DEF Spec, ImplementsAbs, Abs!Spec
-----------------------------------------------------------------------------
(* Any number of stores on one file, killed wherever it hurts.             *)

\* A list of facts that were made, in the order of their making.
FactList(s) == s \in Seq(1 .. made) /\ Ascending(s)

ListInv ==
    /\ made \in Nat
    /\ saving \subseteq open /\ open \subseteq Stores
    /\ limit \in [Stores -> Nat] /\ \A s \in open : limit[s] \in Limits
    /\ DOMAIN memories = Stores /\ \A s \in Stores : FactList(memories[s])
    /\ FactList(file.facts)
    /\ kept \subseteq 1 .. made

\* memory.go: every step of every store keeps the lists lists of facts.
LEMMA NextListInv == ListInv /\ [Next]_vars => ListInv'
<1>. SUFFICES ASSUME ListInv, [Next]_vars PROVE ListInv'
  OBVIOUS
<1>1. FactList(<< >>) /\ made \in Nat
  BY DEF FactList, Ascending, ListInv
<1>2. ASSUME UNCHANGED <<limit, open>>, NEW s \in open, made' \in {made, made + 1},
             NEW l, l \in Seq(1 .. made'), Ascending(l), StartSave(s, l),
             kept' \subseteq kept
      PROVE  ListInv'
  <2>1. /\ memories' = [memories EXCEPT ![s] = l] /\ saving' = saving \cup {s}
        /\ file' = [whole |-> FALSE, facts |-> << >>]
    BY <1>2 DEF StartSave
  <2>2. made' \in Nat /\ 1 .. made \subseteq 1 .. made'
    BY <1>1, <1>2
  <2>3. ASSUME NEW t \in Stores PROVE FactList(memories[t])'
    <3>1. CASE t = s
      BY <1>2, <2>1, <3>1 DEF ListInv, FactList
    <3>2. CASE t # s
      <4>1. memories'[t] = memories[t] /\ memories[t] \in Seq(1 .. made)
            /\ Ascending(memories[t])
        BY <2>1, <3>2 DEF ListInv, FactList
      <4>2. memories[t] \in Seq(1 .. made')
        BY <1>1, <1>2, <4>1, MoreFacts
      <4>. QED BY <4>1, <4>2 DEF FactList
    <3>. QED BY <3>1, <3>2
  <2>4. FactList(file.facts)'
    BY <2>1 DEF FactList, Ascending
  <2>. QED BY <1>2, <2>1, <2>2, <2>3, <2>4 DEF ListInv
<1>3. ASSUME UNCHANGED made, kept' \subseteq 1 .. made,
             saving' \subseteq open', open' \subseteq Stores,
             limit' \in [Stores -> Nat], \A s \in open' : limit'[s] \in Limits,
             DOMAIN memories' = Stores,
             \A s \in Stores : memories'[s] \in {memories[s], << >>, file.facts},
             file'.facts = file.facts \/ \E s \in Stores : file'.facts = memories[s]
      PROVE  ListInv'
  <2>1. \A s \in Stores : FactList(memories[s])'
    BY <1>1, <1>3 DEF ListInv, FactList
  <2>2. FactList(file.facts)'
    BY <1>3 DEF ListInv, FactList
  <2>. QED BY <1>1, <1>3, <2>1, <2>2 DEF ListInv
<1>4. ASSUME NEW s \in Stores, NEW n \in Limits, Open(s, n) PROVE ListInv'
  <2>1. \A t \in Stores : memories'[t] \in {memories[t], << >>, file.facts}
    BY <1>4 DEF Open, Loaded, ListInv
  <2>2. /\ limit' \in [Stores -> Nat]
        /\ \A t \in open' : limit'[t] \in Limits
    BY <1>4, MemoryAssumption DEF Open, ListInv
  <2>3. DOMAIN memories' = Stores
    BY <1>4 DEF Open, ListInv
  <2>. QED BY <1>3, <1>4, <2>1, <2>2, <2>3 DEF Open, ListInv
<1>5. ASSUME NEW s \in Stores, Add(s) PROVE ListInv'
  <2>. DEFINE more == Append(memories[s], made + 1)
              left == Latest(more, limit[s])
  <2>1. /\ s \in open /\ limit[s] \in Nat \ {0} /\ made' = made + 1
        /\ made + 1 \in Nat /\ UNCHANGED <<limit, open, kept>>
        /\ memories[s] \in Seq(1 .. made) /\ Ascending(memories[s])
    BY <1>1, <1>5, MemoryAssumption DEF Add, ListInv, FactList
  <2>2. more \in Seq(1 .. made + 1) /\ Ascending(more)
    BY <1>1, <2>1, AppendAscends
  <2>3. StartSave(s, left)
    BY <1>5, <2>1 DEF Add, Trimmed
  <2>. HIDE DEF more
  <2>4. left \in Seq(1 .. made') /\ Ascending(left)
    BY <2>1, <2>2, LatestKeeps
  <2>. HIDE DEF left
  <2>. QED BY <1>2, <2>1, <2>3, <2>4
<1>6. ASSUME NEW s \in Stores, NEW i \in DOMAIN memories[s], Delete(s, i)
      PROVE  ListInv'
  <2>. DEFINE left == RemoveAt(memories[s], i)
  <2>1. /\ s \in open /\ StartSave(s, left) /\ kept' \subseteq kept
        /\ UNCHANGED <<limit, open, made>>
        /\ memories[s] \in Seq(1 .. made) /\ Ascending(memories[s])
    BY <1>6 DEF Delete, ListInv, FactList
  <2>2. left \in Seq(1 .. made') /\ Ascending(left)
    BY <1>1, <2>1, RemoveKeeps
  <2>. HIDE DEF left
  <2>. QED BY <1>2, <2>1, <2>2
<1>7. ASSUME NEW s \in Stores, Write(s) PROVE ListInv'
  <2>1. ToSet(memories[s]) \subseteq 1 .. made
    BY DEF ListInv, FactList, ToSet
  <2>2. kept' \subseteq kept \cup ToSet(memories[s])
    BY <1>7 DEF Write
  <2>3. file'.facts = memories[s]
    BY <1>7 DEF Write, Written
  <2>. QED BY <1>3, <1>7, <2>1, <2>2, <2>3 DEF Write, ListInv
<1>8. ASSUME NEW s \in Stores, Close(s) PROVE ListInv'
  BY <1>3, <1>8 DEF Close, ListInv
<1>9. CASE UNCHANGED vars
  BY <1>3, <1>9 DEF vars, ListInv
<1>. QED BY <1>4, <1>5, <1>6, <1>7, <1>8, <1>9 DEF Next

\* memory.go:22-75: TypeOK, for any number of stores on the file and with crashes
\* inside a save: whatever else is lost, no list is ever out of order.
THEOREM ListsInOrder == Spec => []TypeOK
<1>1. Init => ListInv
  <2>1. << >> \in Seq(1 .. 0) /\ Ascending(<< >>)
    BY DEF Ascending
  <2>. QED BY <2>1 DEF Init, ListInv, FactList
<1>2. ListInv => TypeOK
  <2>. SUFFICES ASSUME ListInv PROVE TypeOK
    OBVIOUS
  <2>1. \A s \in Stores : /\ memories[s] \in Seq(1 .. made)
                          /\ \A i, j \in DOMAIN memories[s] :
                                i < j => memories[s][i] < memories[s][j]
    BY DEF ListInv, FactList, Ascending
  <2>. QED BY <2>1 DEF ListInv, TypeOK
<1>. QED BY <1>1, <1>2, NextListInv, PTL DEF Spec
=============================================================================
