----------------------------- MODULE BatcherProofs -----------------------------
(***************************************************************************)
(* Safety of the batcher for every set of callers, every capacity and      *)
(* every number of messages.                                               *)
(***************************************************************************)
EXTENDS Batcher, FiniteSetTheorems, SequenceTheorems, TLAPS

\* What the buffer and the timers need to know of each other.  The batches and
\* the history play no part in it.
Shape ==
    /\ messages \in Seq(Nat)
    /\ added \in Nat
    /\ callbacks \in Nat
    /\ idleTimer \in BOOLEAN
    /\ maxTimer \in BOOLEAN

\* batcher.go:81-83: a full buffer is never left behind.
BelowCapacity == Len(messages) < Capacity

TimerInv == Shape /\ BelowCapacity /\ NoneStranded

\* batcher.go:116-130: after a drain nothing is buffered.
LEMMA DrainStep ==
    ASSUME Drain, added' \in Nat, callbacks' \in Nat
    PROVE  TimerInv'
<1>1. messages' = << >> /\ idleTimer' \in BOOLEAN /\ maxTimer' \in BOOLEAN
  BY DEF Drain
<1>2. Len(<< >>) = 0 /\ << >> \in Seq(Nat)
  OBVIOUS
<1>3. Shape'
  BY <1>1, <1>2 DEF Shape
<1>4. BelowCapacity'
  BY <1>1, <1>2, BatcherAssumption DEF BelowCapacity
<1>5. NoneStranded'
  BY <1>1 DEF NoneStranded
<1>. QED BY <1>3, <1>4, <1>5 DEF TimerInv

\* batcher.go:60-88: an Add arms the idle timer and, with the first message, the
\* max timer, or drains the buffer it would fill.
LEMMA AddStep ==
    ASSUME TimerInv, NEW c \in Callers, Add(c)
    PROVE  TimerInv'
<1>1. /\ added' \in Nat /\ callbacks' = callbacks /\ callbacks \in Nat
      /\ messages \in Seq(Nat)
  BY DEF Add, TimerInv, Shape
<1>2. CASE Full
  BY <1>1, <1>2, DrainStep DEF Add
<1>3. CASE ~ Full
  <2>1. /\ messages' = Append(messages, added')
        /\ idleTimer' = TRUE
        /\ maxTimer' = (maxTimer \/ First)
    BY <1>3 DEF Add
  <2>2. messages' \in Seq(Nat) /\ Len(messages') = Len(messages) + 1
    BY <1>1, <2>1
  <2>3. Len(messages') < Capacity
    BY <1>1, <1>3, <2>2, BatcherAssumption DEF Full
  <2>4. maxTimer' \/ callbacks' > 0
    BY <1>1, <2>1 DEF First, TimerInv, NoneStranded
  <2>5. maxTimer' \in BOOLEAN
    BY <2>1
  <2>. QED BY <1>1, <2>1, <2>2, <2>3, <2>4, <2>5
           DEF TimerInv, Shape, BelowCapacity, NoneStranded
<1>. QED BY <1>2, <1>3

\* batcher.go:78: a timer that fires leaves a callback behind.
LEMMA FireStep ==
    ASSUME TimerInv, IdleFires \/ MaxFires
    PROVE  TimerInv'
<1>1. /\ callbacks' \in Nat /\ callbacks' > 0
      /\ messages' = messages /\ added' = added
  BY DEF IdleFires, MaxFires, TimerInv, Shape
<1>2. idleTimer' \in BOOLEAN /\ maxTimer' \in BOOLEAN
  BY DEF IdleFires, MaxFires, TimerInv, Shape
<1>. QED BY <1>1, <1>2 DEF TimerInv, Shape, BelowCapacity, NoneStranded

\* batcher.go:99-106: a callback drains whatever is buffered by then.
LEMMA TimerFlushStep ==
    ASSUME TimerInv, TimerFlush
    PROVE  TimerInv'
<1>1. callbacks' \in Nat /\ added' = added /\ added \in Nat
  BY DEF TimerFlush, TimerInv, Shape
<1>2. CASE messages = << >>
  <2>1. UNCHANGED <<messages, idleTimer, maxTimer>>
    BY <1>2 DEF TimerFlush
  <2>. QED BY <1>1, <1>2, <2>1
           DEF TimerInv, Shape, BelowCapacity, NoneStranded
<1>3. CASE messages # << >>
  BY <1>1, <1>3, DrainStep DEF TimerFlush
<1>. QED BY <1>2, <1>3

\* Every step keeps the invariant.
LEMMA NextTimerInv == TimerInv /\ [Next]_vars => TimerInv'
<1>. SUFFICES ASSUME TimerInv, [Next]_vars PROVE TimerInv'
  OBVIOUS
<1>1. ASSUME NEW c \in Callers, Add(c) PROVE TimerInv'
  BY <1>1, AddStep
<1>2. ASSUME NEW c \in Callers, ForceFlush(c) PROVE TimerInv'
  BY <1>2, DrainStep DEF ForceFlush, TimerInv, Shape
<1>3. CASE IdleFires \/ MaxFires
  BY <1>3, FireStep
<1>4. CASE TimerFlush
  BY <1>4, TimerFlushStep
<1>5. CASE Stop
  BY <1>5, DrainStep DEF Stop, TimerInv, Shape
<1>6. ASSUME UNCHANGED <<messages, added, callbacks, idleTimer, maxTimer>>
      PROVE  TimerInv'
  BY <1>6 DEF TimerInv, Shape, BelowCapacity, NoneStranded
<1>7. ASSUME NEW job \in waiting, StartFlush(job) PROVE TimerInv'
  BY <1>6, <1>7 DEF StartFlush
<1>8. CASE EndFlush
  BY <1>6, <1>8 DEF EndFlush
<1>9. CASE UNCHANGED vars
  BY <1>6, <1>9 DEF vars
<1>. QED BY <1>1, <1>2, <1>3, <1>4, <1>5, <1>7, <1>8, <1>9 DEF Next

\* The invariant holds in every reachable state.
THEOREM TimerInvariance == Spec => []TimerInv
<1>1. Init => TimerInv
  <2>. SUFFICES ASSUME Init PROVE TimerInv
    OBVIOUS
  <2>1. /\ messages = << >> /\ added = 0 /\ callbacks = 0
        /\ idleTimer = FALSE /\ maxTimer = FALSE
    BY DEF Init
  <2>2. Len(<< >>) = 0 /\ << >> \in Seq(Nat)
    OBVIOUS
  <2>3. Shape
    BY <2>1, <2>2 DEF Shape
  <2>4. BelowCapacity
    BY <2>1, <2>2, BatcherAssumption DEF BelowCapacity
  <2>5. NoneStranded
    BY <2>1 DEF NoneStranded
  <2>. QED BY <2>3, <2>4, <2>5 DEF TimerInv
<1>. QED BY <1>1, NextTimerInv, PTL DEF Spec

\* batcher.go:68-78: nothing is ever buffered without a timer to flush it.
THEOREM NeverStranded == Spec => []NoneStranded
<1>1. TimerInv => NoneStranded
  BY DEF TimerInv
<1>. QED BY <1>1, TimerInvariance, PTL

\* batcher.go:81-83: no Add leaves a full buffer behind.
THEOREM AlwaysBelowCapacity == Spec => []BelowCapacity
<1>1. TimerInv => BelowCapacity
  BY DEF TimerInv
<1>. QED BY <1>1, TimerInvariance, PTL

-----------------------------------------------------------------------------
(* Lists of distinct messages.                                             *)

\* A list with one more message.
LEMMA AppendOnce ==
    ASSUME NEW S, NEW s \in Seq(S), NEW x \in S
    PROVE  /\ Append(s, x) \in Seq(S)
           /\ ToSet(Append(s, x)) = ToSet(s) \cup {x}
           /\ IsInjective(s) /\ x \notin ToSet(s) => IsInjective(Append(s, x))
<1>. DEFINE t == Append(s, x)
            n == Len(s)
<1>1. /\ t \in Seq(S) /\ n \in Nat /\ Len(t) = n + 1
      /\ \A i \in 1 .. n : t[i] = s[i]
      /\ t[n + 1] = x
  BY AppendProperties
<1>2. DOMAIN s = 1 .. n /\ DOMAIN t = 1 .. n + 1
  BY <1>1
<1>. HIDE DEF t, n
<1>3. ToSet(t) = ToSet(s) \cup {x}
  <2>1. ASSUME NEW i \in 1 .. n + 1 PROVE t[i] \in ToSet(s) \cup {x}
    <3>1. CASE i = n + 1
      BY <1>1, <3>1
    <3>2. CASE i # n + 1
      <4>1. i \in 1 .. n
        BY <1>1, <3>2
      <4>. QED BY <1>1, <1>2, <4>1 DEF ToSet
    <3>. QED BY <3>1, <3>2
  <2>2. \A i \in 1 .. n : i \in 1 .. n + 1
    BY <1>1
  <2>3. n + 1 \in 1 .. n + 1
    BY <1>1
  <2>. QED BY <1>1, <1>2, <2>1, <2>2, <2>3 DEF ToSet
<1>4. ASSUME IsInjective(s), x \notin ToSet(s) PROVE IsInjective(t)
  <2>. SUFFICES ASSUME NEW i \in 1 .. n + 1, NEW j \in 1 .. n + 1, t[i] = t[j]
                PROVE  i = j
    BY <1>2 DEF IsInjective
  <2>1. \A k \in 1 .. n : t[k] # x
    BY <1>1, <1>2, <1>4 DEF ToSet
  <2>2. i = n + 1 \/ i \in 1 .. n
    BY <1>1
  <2>3. j = n + 1 \/ j \in 1 .. n
    BY <1>1
  <2>4. CASE i \in 1 .. n /\ j \in 1 .. n
    BY <1>1, <1>2, <1>4, <2>4 DEF IsInjective
  <2>. QED BY <1>1, <2>1, <2>2, <2>3, <2>4
<1>. QED BY <1>1, <1>3, <1>4 DEF t

\* Two lists, one behind the other.
LEMMA ConcatOnce ==
    ASSUME NEW S, NEW s \in Seq(S), NEW t \in Seq(S)
    PROVE  /\ s \o t \in Seq(S)
           /\ ToSet(s \o t) = ToSet(s) \cup ToSet(t)
           /\ /\ IsInjective(s) /\ IsInjective(t)
              /\ ToSet(s) \cap ToSet(t) = {}
              => IsInjective(s \o t)
<1>. DEFINE u == s \o t
            n == Len(s)
            m == Len(t)
<1>1. /\ u \in Seq(S) /\ n \in Nat /\ m \in Nat /\ Len(u) = n + m
      /\ \A i \in 1 .. n + m : u[i] = IF i <= n THEN s[i] ELSE t[i - n]
  BY ConcatProperties
<1>2. DOMAIN s = 1 .. n /\ DOMAIN t = 1 .. m /\ DOMAIN u = 1 .. n + m
  BY <1>1
<1>. HIDE DEF u, n, m
<1>3. \A i \in 1 .. n : i \in 1 .. n + m /\ u[i] = s[i]
  BY <1>1
<1>4. ASSUME NEW i \in 1 .. m PROVE i + n \in 1 .. n + m /\ u[i + n] = t[i]
  <2>1. i + n \in 1 .. n + m /\ ~ (i + n <= n) /\ (i + n) - n = i
    BY <1>1
  <2>. QED BY <1>1, <2>1
<1>5. ASSUME NEW i \in 1 .. n + m
      PROVE  \/ i \in 1 .. n /\ u[i] = s[i]
             \/ i - n \in 1 .. m /\ u[i] = t[i - n]
  BY <1>1
<1>6. ToSet(u) = ToSet(s) \cup ToSet(t)
  BY <1>2, <1>3, <1>4, <1>5 DEF ToSet
<1>7. ASSUME IsInjective(s), IsInjective(t), ToSet(s) \cap ToSet(t) = {}
      PROVE  IsInjective(u)
  <2>. SUFFICES ASSUME NEW i \in 1 .. n + m, NEW j \in 1 .. n + m, u[i] = u[j]
                PROVE  i = j
    BY <1>2 DEF IsInjective
  <2>1. \A k \in 1 .. n : s[k] \in ToSet(s)
    BY <1>2 DEF ToSet
  <2>2. \A k \in 1 .. m : t[k] \in ToSet(t)
    BY <1>2 DEF ToSet
  <2>3. CASE i \in 1 .. n /\ j \in 1 .. n
    BY <1>2, <1>3, <1>7, <2>3 DEF IsInjective
  <2>4. CASE i - n \in 1 .. m /\ u[i] = t[i - n]
             /\ j - n \in 1 .. m /\ u[j] = t[j - n]
    <3>1. i - n = j - n
      BY <1>2, <1>7, <2>4 DEF IsInjective
    <3>. QED BY <1>1, <3>1
  <2>. QED BY <1>3, <1>5, <1>7, <2>1, <2>2, <2>3, <2>4
<1>. QED BY <1>1, <1>6, <1>7 DEF u

-----------------------------------------------------------------------------
(* Where the messages are.                                                 *)

Jobs == waiting \cup {flushing}

\* The types, with a caller's one flush at a time stated of the jobs.
Typed ==
    /\ added \in 0 .. MaxAdds
    /\ messages \in Seq(1 .. added) /\ handed \in Seq(1 .. added)
    /\ {idleTimer, maxTimer, stopped} \subseteq BOOLEAN
    /\ callbacks \in Nat
    /\ \A job \in Jobs : /\ job.batch \in Seq(1 .. added)
                         /\ job.by \in Callers \cup {"timer", "nobody"}
    /\ \A c \in Callers : \A j1, j2 \in Jobs :
          j1.by = c /\ j2.by = c => j1 = j2

PlaceInv ==
    /\ Typed
    /\ EachMessageOnce
    /\ ~ stopped => dropped = {}

\* batcher.go:60-63: the numbers of the messages only grow.
LEMMA NumbersGrow ==
    ASSUME Typed, added' \in {added, added + 1}
    PROVE  /\ added \in Nat /\ added' \in Nat
           /\ 1 .. added \subseteq 1 .. added'
           /\ Seq(1 .. added) \subseteq Seq(1 .. added')
<1>1. added \in Nat /\ MaxAdds \in Nat
  BY BatcherAssumption DEF Typed
<1>2. added' \in Nat /\ 1 .. added \subseteq 1 .. added'
  BY <1>1
<1>3. Seq(1 .. added) \subseteq Seq(1 .. added')
  BY <1>2
<1>. QED BY <1>1, <1>2, <1>3

\* batcher.go:108-130: the buffer leaves as one batch, with the message that
\* filled it if there is one.
LEMMA BatchLeaves ==
    ASSUME PlaceInv, NEW b, NEW c \in Callers \cup {"timer"},
           c \in Callers => Free(c),
           added' \in {added, added + 1}, added' <= MaxAdds,
           b \in Seq(1 .. added'), IsInjective(b),
           ToSet(b) = ToSet(messages) \cup ((1 .. added') \ (1 .. added)),
           messages' = << >>, idleTimer' = FALSE, maxTimer' = FALSE,
           callbacks' \in Nat,
           waiting' = waiting \cup {[batch |-> b, by |-> c]},
           UNCHANGED <<flushing, stopped, handed, dropped>>
    PROVE  PlaceInv'
<1>. DEFINE job == [batch |-> b, by |-> c]
<1>1. job.batch = b /\ job.by = c
  OBVIOUS
<1>2. waiting' = waiting \cup {job}
  OBVIOUS
<1>. HIDE DEF job
<1>3. Jobs' = Jobs \cup {job}
  BY <1>2 DEF Jobs
<1>4. /\ added \in Nat /\ added' \in Nat
      /\ 1 .. added \subseteq 1 .. added'
      /\ Seq(1 .. added) \subseteq Seq(1 .. added')
  BY NumbersGrow DEF PlaceInv
<1>5. Typed'
  <2>1. added' \in 0 .. MaxAdds
    BY <1>4, BatcherAssumption
  <2>2. messages' \in Seq(1 .. added') /\ handed' \in Seq(1 .. added')
    BY <1>4 DEF PlaceInv, Typed
  <2>3. {idleTimer', maxTimer', stopped'} \subseteq BOOLEAN /\ callbacks' \in Nat
    BY DEF PlaceInv, Typed
  <2>4. \A j \in Jobs' : /\ j.batch \in Seq(1 .. added')
                         /\ j.by \in Callers \cup {"timer", "nobody"}
    BY <1>1, <1>3, <1>4 DEF PlaceInv, Typed
  <2>5. ASSUME NEW d \in Callers, NEW j1 \in Jobs', NEW j2 \in Jobs',
               j1.by = d, j2.by = d
        PROVE  j1 = j2
    <3>1. CASE c = d
      <4>1. \A j \in Jobs : j.by # d
        BY <3>1 DEF Free, Jobs
      <4>. QED BY <1>3, <2>5, <4>1
    <3>2. CASE c # d
      BY <1>1, <1>3, <2>5, <3>2 DEF PlaceInv, Typed
    <3>. QED BY <3>1, <3>2
  <2>. QED BY <2>1, <2>2, <2>3, <2>4, <2>5 DEF Typed
<1>6. EachMessageOnce'
  <2>. DEFINE new == (1 .. added') \ (1 .. added)
              M == ToSet(messages)
              W == InWaiting
              H == ToSet(handed)
  <2>1. /\ M \cup W \cup H \cup dropped = 1 .. added
        /\ M \cap W = {} /\ (M \cup W) \cap (H \cup dropped) = {}
        /\ H \cap dropped = {} /\ IsInjective(handed)
        /\ \A j1, j2 \in waiting :
              /\ IsInjective(j1.batch)
              /\ j1 # j2 => ToSet(j1.batch) \cap ToSet(j2.batch) = {}
    BY DEF PlaceInv, EachMessageOnce
  <2>2. InWaiting' = W \cup ToSet(b)
    BY <1>1, <1>2 DEF InWaiting
  <2>3. \A j \in waiting : ToSet(j.batch) \subseteq W
    BY DEF InWaiting
  <2>4. ToSet(messages') = {} /\ IsInjective(messages')
    BY DEF ToSet, IsInjective
  <2>5. new \cap (1 .. added) = {} /\ (1 .. added) \cup new = 1 .. added'
    BY <1>4
  <2>6. ToSet(b) = M \cup new
    OBVIOUS
  <2>. HIDE DEF new, M, W, H
  <2>7. ToSet(messages') \cup InWaiting' \cup H \cup dropped = 1 .. added'
    BY <2>1, <2>2, <2>4, <2>5, <2>6
  <2>8. InWaiting' \cap (H \cup dropped) = {}
    BY <2>1, <2>2, <2>5, <2>6
  <2>9. ASSUME NEW j1 \in waiting', NEW j2 \in waiting'
        PROVE  /\ IsInjective(j1.batch)
               /\ j1 # j2 => ToSet(j1.batch) \cap ToSet(j2.batch) = {}
    <3>1. \A j \in waiting : ToSet(j.batch) \cap ToSet(b) = {}
      BY <2>1, <2>3, <2>5, <2>6
    <3>. QED BY <1>1, <1>2, <2>1, <3>1
  <2>10. handed' = handed /\ dropped' = dropped
    OBVIOUS
  <2>. QED BY <2>1, <2>4, <2>7, <2>8, <2>9, <2>10 DEF EachMessageOnce, H
<1>7. ~ stopped' => dropped' = {}
  BY DEF PlaceInv
<1>. QED BY <1>5, <1>6, <1>7 DEF PlaceInv

\* batcher.go:60-88: the message that is added gets a number nobody has.
LEMMA AddPlaced ==
    ASSUME PlaceInv, NEW c \in Callers, Add(c)
    PROVE  PlaceInv'
<1>1. /\ Free(c) /\ added < MaxAdds /\ added' = added + 1
      /\ added \in Nat /\ MaxAdds \in Nat /\ messages \in Seq(1 .. added)
      /\ UNCHANGED <<callbacks, flushing, stopped, handed, dropped>>
  BY BatcherAssumption DEF Add, PlaceInv, Typed
<1>2. /\ 1 .. added \subseteq 1 .. added'
      /\ Seq(1 .. added) \subseteq Seq(1 .. added')
      /\ added' \in 0 .. MaxAdds /\ added' <= MaxAdds
      /\ added' \in 1 .. added' /\ added' \notin 1 .. added
      /\ (1 .. added') \ (1 .. added) = {added'}
  BY <1>1
<1>. DEFINE b == Append(messages, added')
<1>3. added' \notin ToSet(messages)
  BY <1>1, <1>2 DEF PlaceInv, EachMessageOnce
<1>4. /\ b \in Seq(1 .. added')
      /\ ToSet(b) = ToSet(messages) \cup {added'}
      /\ IsInjective(b)
  <2>1. messages \in Seq(1 .. added') /\ IsInjective(messages)
    BY <1>1, <1>2 DEF PlaceInv, EachMessageOnce
  <2>. QED BY <1>2, <1>3, <2>1, AppendOnce
<1>5. CASE Full
  <2>1. /\ messages' = << >> /\ idleTimer' = FALSE /\ maxTimer' = FALSE
        /\ waiting' = waiting \cup {[batch |-> b, by |-> c]}
        /\ callbacks' \in Nat
    BY <1>1, <1>5 DEF Add, Drain, Queued, PlaceInv, Typed
  <2>. HIDE DEF b
  <2>. QED BY <1>1, <1>2, <1>4, <2>1, BatchLeaves
<1>6. CASE ~ Full
  <2>1. /\ messages' = b /\ idleTimer' = TRUE
        /\ maxTimer' = (maxTimer \/ First) /\ waiting' = waiting
    BY <1>6 DEF Add
  <2>. HIDE DEF b
  <2>2. Typed'
    <3>1. Jobs' = Jobs
      BY <1>1, <2>1 DEF Jobs
    <3>2. maxTimer' \in BOOLEAN
      BY <2>1
    <3>. QED BY <1>1, <1>2, <1>4, <2>1, <3>1, <3>2 DEF PlaceInv, Typed
  <2>3. EachMessageOnce'
    <3>. DEFINE M == ToSet(messages)
                W == InWaiting
                H == ToSet(handed)
    <3>1. /\ M \cup W \cup H \cup dropped = 1 .. added
          /\ M \cap W = {} /\ (M \cup W) \cap (H \cup dropped) = {}
      BY DEF PlaceInv, EachMessageOnce
    <3>2. InWaiting' = W
      BY <2>1 DEF InWaiting
    <3>3. ToSet(messages') = M \cup {added'}
      BY <1>4, <2>1
    <3>4. 1 .. added' = (1 .. added) \cup {added'}
      BY <1>1
    <3>. HIDE DEF M, W, H
    <3>5. /\ ToSet(messages') \cup W \cup H \cup dropped = 1 .. added'
          /\ ToSet(messages') \cap W = {}
          /\ (ToSet(messages') \cup W) \cap (H \cup dropped) = {}
      BY <1>2, <3>1, <3>3, <3>4
    <3>. QED BY <1>1, <1>4, <2>1, <3>2, <3>5 DEF PlaceInv, EachMessageOnce, H
  <2>. QED BY <1>1, <2>2, <2>3 DEF PlaceInv
<1>. QED BY <1>5, <1>6

\* batcher.go:90-97: ForceFlush takes the buffer, be it empty.
LEMMA ForceFlushPlaced ==
    ASSUME PlaceInv, NEW c \in Callers, ForceFlush(c)
    PROVE  PlaceInv'
<1>1. /\ Free(c) /\ added' = added /\ added <= MaxAdds
      /\ messages \in Seq(1 .. added) /\ IsInjective(messages)
      /\ messages' = << >> /\ idleTimer' = FALSE /\ maxTimer' = FALSE
      /\ callbacks' \in Nat
      /\ waiting' = waiting \cup {[batch |-> messages, by |-> c]}
      /\ UNCHANGED <<flushing, stopped, handed, dropped>>
  BY BatcherAssumption
  DEF ForceFlush, Drain, Queued, PlaceInv, Typed, EachMessageOnce
<1>2. ToSet(messages) = ToSet(messages) \cup ((1 .. added') \ (1 .. added))
  BY <1>1
<1>. QED BY <1>1, <1>2, BatchLeaves

\* batcher.go:99-106: so does a timer, unless the buffer is empty.
LEMMA TimerFlushPlaced ==
    ASSUME PlaceInv, TimerFlush
    PROVE  PlaceInv'
<1>1. /\ added' = added /\ added <= MaxAdds /\ callbacks' \in Nat
      /\ messages \in Seq(1 .. added) /\ IsInjective(messages)
      /\ UNCHANGED <<flushing, stopped, handed, dropped>>
  BY BatcherAssumption DEF TimerFlush, PlaceInv, Typed, EachMessageOnce
<1>2. CASE messages = << >>
  <2>1. UNCHANGED <<messages, idleTimer, maxTimer, waiting>>
    BY <1>2 DEF TimerFlush
  <2>. QED BY <1>1, <2>1
           DEF PlaceInv, Typed, Jobs, EachMessageOnce, InWaiting
<1>3. CASE messages # << >>
  <2>1. /\ messages' = << >> /\ idleTimer' = FALSE /\ maxTimer' = FALSE
        /\ waiting' = waiting \cup {[batch |-> messages, by |-> "timer"]}
    BY <1>3 DEF TimerFlush, Drain, Queued
  <2>2. ToSet(messages) = ToSet(messages) \cup ((1 .. added') \ (1 .. added))
    BY <1>1
  <2>3. "timer" \notin Callers /\ "timer" \in Callers \cup {"timer"}
    BY BatcherAssumption
  <2>. QED BY <1>1, <2>1, <2>2, <2>3, BatchLeaves
<1>. QED BY <1>2, <1>3

\* batcher.go:132-139: a batch is handed over whole, and as it leaves the set
\* of those that wait.
LEMMA StartFlushPlaced ==
    ASSUME PlaceInv, NEW job \in waiting, StartFlush(job)
    PROVE  PlaceInv'
<1>1. /\ flushing' = job /\ waiting' = waiting \ {job}
      /\ handed' = handed \o job.batch
      /\ UNCHANGED <<messages, idleTimer, maxTimer, callbacks, stopped, added,
                     dropped>>
  BY DEF StartFlush
<1>2. Jobs' \subseteq Jobs
  BY <1>1 DEF Jobs
<1>3. /\ handed \in Seq(1 .. added) /\ job.batch \in Seq(1 .. added)
      /\ IsInjective(handed) /\ IsInjective(job.batch)
  BY DEF PlaceInv, Typed, Jobs, EachMessageOnce
<1>. DEFINE M == ToSet(messages)
            W == InWaiting
            H == ToSet(handed)
            B == ToSet(job.batch)
<1>4. /\ M \cup W \cup H \cup dropped = 1 .. added
      /\ M \cap W = {} /\ (M \cup W) \cap (H \cup dropped) = {}
      /\ H \cap dropped = {} /\ B \subseteq W
  BY DEF PlaceInv, EachMessageOnce, InWaiting
<1>5. InWaiting' = W \ B
  <2>1. \A j \in waiting : j # job => ToSet(j.batch) \cap B = {}
    BY DEF PlaceInv, EachMessageOnce
  <2>. QED BY <1>1, <2>1 DEF InWaiting
<1>6. /\ handed' \in Seq(1 .. added) /\ ToSet(handed') = H \cup B
      /\ IsInjective(handed')
  <2>1. H \cap B = {}
    BY <1>4
  <2>. QED BY <1>1, <1>3, <2>1, ConcatOnce
<1>. HIDE DEF M, W, H, B
<1>7. /\ M \cup (W \ B) \cup (H \cup B) \cup dropped = 1 .. added
      /\ M \cap (W \ B) = {}
      /\ (M \cup (W \ B)) \cap ((H \cup B) \cup dropped) = {}
      /\ (H \cup B) \cap dropped = {}
  BY <1>4
<1>8. EachMessageOnce'
  BY <1>1, <1>5, <1>6, <1>7 DEF PlaceInv, EachMessageOnce, M
<1>9. Typed'
  BY <1>1, <1>2, <1>6 DEF PlaceInv, Typed
<1>. QED BY <1>1, <1>8, <1>9 DEF PlaceInv

\* batcher.go:38-48: Stop throws away the buffer and nothing else.
LEMMA StopPlaced ==
    ASSUME PlaceInv, Stop
    PROVE  PlaceInv'
<1>1. /\ stopped' = TRUE /\ messages' = << >> /\ idleTimer' = FALSE
      /\ maxTimer' = FALSE /\ dropped' = ToSet(messages) /\ dropped = {}
      /\ UNCHANGED <<callbacks, waiting, flushing, added, handed>>
  BY DEF Stop, Drain, PlaceInv
<1>2. Typed'
  <2>1. /\ Jobs' = Jobs /\ added' = added /\ handed' = handed
        /\ callbacks' = callbacks
    BY <1>1 DEF Jobs
  <2>2. messages' \in Seq(1 .. added')
    BY <1>1
  <2>3. {idleTimer', maxTimer', stopped'} \subseteq BOOLEAN
    BY <1>1, Zenon
  <2>. HIDE DEF Jobs
  <2>. QED BY <2>1, <2>2, <2>3 DEF PlaceInv, Typed
<1>3. EachMessageOnce'
  <2>1. ToSet(messages') = {} /\ IsInjective(messages')
    BY <1>1 DEF ToSet, IsInjective
  <2>2. InWaiting' = InWaiting
    BY <1>1 DEF InWaiting
  <2>. HIDE DEF InWaiting
  <2>. QED BY <1>1, <2>1, <2>2 DEF PlaceInv, EachMessageOnce
<1>. QED BY <1>1, <1>2, <1>3 DEF PlaceInv

\* Every step keeps every message in its one place.
LEMMA NextPlaceInv == PlaceInv /\ [Next]_vars => PlaceInv'
<1>. SUFFICES ASSUME PlaceInv, [Next]_vars PROVE PlaceInv'
  OBVIOUS
<1>1. ASSUME NEW c \in Callers, Add(c) \/ ForceFlush(c) PROVE PlaceInv'
  BY <1>1, AddPlaced, ForceFlushPlaced
<1>2. CASE IdleFires \/ MaxFires
  <2>1. UNCHANGED <<messages, waiting, flushing, stopped, added, handed,
                    dropped>>
    BY <1>2 DEF IdleFires, MaxFires
  <2>2. callbacks' \in Nat
    <3>1. callbacks \in Nat /\ callbacks' = callbacks + 1
      BY <1>2 DEF IdleFires, MaxFires, PlaceInv, Typed
    <3>. QED BY <3>1
  <2>3. {idleTimer', maxTimer', stopped'} \subseteq BOOLEAN
    <3>1. {idleTimer, maxTimer, stopped} \subseteq BOOLEAN
      BY DEF PlaceInv, Typed
    <3>2. CASE IdleFires
      BY <3>1, <3>2, <2>1, Zenon DEF IdleFires
    <3>3. CASE MaxFires
      BY <3>1, <3>3, <2>1, Zenon DEF MaxFires
    <3>. QED BY <1>2, <3>2, <3>3
  <2>4. Jobs' = Jobs
    BY <2>1 DEF Jobs
  <2>5. Typed'
    <3>. HIDE DEF Jobs
    <3>. QED BY <2>1, <2>2, <2>3, <2>4 DEF PlaceInv, Typed
  <2>6. EachMessageOnce'
    BY <2>1 DEF PlaceInv, EachMessageOnce, InWaiting
  <2>. QED BY <2>1, <2>5, <2>6 DEF PlaceInv
<1>3. CASE TimerFlush
  BY <1>3, TimerFlushPlaced
<1>4. ASSUME NEW job \in waiting, StartFlush(job) PROVE PlaceInv'
  BY <1>4, StartFlushPlaced
<1>5. CASE EndFlush
  <2>1. /\ flushing' = NoJob
        /\ UNCHANGED <<messages, idleTimer, maxTimer, callbacks, waiting,
                       stopped, added, handed, dropped>>
    BY <1>5 DEF EndFlush
  <2>2. /\ NoJob.batch \in Seq(1 .. added) /\ NoJob.by = "nobody"
        /\ "nobody" \notin Callers
    BY BatcherAssumption DEF NoJob
  <2>3. Typed'
    <3>1. \A j \in Jobs' : j \in Jobs \/ j = NoJob
      BY <2>1 DEF Jobs
    <3>. QED BY <2>1, <2>2, <3>1 DEF PlaceInv, Typed
  <2>. QED BY <2>1, <2>3 DEF PlaceInv, EachMessageOnce, InWaiting
<1>6. CASE Stop
  BY <1>6, StopPlaced
<1>7. CASE UNCHANGED vars
  BY <1>7 DEF vars, PlaceInv, Typed, Jobs, EachMessageOnce, InWaiting
<1>. QED BY <1>1, <1>2, <1>3, <1>4, <1>5, <1>6, <1>7 DEF Next

\* A new batcher holds nothing.
LEMMA InitPlaceInv == Init => PlaceInv
<1>. SUFFICES ASSUME Init PROVE PlaceInv
  OBVIOUS
<1>1. /\ messages = << >> /\ handed = << >> /\ waiting = {} /\ dropped = {}
      /\ added = 0 /\ callbacks = 0 /\ flushing = NoJob
      /\ {idleTimer, maxTimer, stopped} \subseteq BOOLEAN
  BY DEF Init
<1>2. NoJob.batch = << >> /\ NoJob.by = "nobody"
  BY DEF NoJob
<1>3. Typed
  <2>1. Jobs = {NoJob} /\ << >> \in Seq(1 .. added) /\ 0 \in 0 .. MaxAdds
    BY <1>1, BatcherAssumption DEF Jobs
  <2>. QED BY <1>1, <1>2, <2>1 DEF Typed
<1>4. EachMessageOnce
  <2>1. ToSet(<< >>) = {} /\ IsInjective(<< >>) /\ InWaiting = {}
        /\ 1 .. 0 = {}
    BY <1>1 DEF ToSet, IsInjective, InWaiting
  <2>. QED BY <1>1, <2>1 DEF EachMessageOnce
<1>. QED BY <1>1, <1>3, <1>4 DEF PlaceInv

\* The invariant holds in every reachable state.
THEOREM PlaceInvariance == Spec => []PlaceInv
BY InitPlaceInv, NextPlaceInv, PTL DEF Spec

\* batcher.go:116-139: no message is lost or handed over twice, whoever
\* drains the buffer and however many batches wait for the flush lock.
THEOREM AlwaysOnce == Spec => []EachMessageOnce
<1>1. PlaceInv => EachMessageOnce
  BY DEF PlaceInv
<1>. QED BY <1>1, PlaceInvariance, PTL

\* batcher.go:30-38,81-83,92-97: the types, room in the buffer for one more,
\* and one flush at a time per caller.
THEOREM TypeCorrect == Spec => []TypeOK
<1>1. PlaceInv /\ BelowCapacity => TypeOK
  <2>. SUFFICES ASSUME PlaceInv, BelowCapacity PROVE TypeOK
    OBVIOUS
  <2>1. ASSUME NEW c \in Callers
        PROVE  Cardinality({job \in waiting \cup {flushing} : job.by = c}) <= 1
    <3>. DEFINE J == {job \in waiting \cup {flushing} : job.by = c}
    <3>1. \A j1, j2 \in J : j1 = j2
      BY DEF PlaceInv, Typed, Jobs
    <3>2. CASE J = {}
      BY <3>2, FS_EmptySet
    <3>3. CASE J # {}
      <4>1. PICK j : j \in J
        BY <3>3
      <4>. HIDE DEF J
      <4>2. J = {j}
        BY <3>1, <4>1
      <4>3. Cardinality(J) = 1
        BY <4>2, FS_Singleton
      <4>. QED BY <4>3 DEF J
    <3>. QED BY <3>2, <3>3
  <2>. QED BY <2>1 DEF PlaceInv, Typed, Jobs, BelowCapacity, TypeOK
<1>. QED BY <1>1, PlaceInvariance, AlwaysBelowCapacity, PTL

-----------------------------------------------------------------------------
(* The order within a batch.                                               *)

\* A list of messages that were added one right after the other.
Consecutive(s) == \A i, j \in 1 .. Len(s) : s[j] - s[i] = j - i

\* The buffer ends with the last message added.
RunInv ==
    /\ Consecutive(messages)
    /\ messages # << >> => messages[Len(messages)] = added
    /\ \A job \in Jobs : Consecutive(job.batch)

\* The next message goes on where the buffer ends.
LEMMA AppendConsecutive ==
    ASSUME NEW s \in Seq(Nat), NEW n \in Nat, Consecutive(s),
           s # << >> => s[Len(s)] = n
    PROVE  /\ Consecutive(Append(s, n + 1))
           /\ Append(s, n + 1)[Len(Append(s, n + 1))] = n + 1
<1>. DEFINE t == Append(s, n + 1)
            k == Len(s)
<1>1. /\ k \in Nat /\ Len(t) = k + 1 /\ t[k + 1] = n + 1
      /\ \A i \in 1 .. k : t[i] = s[i] /\ s[i] \in Nat
  BY AppendProperties
<1>2. \A i \in 1 .. k : s[i] = n - (k - i)
  <2>1. CASE s = << >>
    BY <1>1, <2>1
  <2>2. CASE s # << >>
    <3>1. k \in 1 .. k
      BY <1>1, <2>2, EmptySeq
    <3>2. \A i \in 1 .. k : s[k] - s[i] = k - i /\ s[i] \in Nat /\ s[k] = n
      BY <1>1, <2>2, <3>1 DEF Consecutive
    <3>. HIDE DEF k
    <3>. QED BY <1>1, <3>1, <3>2
  <2>. QED BY <2>1, <2>2
<1>. HIDE DEF t, k
<1>3. \A i \in 1 .. k + 1 : t[i] = n + 1 - (k + 1 - i)
  <2>. SUFFICES ASSUME NEW i \in 1 .. k + 1
                PROVE  t[i] = n + 1 - (k + 1 - i)
    OBVIOUS
  <2>1. CASE i = k + 1
    BY <1>1, <2>1
  <2>2. CASE i # k + 1
    <3>1. i \in 1 .. k
      BY <1>1, <2>2
    <3>. QED BY <1>1, <1>2, <3>1
  <2>. QED BY <2>1, <2>2
<1>4. Consecutive(t)
  <2>. SUFFICES ASSUME NEW i \in 1 .. k + 1, NEW j \in 1 .. k + 1
                PROVE  t[j] - t[i] = j - i
    BY <1>1 DEF Consecutive
  <2>1. t[i] = n + 1 - (k + 1 - i) /\ t[j] = n + 1 - (k + 1 - j)
    BY <1>3
  <2>. QED BY <1>1, <2>1
<1>. QED BY <1>1, <1>4 DEF t

\* Every step keeps the order.
LEMMA NextRun ==
    ASSUME PlaceInv, RunInv, [Next]_vars
    PROVE  RunInv'
<1>1. /\ Consecutive(<< >>)
      /\ Len(<< >>) = 0
  BY DEF Consecutive
<1>2. ASSUME messages' = << >>, NEW b, NEW c, Consecutive(b),
             waiting' = waiting \cup {[batch |-> b, by |-> c]},
             flushing' = flushing
      PROVE  RunInv'
  <2>. DEFINE job == [batch |-> b, by |-> c]
  <2>1. job.batch = b /\ Jobs' = Jobs \cup {job}
    BY <1>2 DEF Jobs
  <2>. HIDE DEF job
  <2>. QED BY <1>1, <1>2, <2>1 DEF RunInv
<1>3. ASSUME NEW c \in Callers, Add(c) PROVE RunInv'
  <2>. DEFINE b == Append(messages, added')
  <2>1. /\ added' = added + 1 /\ added \in Nat /\ messages \in Seq(Nat)
        /\ flushing' = flushing
    <3>1. messages \in Seq(1 .. added) /\ added \in Nat
      BY DEF PlaceInv, Typed
    <3>2. \A i \in 1 .. Len(messages) : messages[i] \in Nat
      BY <3>1
    <3>. QED BY <1>3, <3>1, <3>2 DEF Add
  <2>2. Consecutive(b) /\ b[Len(b)] = added'
    BY <2>1, AppendConsecutive DEF RunInv
  <2>. HIDE DEF b
  <2>3. CASE Full
    <3>1. messages' = << >>
          /\ waiting' = waiting \cup {[batch |-> b, by |-> c]}
      BY <1>3, <2>3 DEF Add, Drain, Queued, b
    <3>. QED BY <1>2, <2>1, <2>2, <3>1
  <2>4. CASE ~ Full
    <3>1. messages' = b /\ waiting' = waiting
      BY <1>3, <2>4 DEF Add, b
    <3>2. Jobs' = Jobs
      BY <2>1, <3>1 DEF Jobs
    <3>. QED BY <2>2, <3>1, <3>2 DEF RunInv
  <2>. QED BY <2>3, <2>4
<1>4. ASSUME NEW c \in Callers, ForceFlush(c) PROVE RunInv'
  <2>1. /\ messages' = << >> /\ flushing' = flushing
        /\ waiting' = waiting \cup {[batch |-> messages, by |-> c]}
    BY <1>4 DEF ForceFlush, Drain, Queued
  <2>. QED BY <1>2, <2>1 DEF RunInv
<1>5. ASSUME UNCHANGED <<messages, added>>, Jobs' \subseteq Jobs \cup {NoJob}
      PROVE  RunInv'
  <2>1. NoJob.batch = << >>
    BY DEF NoJob
  <2>. QED BY <1>1, <1>5, <2>1 DEF RunInv
<1>6. CASE TimerFlush
  <2>1. CASE messages = << >>
    BY <1>5, <1>6, <2>1 DEF TimerFlush, Jobs
  <2>2. CASE messages # << >>
    <3>1. /\ messages' = << >> /\ flushing' = flushing
          /\ waiting' = waiting \cup {[batch |-> messages, by |-> "timer"]}
      BY <1>6, <2>2 DEF TimerFlush, Drain, Queued
    <3>. QED BY <1>2, <3>1 DEF RunInv
  <2>. QED BY <2>1, <2>2
<1>7. CASE IdleFires \/ MaxFires
  BY <1>5, <1>7 DEF IdleFires, MaxFires, Jobs
<1>8. ASSUME NEW job \in waiting, StartFlush(job) PROVE RunInv'
  BY <1>5, <1>8 DEF StartFlush, Jobs
<1>9. CASE EndFlush
  BY <1>5, <1>9 DEF EndFlush, Jobs
<1>10. CASE Stop
  <2>1. messages' = << >> /\ Jobs' = Jobs
    BY <1>10 DEF Stop, Drain, Jobs
  <2>. QED BY <1>1, <2>1 DEF RunInv
<1>11. CASE UNCHANGED vars
  BY <1>5, <1>11 DEF vars, Jobs
<1>. QED
  BY <1>3, <1>4, <1>6, <1>7, <1>8, <1>9, <1>10, <1>11 DEF Next

\* batcher.go:60-88,116-130: whoever drains the buffer and however batches
\* overtake one another, a batch is a run of messages that were added one right
\* after the other, so the last of it, which the orchestrator answers, is its
\* newest.
THEOREM BatchesAreRuns ==
    Spec => [](\A job \in waiting \cup {flushing} : Consecutive(job.batch))
<1>1. Init => RunInv
  <2>. SUFFICES ASSUME Init PROVE RunInv
    OBVIOUS
  <2>1. messages = << >> /\ Jobs = {NoJob} /\ NoJob.batch = << >>
    BY DEF Init, Jobs, NoJob
  <2>2. Consecutive(<< >>)
    BY DEF Consecutive
  <2>. QED BY <2>1, <2>2 DEF RunInv
<1>2. PlaceInv /\ RunInv /\ [Next]_vars => RunInv'
  BY NextRun
<1>3. RunInv => \A job \in waiting \cup {flushing} : Consecutive(job.batch)
  BY DEF RunInv, Jobs
<1>. QED BY <1>1, <1>2, <1>3, PlaceInvariance, PTL DEF Spec
=============================================================================
