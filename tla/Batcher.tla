-------------------------------- MODULE Batcher --------------------------------
(***************************************************************************)
(* internal/ai/batcher.go: chat messages are collected and handed to the   *)
(* orchestrator in batches, when the chat goes quiet, when the oldest has  *)
(* waited long enough, when the buffer is full, or on demand.              *)
(*                                                                         *)
(* Two locks: b.mu around the buffer and the timers, b.flushMu around the  *)
(* call of onFlush.  A batch leaves the first before it asks for the       *)
(* second.  The callers are the relay of a room's messages and the web     *)
(* socket handlers; they flush in their own goroutine and wait.  A timer   *)
(* that fires runs in a goroutine of its own, which Timer.Stop does not    *)
(* call back.  There is no clock: an armed timer may fire at any moment.   *)
(***************************************************************************)
EXTENDS Integers, SequencesExt

CONSTANTS Callers,  \* goroutines that call Add and ForceFlush
          Capacity, \* capacityTrigger, 15
          MaxAdds   \* bound: messages added in a behaviour

ASSUME BatcherAssumption ==
    /\ {"timer", "nobody"} \cap Callers = {}
    /\ Capacity \in Nat \ {0}
    /\ MaxAdds \in Nat

VARIABLES
    messages,  \* the buffer; messages are numbered as they are added
    idleTimer, \* the idle timer is armed
    maxTimer,  \* the max timer is armed
    callbacks, \* timers that fired and wait for b.mu
    waiting,   \* batches that left the buffer and wait for flushMu
    flushing,  \* the batch inside onFlush
    stopped,
    added,     \* history: how many messages were added
    handed,    \* history: the messages handed to onFlush, in that order
    dropped    \* history: the messages Stop threw away

vars == <<messages, idleTimer, maxTimer, callbacks, waiting, flushing, stopped,
          added, handed, dropped>>

NoJob == [batch |-> << >>, by |-> "nobody"]

Init ==
    /\ messages = << >>
    /\ idleTimer = FALSE /\ maxTimer = FALSE
    /\ callbacks = 0
    /\ waiting = {} /\ flushing = NoJob
    /\ stopped = FALSE
    /\ added = 0 /\ handed = << >> /\ dropped = {}

\* Mutant: the batch is flushed in a goroutine of its own.
FreeAlways(c) == TRUE

\* The caller is not inside invokeFlush.
Free(c) == \A job \in waiting \cup {flushing} : job.by # c

\* Mutant: the batch is given up when a flush is running.
QueuedIfIdle(batch, by) ==
    IF flushing = NoJob THEN waiting \cup {[batch |-> batch, by |-> by]}
    ELSE waiting

\* invokeFlush: the batch waits for flushMu.
Queued(batch, by) == waiting \cup {[batch |-> batch, by |-> by]}

\* Mutant: the buffer is copied and not cleared.
DrainKeeps ==
    /\ idleTimer' = FALSE /\ maxTimer' = FALSE
    /\ messages' = messages

\* drain: both timers off, the buffer copied and cleared.
Drain ==
    /\ idleTimer' = FALSE /\ maxTimer' = FALSE
    /\ messages' = << >>

\* The message that is being added fills the buffer.
Full == Len(messages) + 1 >= Capacity

\* Mutant: whether the message is the first is asked after the append.
FirstLate == FALSE

First == messages = << >>

\* Add: the idle timer starts over, the max timer starts with the first
\* message of a batch, a full buffer is drained.  A stopped batcher ignores it.
Add(c) ==
    /\ Free(c) /\ ~ stopped /\ added < MaxAdds
    /\ added' = added + 1
    /\ IF Full
       THEN /\ Drain
            /\ waiting' = Queued(Append(messages, added'), c)
       ELSE /\ messages' = Append(messages, added')
            /\ idleTimer' = TRUE
            /\ maxTimer' = (maxTimer \/ First)
            /\ UNCHANGED waiting
    /\ UNCHANGED <<callbacks, flushing, stopped, handed, dropped>>

\* ForceFlush: also with an empty buffer, and also when stopped.
ForceFlush(c) ==
    /\ Free(c)
    /\ Drain
    /\ waiting' = Queued(messages, c)
    /\ UNCHANGED <<callbacks, flushing, stopped, added, handed, dropped>>

IdleFires ==
    /\ idleTimer
    /\ idleTimer' = FALSE
    /\ callbacks' = callbacks + 1
    /\ UNCHANGED <<messages, maxTimer, waiting, flushing, stopped, added, handed,
                   dropped>>

MaxFires ==
    /\ maxTimer
    /\ maxTimer' = FALSE
    /\ callbacks' = callbacks + 1
    /\ UNCHANGED <<messages, idleTimer, waiting, flushing, stopped, added,
                   handed, dropped>>

\* timerFlush: whatever is in the buffer by then, nothing if it is empty.
TimerFlush ==
    /\ callbacks > 0
    /\ callbacks' = callbacks - 1
    /\ IF messages = << >>
       THEN UNCHANGED <<messages, idleTimer, maxTimer, waiting>>
       ELSE /\ Drain
            /\ waiting' = Queued(messages, "timer")
    /\ UNCHANGED <<flushing, stopped, added, handed, dropped>>

\* invokeFlush: flushMu is taken, by any of those that wait for it...
StartFlush(job) ==
    /\ job \in waiting
    /\ flushing = NoJob
    /\ flushing' = job
    /\ waiting' = waiting \ {job}
    /\ handed' = handed \o job.batch
    /\ UNCHANGED <<messages, idleTimer, maxTimer, callbacks, stopped, added,
                   dropped>>

\* ...and released when onFlush returns.
EndFlush ==
    /\ flushing # NoJob
    /\ flushing' = NoJob
    /\ UNCHANGED <<messages, idleTimer, maxTimer, callbacks, waiting, stopped,
                   added, handed, dropped>>

\* Stop, from the goroutine that resets the room.
Stop ==
    /\ ~ stopped
    /\ stopped' = TRUE
    /\ Drain
    /\ dropped' = ToSet(messages)
    /\ UNCHANGED <<callbacks, waiting, flushing, added, handed>>

Next ==
    \/ \E c \in Callers : Add(c) \/ ForceFlush(c)
    \/ IdleFires \/ MaxFires \/ TimerFlush
    \/ \E job \in waiting : StartFlush(job)
    \/ EndFlush
    \/ Stop

Spec == Init /\ [][Next]_vars

\* An armed timer fires, its goroutine gets b.mu, onFlush returns (the model
\* server's client has a timeout), and flushMu starves nobody: a Go mutex hands
\* itself to a waiter that waited a millisecond.  Callers and Stop are free.
FairSpec ==
    /\ Spec
    /\ WF_vars(IdleFires) /\ WF_vars(MaxFires) /\ WF_vars(TimerFlush)
    /\ WF_vars(EndFlush)
    /\ \A n \in 1 .. MaxAdds :
          SF_vars(\E job \in waiting :
                     n \in ToSet(job.batch) /\ StartFlush(job))

-----------------------------------------------------------------------------
\* batcher.go:30-38,81-83,92-97: the fields keep their types, a full buffer is
\* never left behind and a caller waits for one flush at a time.
TypeOK ==
    /\ added \in 0 .. MaxAdds
    /\ messages \in Seq(1 .. added) /\ handed \in Seq(1 .. added)
    /\ Len(messages) < Capacity
    /\ {idleTimer, maxTimer, stopped} \subseteq BOOLEAN
    /\ callbacks \in Nat
    /\ \A job \in waiting \cup {flushing} :
          /\ job.batch \in Seq(1 .. added)
          /\ job.by \in Callers \cup {"timer", "nobody"}
    /\ \A c \in Callers :
          Cardinality({job \in waiting \cup {flushing} : job.by = c}) <= 1

InWaiting == UNION {ToSet(job.batch) : job \in waiting}

\* batcher.go:116-130: a message that was added is in exactly one place: in the
\* buffer, in one batch, handed over, or thrown away by Stop; once in each.
EachMessageOnce ==
    /\ ToSet(messages) \cup InWaiting \cup ToSet(handed) \cup dropped
          = 1 .. added
    /\ ToSet(messages) \cap InWaiting = {}
    /\ (ToSet(messages) \cup InWaiting) \cap (ToSet(handed) \cup dropped) = {}
    /\ ToSet(handed) \cap dropped = {}
    /\ IsInjective(messages) /\ IsInjective(handed)
    /\ \A j1, j2 \in waiting :
          /\ IsInjective(j1.batch)
          /\ j1 # j2 => ToSet(j1.batch) \cap ToSet(j2.batch) = {}

\* batcher.go:68-78: while something is buffered each of the two timers is armed
\* or a timer that fired will still drain the buffer.
NoneStranded ==
    messages # << >> =>
       (idleTimer \/ callbacks > 0) /\ (maxTimer \/ callbacks > 0)

\* batcher.go:26-29: every message is handed to the orchestrator in the end,
\* unless the batcher is stopped while the message is in the buffer.
AllHandled ==
    \A n \in 1 .. MaxAdds :
       n <= added ~> n \in ToSet(handed) \cup dropped

\* batcher.go:44: "Stop cancels all pending timers and prevents further
\* flushes."
NoFlushAfterStop == [][stopped => flushing' \in {flushing, NoJob}]_vars
=============================================================================
