------------------------------ MODULE MemoryStore ------------------------------
(***************************************************************************)
(* internal/ai/memory.go: the facts a persona remembers, in memory and in  *)
(* one file that every change rewrites whole.  A store is opened by the    *)
(* setup of a room.  Two stores on one file are two programs on a machine  *)
(* whose personas have the same name, or one program whose last room still *)
(* has a memory extraction running.                                        *)
(*                                                                         *)
(* A store's mutex is held through its save, which truncates the file and  *)
(* then writes it; nothing guards the file against another store.          *)
(***************************************************************************)
EXTENDS Integers, FiniteSets, SequencesExt

CONSTANTS Stores,
          Limits,      \* the memory limits a setup may ask for
          CrashInSave, \* fault model: the program may end inside a save
          MaxFacts     \* bound: facts stored in a behaviour

ASSUME MemoryAssumption ==
    /\ Limits \subseteq Nat \ {0}
    /\ CrashInSave \in BOOLEAN
    /\ MaxFacts \in Nat

VARIABLES
    memories, \* per store; facts are numbered as they are stored
    limit,    \* per store, maxItems
    open,     \* the stores in use
    saving,   \* the stores between truncating the file and writing it
    file,     \* its facts, or not whole
    made,     \* how many facts were stored
    kept      \* history: facts whose Add returned, less those a limit or a user
              \* removed since

vars == <<memories, limit, open, saving, file, made, kept>>

Init ==
    /\ memories = [s \in Stores |-> << >>]
    /\ limit = [s \in Stores |-> 0]
    /\ open = {} /\ saving = {}
    /\ file = [whole |-> TRUE, facts |-> << >>]
    /\ made = 0 /\ kept = {}

Latest(s, n) == IF Len(s) > n THEN SubSeq(s, Len(s) - n + 1, Len(s)) ELSE s

\* Mutant: a room starts with an empty memory.
LoadedNothing == << >>

\* load: an error is ignored, and a file that is not JSON is no memories.
Loaded == IF file.whole THEN file.facts ELSE << >>

\* NewMemoryStore: the limit does not apply to what was loaded until an Add.
Open(s, n) ==
    /\ s \notin open
    /\ open' = open \cup {s}
    /\ limit' = [limit EXCEPT ![s] = n]
    /\ memories' = [memories EXCEPT ![s] = Loaded]
    /\ UNCHANGED <<saving, file, made, kept>>

\* The memories change and os.WriteFile truncates the file.
StartSave(s, facts) ==
    /\ memories' = [memories EXCEPT ![s] = facts]
    /\ saving' = saving \cup {s}
    /\ file' = [whole |-> FALSE, facts |-> << >>]

\* Mutant: the newest fact comes first.
NewestFirst(s, n) == Reverse(Latest(s, n))

\* Mutant: the new fact makes room for the old ones.
KeptOldest(s, n) == SubSeq(s, 1, IF Len(s) > n THEN n ELSE Len(s))

Trimmed(s, n) == Latest(s, n)

Add(s) ==
    /\ s \in open \ saving /\ made < MaxFacts
    /\ made' = made + 1
    /\ StartSave(s, Trimmed(Append(memories[s], made'), limit[s]))
    /\ UNCHANGED <<limit, open, kept>>

\* The web page names a fact it was shown; an id not in the list changes nothing.
Delete(s, i) ==
    /\ s \in open \ saving /\ i \in DOMAIN memories[s]
    /\ StartSave(s, RemoveAt(memories[s], i))
    /\ kept' = kept \ {memories[s][i]}
    /\ UNCHANGED <<limit, open, made>>

\* What a write leaves in the file: its facts, followed by the rest of a longer
\* list that another store wrote since the truncation.
Written(s) ==
    [whole |-> ~ (file.whole /\ Len(file.facts) > Len(memories[s])),
     facts |-> memories[s]]

\* The data is written and the call returns.
Write(s) ==
    LET evicted == {f \in kept : /\ f \notin ToSet(memories[s])
                                 /\ Len(memories[s]) = limit[s]
                                 /\ \A g \in ToSet(memories[s]) : f < g}
    IN
    /\ s \in saving
    /\ saving' = saving \ {s}
    /\ file' = Written(s)
    /\ kept' = (kept \ evicted) \cup ToSet(memories[s])
    /\ UNCHANGED <<memories, limit, open, made>>

\* The room is left or the program ends, perhaps inside a save.
Close(s) ==
    /\ s \in open
    /\ s \in saving => CrashInSave
    /\ open' = open \ {s} /\ saving' = saving \ {s}
    /\ memories' = [memories EXCEPT ![s] = << >>]
    /\ UNCHANGED <<limit, file, made, kept>>

Next ==
    \E s \in Stores :
       \/ \E n \in Limits : Open(s, n)
       \/ Add(s)
       \/ \E i \in DOMAIN memories[s] : Delete(s, i)
       \/ Write(s) \/ Close(s)

Spec == Init /\ [][Next]_vars

-----------------------------------------------------------------------------
\* memory.go:22-28: facts are numbers that were given out, in the order of
\* their making.
TypeOK ==
    /\ saving \subseteq open /\ open \subseteq Stores
    /\ \A s \in Stores :
          /\ memories[s] \in Seq(1 .. made)
          /\ \A i, j \in DOMAIN memories[s] : i < j => memories[s][i] < memories[s][j]
    /\ kept \subseteq 1 .. made

\* memory.go:22: "MemoryStore persists AI memories": a fact whose Add returned
\* is in the file until a user deletes it or newer ones take its place.
NothingForgotten == saving = {} => kept \subseteq ToSet(file.facts)

\* What a reader of the file would know: the open store's memories, or the file.
Known ==
    IF open = {} THEN file.facts ELSE memories[CHOOSE s \in open : TRUE]

Abs == INSTANCE MemoryAbs WITH known <- Known, Facts <- 1 .. MaxFacts

\* One store on its file, restarted at will, is a list that outlives restarts.
ImplementsAbs == Abs!Spec
=============================================================================
