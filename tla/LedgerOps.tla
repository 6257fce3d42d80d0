------------------------------- MODULE LedgerOps -------------------------------
(***************************************************************************)
(* internal/chat/ledger.go: the methods of the message ledger, as          *)
(* operators on a ledger record.  Every Go method holds the ledger's lock  *)
(* from its first to its last line, so each of them is one atomic step of  *)
(* the modules that keep a ledger (Ledger, Room).                          *)
(*                                                                         *)
(* A message is what the ledger tells apart: id, sender, vector clock and  *)
(* the hash of the sender's previous message.  Names, content, mentions    *)
(* and signature are left out; the comparison only reads name and content  *)
(* of two messages with the same id, which a ledger never holds.  A nil    *)
(* message and an empty id (ledger.go:63) are left out as well:            *)
(* validate.go:123 drops them before a ledger sees them.                   *)
(***************************************************************************)
EXTENDS LogicalClock, SequencesExt

CONSTANT MaxMessages

ASSUME MaxMessagesAssumption == MaxMessages \in Nat \ {0}

\* The empty string: a PrevHash of NoHash is "no previous message".
NoHash == 0

\* The empty reason of an accepted message, and the initial lastReject.
NoReason == "none"

\* What lastReject may hold; "rejected" stands for the validator's reasons.
Reasons == {NoReason, "clock_regression", "equivocation_fork", "rejected"}

\* The sync statuses the relays set; "repaired" for "repaired n".
Statuses == {"idle", "requesting", "repairing", "repaired"}

Message == [id : Nat, sender : Peers, vc : VectorClocks, prevHash : Nat]

LedgerRecord ==
    [ids : SUBSET Nat, messages : Seq(Message), senderClock : VectorClocks,
     prevHashBySender : SUBSET (Peers \X Nat \X Nat),
     verified : Nat, rejected : Nat, repaired : Nat, duplicate : Nat,
     equivocation : Nat, clockBack : Nat,
     lastReject : Reasons, syncStatus : Statuses]

NewLedger ==
    [ids          |-> {},
     messages     |-> << >>,
     senderClock  |-> New,
     \* The map from sender|prevHash to an id, as the set of its entries.
     prevHashBySender |-> {},
     verified     |-> 0,
     rejected     |-> 0,
     repaired     |-> 0,
     duplicate    |-> 0,
     equivocation |-> 0,
     clockBack    |-> 0,
     lastReject   |-> NoReason,
     syncStatus   |-> "idle"]

-----------------------------------------------------------------------------
(* The order of the ledger.                                                *)

\* Mutant: the order forgets the clocks.
LessByName(a, b) ==
    \/ a.sender < b.sender
    \/ a.sender = b.sender /\ a.id < b.id

\* CompareMessages(a, b) < 0.
Less(a, b) ==
    \/ Compare(a.vc, b.vc) = "before"
    \/ /\ Compare(a.vc, b.vc) \in {"equal", "concurrent"}
       /\ \/ a.sender < b.sender
          \/ a.sender = b.sender /\ a.id < b.id

\* Mutants: the list is not sorted after the append; the message is put first.
InsertPositionLast(s, m) == Len(s)
InsertPositionFirst(s, m) == 0

\* sort.SliceStable on a list whose only unsorted element is the appended
\* one: an insertion sort (Go's for up to 20 elements) moves m forward past
\* every message it is less than, and stops behind the first it is not.
InsertPosition(s, m) == SelectLastInSeq(s, LAMBDA x : ~Less(m, x))

Sorted(s, m) == InsertAt(s, InsertPosition(s, m) + 1, m)

\* The oldest messages go when the list is longer than its maximum.
Trim(s) ==
    IF Len(s) > MaxMessages
    THEN SubSeq(s, Len(s) - MaxMessages + 1, Len(s))
    ELSE s

\* Mutant: eviction leaves the id set alone.
EvictedNone(s) == {}

Evicted(s) == {s[i].id : i \in 1 .. (Len(s) - MaxMessages)}

-----------------------------------------------------------------------------
(* AddWithReason.                                                          *)

Duplicate(l, m) == m.id \in l.ids

\* Mutants: an equal clock passes; the guard is missing.
RegressionStrict(l, m) == m.vc[m.sender] < l.senderClock[m.sender]
RegressionNever(l, m) == FALSE

Regression(l, m) ==
    m.vc[m.sender] > 0 /\ m.vc[m.sender] <= l.senderClock[m.sender]

\* Mutant: no predecessor index.
ForkNever(l, m) == FALSE

Fork(l, m) ==
    /\ m.prevHash # NoHash
    /\ \E e \in l.prevHashBySender :
          e[1] = m.sender /\ e[2] = m.prevHash /\ e[3] # m.id

\* The reason AddWithReason(m) returns, NoReason when it accepts m.
AddReason(l, m) ==
    IF Duplicate(l, m) THEN "duplicate_message"
    ELSE IF Regression(l, m) THEN "clock_regression"
    ELSE IF Fork(l, m) THEN "equivocation_fork"
    ELSE NoReason

Accepted(l, m) ==
    LET s == Sorted(l.messages, m) IN
    [l EXCEPT
       !.ids = (@ \cup {m.id}) \ Evicted(s),
       !.prevHashBySender =
           IF m.prevHash = NoHash THEN @
           ELSE @ \cup {<<m.sender, m.prevHash, m.id>>},
       !.senderClock[m.sender] =
           IF m.vc[m.sender] > @ THEN m.vc[m.sender] ELSE @,
       !.messages = Trim(s),
       !.verified = @ + 1]

\* Mutant: a fork is reported but falls through to the insertion.
AddForkToo(l, m) ==
    IF AddReason(l, m) \in {NoReason, "equivocation_fork"}
    THEN Accepted(l, m) ELSE l

\* The ledger after AddWithReason(m).
AddWithReason(l, m) ==
    CASE AddReason(l, m) = "duplicate_message" ->
           [l EXCEPT !.duplicate = @ + 1]
      [] AddReason(l, m) = "clock_regression" ->
           [l EXCEPT !.clockBack = @ + 1, !.lastReject = "clock_regression"]
      [] AddReason(l, m) = "equivocation_fork" ->
           [l EXCEPT !.equivocation = @ + 1, !.lastReject = "equivocation_fork"]
      [] OTHER -> Accepted(l, m)

-----------------------------------------------------------------------------
(* The other methods.                                                      *)

IDs(l) == l.ids

\* Mutant: the newest message first.
RecentReversed(l, limit) == Reverse(l.messages)

Recent(l, limit) ==
    IF limit <= 0 \/ limit > Len(l.messages)
    THEN l.messages
    ELSE SubSeq(l.messages, Len(l.messages) - limit + 1, Len(l.messages))

\* The elements of s, in order, that are not among the known ids.
Unknown(s, known) ==
    LET Kept[i \in 0 .. Len(s)] ==
           IF i = 0 THEN << >>
           ELSE IF s[i].id \in known THEN Kept[i - 1]
           ELSE Append(Kept[i - 1], s[i])
    IN  Kept[Len(s)]

\* The messages a peer that knows `known` lacks, out of the most recent ones.
MissingFrom(l, known, limit) == Unknown(Recent(l, limit), known)

MarkRejectedReason(l, reason) ==
    [l EXCEPT !.rejected = @ + 1, !.lastReject = reason]

AddRepaired(l, n) == IF n <= 0 THEN l ELSE [l EXCEPT !.repaired = @ + n]

SetSyncStatus(l, status) == [l EXCEPT !.syncStatus = status]
=============================================================================
