-------------------------------- MODULE Ledger --------------------------------
(***************************************************************************)
(* One ledger fed any sequence of AddWithReason calls: the messages arrive *)
(* from the local send path, from the live topic and inside sync           *)
(* responses, in any order and any number of times, so that every call     *)
(* sequence over Messages is a behaviour.  `accepted` is a history         *)
(* variable: every message the ledger ever accepted, the evicted too.      *)
(*                                                                         *)
(* A message whose clock does not count its own sender never gets this far *)
(* (validate.go:135 refuses it), which is the assumption on Messages.      *)
(***************************************************************************)
EXTENDS LedgerOps

CONSTANTS Messages, \* the messages the environment may offer
          MaxCalls  \* bound: AddWithReason calls in a behaviour

ASSUME MessagesAssumption ==
    /\ Messages \subseteq Message
    /\ \A m \in Messages : m.vc[m.sender] > 0

VARIABLES ledger, accepted

vars == <<ledger, accepted>>

Calls ==
    ledger.verified + ledger.duplicate + ledger.clockBack + ledger.equivocation

Init == ledger = NewLedger /\ accepted = {}

Add(m) ==
    /\ Calls < MaxCalls
    /\ ledger' = AddWithReason(ledger, m)
    /\ accepted' =
         IF AddReason(ledger, m) = NoReason THEN accepted \cup {m} ELSE accepted

Next == \E m \in Messages : Add(m)

Spec == Init /\ [][Next]_vars

-----------------------------------------------------------------------------
Indices == DOMAIN ledger.messages

\* The ledger is a record of the ledger's shape; it lists accepted messages.
TypeOK ==
    /\ ledger \in LedgerRecord
    /\ accepted \subseteq Messages
    /\ ledger.messages \in Seq(accepted)

\* ledger.go:89-105: the id set is the id set of the list, whatever was
\* evicted; the list names no id twice and stays within its maximum.
IdsMatchList ==
    /\ ledger.ids = {ledger.messages[i].id : i \in Indices}
    /\ \A i, j \in Indices :
          ledger.messages[i].id = ledger.messages[j].id => i = j
    /\ Len(ledger.messages) <= MaxMessages

\* ledger.go:98: although the order is not transitive, no neighbours of the
\* list are out of order, so that sorting it once more changes nothing.
SortIsFixpoint ==
    \A i \in Indices :
       i + 1 \in Indices =>
          ~ Less(ledger.messages[i + 1], ledger.messages[i])

\* ledger.go:71-87: what AddWithReason accepts depends on everything ever
\* accepted and on nothing else but the listed ids: the clock guard and the
\* predecessor index forget nothing when a message is evicted.
Abs == INSTANCE LedgerAbs WITH accepted <- accepted

AcceptanceExact ==
    \A m \in Messages :
       AddReason(ledger, m) = NoReason
          <=> m.id \notin ledger.ids /\ Abs!Fresh(m) /\ Abs!Unforked(m)

\* Why AcceptanceExact holds: the clock map holds each sender's greatest
\* accepted clock, the index one entry per accepted message that names a
\* predecessor.  The proofs strengthen the invariants with it.
GuardsRemember ==
    /\ \A p \in Peers :
          /\ \A x \in accepted :
                x.sender = p => x.vc[p] <= ledger.senderClock[p]
          /\ \/ ledger.senderClock[p] = 0
             \/ \E x \in accepted :
                   x.sender = p /\ x.vc[p] = ledger.senderClock[p]
    /\ ledger.prevHashBySender =
          {<<x.sender, x.prevHash, x.id>> :
              x \in {y \in accepted : y.prevHash # NoHash}}

\* ledger.go:107: each message is accepted at most once, even when it is
\* offered again after its id was evicted from the id set.
VerifiedOnce == ledger.verified = Cardinality(accepted)

\* ledger.go:231-257: two listed messages of one sender are shown in their
\* causal order whenever their clocks are ordered at all.
SenderCausal ==
    \A i, j \in Indices :
       /\ ledger.messages[i].sender = ledger.messages[j].sender
       /\ Compare(ledger.messages[i].vc, ledger.messages[j].vc) = "before"
       => i < j

\* ledger.go:97-98: a message that is accepted after its causes is listed
\* after every one of them that is still listed.
EffectAfterCauses ==
    [][\A i, j \in DOMAIN ledger'.messages :
          /\ ledger'.messages[j] \notin accepted
          /\ Compare(ledger'.messages[i].vc, ledger'.messages[j].vc) = "before"
          => i < j]_vars

\* The ledger implements the chain of accepted messages it promises.
ImplementsAbs == Abs!Spec
=============================================================================
