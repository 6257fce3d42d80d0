-------------------------------- MODULE RoomAbs --------------------------------
(***************************************************************************)
(* What a room promises its peers, with no topic, no ledgers, no relays    *)
(* and no sync: every peer writes one chain of messages, and a peer hears  *)
(* of each sender some of what it wrote, each message at most once and in  *)
(* the order of the chain.  What was skipped is not heard later.  Room     *)
(* implements this specification.                                          *)
(***************************************************************************)
EXTENDS LedgerOps

CONSTANT Messages

VARIABLES written, \* every message signed
          heard    \* heard[n]: what peer n shows or is about to

\* What m's sender counted of its own messages when it wrote m.
Count(m) == m.vc[m.sender]

WrittenBy(p) == {x \in written : x.sender = p}

\* m names the last message of its sender and counts one more.
Extends(m) ==
    \/ /\ WrittenBy(m.sender) = {}
       /\ Count(m) = 1 /\ m.prevHash = NoHash
    \/ \E last \in WrittenBy(m.sender) :
          /\ \A x \in WrittenBy(m.sender) : Count(x) <= Count(last)
          /\ Count(m) = Count(last) + 1 /\ m.prevHash = last.id

\* m knows what was known to the writer of each message it counts.
Causal(m) ==
    \A x \in written : Count(x) <= m.vc[x.sender] => Leq(x.vc, m.vc)

Write(m) ==
    /\ written' = written \cup {m}
    /\ Extends(m)
    /\ Causal(m)
    /\ UNCHANGED heard

Hear(n, m) ==
    /\ \A x \in heard[n] : x.sender = m.sender => Count(x) < Count(m)
    /\ heard' = [heard EXCEPT ![n] = @ \cup {m}]
    /\ UNCHANGED written

Init ==
    /\ written = {}
    /\ heard = [n \in Peers |-> {}]

Next ==
    \/ \E m \in Messages : Write(m)
    \/ \E n \in Peers : \E m \in written : Hear(n, m)

Spec == Init /\ [][Next]_<<written, heard>>
=============================================================================
