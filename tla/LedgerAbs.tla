------------------------------- MODULE LedgerAbs -------------------------------
(***************************************************************************)
(* What a ledger promises, with no list, no eviction and no counters: the  *)
(* messages it ever accepted form, for each sender, a chain of strictly    *)
(* growing sender clocks in which no two different messages name the same  *)
(* predecessor.  Ledger implements this specification.                     *)
(***************************************************************************)
EXTENDS LedgerOps

CONSTANT Messages

VARIABLE accepted

\* Later than everything accepted from the same sender.
Fresh(m) ==
    \A x \in accepted :
       x.sender = m.sender => x.vc[x.sender] < m.vc[m.sender]

\* No other message of the sender names the same predecessor.
Unforked(m) ==
    m.prevHash # NoHash =>
       \A x \in accepted :
          x.sender = m.sender /\ x.prevHash = m.prevHash => x.id = m.id

Accept(m) ==
    /\ Fresh(m)
    /\ Unforked(m)
    /\ accepted' = accepted \cup {m}

Init == accepted = {}

Next == \E m \in Messages : Accept(m)

Spec == Init /\ [][Next]_accepted
=============================================================================
