------------------------------- MODULE MemoryAbs -------------------------------
(***************************************************************************)
(* What a persona's memory promises: a list of facts, the oldest dropped   *)
(* when there are more than the limit, that no restart of the program      *)
(* changes.  MemoryStore implements this specification.                    *)
(***************************************************************************)
EXTENDS Integers, Sequences

CONSTANTS Facts, Limits

VARIABLE known

\* The last n elements of s.
Latest(s, n) == IF Len(s) > n THEN SubSeq(s, Len(s) - n + 1, Len(s)) ELSE s

Without(s, i) == SubSeq(s, 1, i - 1) \o SubSeq(s, i + 1, Len(s))

Remember(fact, limit) == known' = Latest(Append(known, fact), limit)

Forget(i) == known' = Without(known, i)

Init == known = << >>

Next ==
    \/ \E fact \in Facts, limit \in Limits : Remember(fact, limit)
    \/ \E i \in DOMAIN known : Forget(i)

Spec == Init /\ [][Next]_known
=============================================================================
