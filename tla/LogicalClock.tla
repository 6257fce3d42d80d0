----------------------------- MODULE LogicalClock -----------------------------
(***************************************************************************)
(* internal/clock/vector.go: the vector clocks every chat message carries. *)
(* The Go value is a mutex-protected map from a peer id to a counter; a    *)
(* key that is absent reads 0, so the map is a function of all the peers.  *)
(* Peers are numbers: their order stands for strings.Compare on peer ids.  *)
(***************************************************************************)
EXTENDS Integers

CONSTANT Peers

ASSUME PeersAssumption == Peers \subseteq Nat

VectorClocks == [Peers -> Nat]

New == [p \in Peers |-> 0]

Increment(vc, p) == [vc EXCEPT ![p] = @ + 1]

\* Mutant: the received clock replaces the local one.
MergeOverwrites(vc, remote) == remote

\* Element-wise maximum of the local clock and a received one.
Merge(vc, remote) ==
    [p \in Peers |-> IF remote[p] > vc[p] THEN remote[p] ELSE vc[p]]

Behind(a, b) == \E p \in Peers : a[p] < b[p]

Compare(a, b) ==
    CASE Behind(a, b) /\ ~Behind(b, a)  -> "before"
      [] Behind(b, a) /\ ~Behind(a, b)  -> "after"
      [] ~Behind(a, b) /\ ~Behind(b, a) -> "equal"
      [] Behind(a, b) /\ Behind(b, a)   -> "concurrent"

\* Not code: the order Merge is the least upper bound of.
Leq(a, b) == \A p \in Peers : a[p] <= b[p]
=============================================================================
