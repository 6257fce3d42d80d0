------------------------------- MODULE TrustOps -------------------------------
(***************************************************************************)
(* internal/p2p/trust.go: what one node remembers of the peers that        *)
(* forward packets to it.  Each operator is one critical section of the    *)
(* tracker's mutex.                                                        *)
(*                                                                         *)
(* Time is counted in ticks and tokens in the amount a tick refills, so    *)
(* that a packet costs Cost and a bucket holds Burst: 8 packets a second   *)
(* and a burst of 12 are Cost = 1, Burst = 12 at eight ticks a second.     *)
(***************************************************************************)
EXTENDS Integers

CONSTANTS Peers,
          Threshold, \* QuarantineThreshold, 3
          Burst,     \* RateLimitBurst
          Cost       \* the price of one packet

ASSUME TrustAssumption ==
    /\ Threshold \in Nat \ {0}
    /\ Burst \in Nat /\ Cost \in Nat \ {0}
    /\ Cost <= Burst

NoTime == -1

Bucket == [tokens : Int, last : Int]

NewTrust ==
    [invalid     |-> [p \in Peers |-> 0],
     quarantine  |-> {},
     rates       |-> [p \in Peers |-> [tokens |-> Burst, last |-> NoTime]],
     rateLimited |-> 0]

\* Mutant: the threshold is passed, not reached.
RecordRejectLate(t, p) ==
    [invalid     |-> [t.invalid EXCEPT ![p] = @ + 1],
     quarantine  |-> IF t.invalid[p] >= Threshold THEN t.quarantine \cup {p}
                     ELSE t.quarantine,
     rates       |-> t.rates,
     rateLimited |-> t.rateLimited]

\* Invalid packets are never forgotten and a quarantine never ends.
RecordReject(t, p) ==
    [invalid     |-> [t.invalid EXCEPT ![p] = @ + 1],
     quarantine  |-> IF t.invalid[p] + 1 >= Threshold THEN t.quarantine \cup {p}
                     ELSE t.quarantine,
     rates       |-> t.rates,
     rateLimited |-> t.rateLimited]

IsQuarantined(t, p) == p \in t.quarantine

Capped(n) == IF n > Burst THEN Burst ELSE n

\* Mutant: the refill is not capped.
RefilledOver(b, now) ==
    IF b.last = NoTime THEN [tokens |-> Burst, last |-> now]
    ELSE [tokens |-> IF now > b.last THEN b.tokens + (now - b.last) ELSE b.tokens,
          last   |-> now]

\* The first packet finds a full bucket.  Last is set to the time of the packet
\* even when that is earlier than the last one's.
Refilled(b, now) ==
    IF b.last = NoTime THEN [tokens |-> Burst, last |-> now]
    ELSE [tokens |-> IF now > b.last THEN Capped(b.tokens + (now - b.last))
                     ELSE b.tokens,
          last   |-> now]

Allowed(t, p, now) == Refilled(t.rates[p], now).tokens >= Cost

\* AllowRate: the packet is paid for, or counted as invalid.
AllowRate(t, p, now) ==
    LET bucket == Refilled(t.rates[p], now) IN
    IF Allowed(t, p, now)
    THEN [t EXCEPT !.rates[p] = [bucket EXCEPT !.tokens = @ - Cost]]
    ELSE [RecordReject([t EXCEPT !.rates[p] = bucket], p) EXCEPT
            !.rateLimited = @ + 1]
=============================================================================
