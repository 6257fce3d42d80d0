-------------------------------- MODULE MCTrust --------------------------------
(***************************************************************************)
(* Trust for TLC: the packets of a node with two neighbours, one of them   *)
(* with a broken build.                                                    *)
(***************************************************************************)
EXTENDS Trust

CONSTANTS self, ann, bob

Packet(kind, names, defect, from) ==
    [packet |-> [kind |-> kind, names |-> names, defect |-> defect], from |-> from]

PeersMC == {self, ann, bob}

ArrivalsMC ==
    {Packet("chat", <<ann>>, "none", ann),
     Packet("chat", <<ann>>, "unverifiable", ann),
     Packet("sync_request", <<ann>>, "none", bob),
     Packet("sync_response", <<bob, ann>>, "none", bob),
     Packet("activity", <<bob>>, "none", bob),
     Packet("chat", <<self>>, "none", self)}

Alike == Permutations(Slots)
=============================================================================
