SPECIFICATION Spec
CONSTANTS
    self = self
    ann = ann
    bob = bob
    Self = self
    Peers <- PeersMC
    Arrivals <- ArrivalsMC
    Slots = {s1, s2}
    Threshold = 2
    Burst = 2
    Cost = 1
    ChannelSize = 3
    MaxPackets = 4
    MaxTime = 3
INVARIANTS
    TypeOK
    QuarantineExact
    BucketConserves
    OneLastWord
SYMMETRY Alike
CHECK_DEADLOCK FALSE
