SPECIFICATION GossipSpec
CONSTANTS
    ann = ann
    bob = bob
    cyd = cyd
    Peers <- PeersMC
    Links <- Triangle
    Published = {"chat", "sync_request"}
    Threshold = 3
    Burst = 12
    Cost = 1
    MaxPublished = 3
    MaxTicks = 0
INVARIANTS
    HonestNotQuarantined
CHECK_DEADLOCK FALSE
