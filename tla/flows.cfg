SPECIFICATION Spec
CONSTANTS
    Profiles <- SmallProfiles
    TcpPatience = 1
    UdpPatience = 0
    BurstCount = 2
    RttSize = 2
    MaxFrames = 4
    MaxTime = 3
INVARIANTS TypeOK MeasuredOnce PendingInFlight DatagramsAccounted
PROPERTY EveryFrameResolved
CHECK_DEADLOCK FALSE
