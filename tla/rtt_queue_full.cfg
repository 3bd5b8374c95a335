SPECIFICATION Spec
CONSTANTS
    Profiles <- SmallProfiles
    TcpPatience = 0
    UdpPatience = 0
    BurstCount = 2
    RttSize = 2
    MaxFrames = 3
    MaxTime = 2
PROPERTY MeasurementsConsumed
CHECK_DEADLOCK FALSE
