SPECIFICATION Spec
CONSTANTS
    Horizon = 46
    Owners = {"operator", "manual", "demo"}
    Requested = {"slowdown", "packet_loss", "unknown"}
    Durations <- MCDurations
    Requests = 3
    ManualFaults = {"none", "latency_spike"}
INVARIANTS TypeOK StateAgrees TimedFaultsEnd
PROPERTY SystemHeals
CHECK_DEADLOCK FALSE
