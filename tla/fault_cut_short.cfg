SPECIFICATION Spec
CONSTANTS
    Horizon = 46
    Owners = {"operator", "manual", "demo"}
    Requested = {"slowdown"}
    Durations = {3}
    Requests = 2
    ManualFaults = {"none"}
PROPERTY FaultsRunTheirCourse
CHECK_DEADLOCK FALSE
