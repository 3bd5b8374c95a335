SPECIFICATION Spec
CONSTANTS
    Window = 2
    MlWindow = 2
    MinWindow = 2
    Budget = 5
    Latencies = {4, 9}
    Depths = {0, 1}
    MaxResults = 4
    MaxTime = 1
    MaxWait = 1
    MaxTicks = 3
    MaxChecks = 6
INVARIANTS TypeOK WindowsMatch ScoreKept BreachesExplained
PROPERTIES ScoreNeverGoesBack ScoresCatchUp
CHECK_DEADLOCK FALSE
