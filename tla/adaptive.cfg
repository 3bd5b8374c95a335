SPECIFICATION SSpec
CONSTANTS
  Mbps = 1
  TotalBudget <- StartupTotal
  InitialBandwidth <- StartupBandwidth
  MinBandwidth <- StartupMin
  MaxBandwidth <- StartupMax
  Cooldown = 2
  HysteresisCount = 2
  RollbackWindow = 1
  LogCapacity = 1
  MaxSleep = 1
  Latencies = {10}
  OverrideRequests <- MCOverrides
  Base = 140
  Reach = 30
  Window = 3
  MinSamples = 2
  Scores = {0, 110, 130, 200}
INVARIANTS
  STypeOK
PROPERTIES
  SteadyScoreDecides
CHECK_DEADLOCK FALSE
