SPECIFICATION Spec
CONSTANTS
  Mbps = 1
  TotalBudget <- StartupTotal
  InitialBandwidth <- StartupBandwidth
  MinBandwidth <- StartupMin
  MaxBandwidth <- StartupMax
  Cooldown = 3
  HysteresisCount = 3
  RollbackWindow = 5
  LogCapacity = 4
  MaxSleep = 2
  Latencies = {10, 11}
  OverrideRequests <- MCGreedy
INVARIANTS
  TypeOK
  AllocWithinLimits
  PendingIsLatestSpike
  RollbacksMatchSpikes
  TriggersAreFresh
PROPERTIES
  CongestionKeepsBudget
  CongestionFavoursCritical
  Rebalances
