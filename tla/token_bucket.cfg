SPECIFICATION Spec
CONSTANTS
  Rates = {1, 2, 4}
  InitialRate = 2
  BurstFactor = 2
  Sizes = {1, 3, 8}
  MaxTime = 5
INVARIANTS
  TypeOK
  ServiceSinceRateChange
  ServiceBounded
  PauseRestoresBurst
PROPERTIES
  ImplementsLimiter
