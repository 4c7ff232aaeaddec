SPECIFICATION FairSpec
CONSTANTS
  p1 = p1
  p2 = p2
  Pods <- TwoPods
  MaxRestarts = 1
  UncountedRestarts = 0
  MayDisable = TRUE
  MaxFaults = 2
INVARIANTS
  BarrierInv
  SameAttempt
  FailsOnlyAfterMaxRestarts
PROPERTIES
  CurrentNeverDecreases
  PreviousNeverDecreases
  EveryRunIsANewAttempt
  Converges
  ImplementsBarrier

