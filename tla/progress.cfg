SPECIFICATION FairSpec
CONSTANTS
  Replicas <- TwoReplicas
  DependsOn <- NoDependencies
  StartupPolicyOrder = "AnyOrder"
  SuccessOperator = "All"
  SuccessTargets = {}
  HasFailurePolicy = TRUE
  MaxRestarts = 1
  RestartStrategy = "BlockingRecreate"
  Rules <- NoRules
  FailureReasons = {"BackoffLimitExceeded"}
  ActiveDeadlineSeconds <- Nil
  Gates = {}
  MaxFailures = 2
  MaxSuspends = 1
  MaxDeletions = 0
  MaxLag = 0
  MaxTime = 0
INVARIANTS
  OneGeneration
PROPERTIES
  FinishedCleansUp
  SuspendedStops
  EverythingStarts
  FailuresHandled
CHECK_DEADLOCK FALSE
