SPECIFICATION HSpec
CONSTANTS
  Replicas <- TwoRJobs
  DependsOn <- SecondAfterFirstComplete
  StartupPolicyOrder = "AnyOrder"
  SuccessOperator = "All"
  SuccessTargets = {}
  HasFailurePolicy = TRUE
  MaxRestarts = 1
  RestartStrategy = "Recreate"
  Rules <- NoRules
  FailureReasons = {"BackoffLimitExceeded"}
  ActiveDeadlineSeconds <- Nil
  Gates = {}
  MaxFailures = 2
  MaxSuspends = 2
  MaxDeletions = 0
  MaxLag = 1
  MaxTime = 0
PROPERTIES
  DependenciesReached
CHECK_DEADLOCK FALSE
