SPECIFICATION HFairSpec
CONSTANTS
  Replicas <- OneJob
  DependsOn <- NoDependencies
  StartupPolicyOrder = "AnyOrder"
  SuccessOperator = "All"
  SuccessTargets = {}
  HasFailurePolicy = TRUE
  MaxRestarts = 1
  RestartStrategy = "Recreate"
  Rules <- NoRules
  FailureReasons = {"BackoffLimitExceeded"}
  ActiveDeadlineSeconds = 2
  Gates = {"JobSetActiveDeadlineSeconds"}
  MaxFailures = 1
  MaxSuspends = 2
  MaxDeletions = 0
  MaxLag = 0
  MaxTime = 3
PROPERTIES
  DeadlineMeasuresActiveTime
  DeadlineEnforced
CHECK_DEADLOCK FALSE
