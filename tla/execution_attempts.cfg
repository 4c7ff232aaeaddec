SPECIFICATION Spec
CONSTANTS
  Replicas <- OneJob
  DependsOn <- NoDependencies
  StartupPolicyOrder = "AnyOrder"
  SuccessOperator = "All"
  SuccessTargets = {}
  HasFailurePolicy = TRUE
  MaxRestarts = 1
  RestartStrategy = "Recreate"
  Rules <- NoRules
  FailureReasons = {"BackoffLimitExceeded"}
  ActiveDeadlineSeconds <- Nil
  Gates = {"ExecutionAttemptsTracking"}
  MaxFailures = 1
  MaxSuspends = 3
  MaxDeletions = 1
  MaxLag = 1
  MaxTime = 1
INVARIANTS
  ExecutionAttemptsCoverRestarts
  AttemptsNotAhead
  CountersInv
CHECK_DEADLOCK FALSE
