SPECIFICATION FairSpec
CONSTANTS
  Replicas <- TwoReplicas
  DependsOn <- NoDependencies
  StartupPolicyOrder = "AnyOrder"
  SuccessOperator = "All"
  SuccessTargets = {}
  HasFailurePolicy = TRUE
  MaxRestarts = 1
  RestartStrategy = "Recreate"
  Rules <- NoRules
  FailureReasons = {"BackoffLimitExceeded"}
  ActiveDeadlineSeconds <- Nil
  Gates = {"ExecutionAttemptsTracking"}
  MaxFailures = 1
  MaxSuspends = 2
  MaxDeletions = 0
  MaxLag = 0
  MaxTime = 0
INVARIANTS
  ResumeCountedOnce
CHECK_DEADLOCK FALSE
