SPECIFICATION HSpec
CONSTANTS
  Replicas <- TwoRJobs
  DependsOn <- NoDependencies
  StartupPolicyOrder = "InOrder"
  SuccessOperator = "Any"
  SuccessTargets = {}
  HasFailurePolicy = TRUE
  MaxRestarts = 1
  RestartStrategy = "BlockingRecreate"
  Rules <- EveryAction
  FailureReasons = {"BackoffLimitExceeded", "PodFailurePolicy", "DeadlineExceeded"}
  ActiveDeadlineSeconds <- Nil
  Gates = {"RestartJob"}
  MaxFailures = 2
  MaxSuspends = 0
  MaxDeletions = 0
  MaxLag = 1
  MaxTime = 0
INVARIANTS
  TypeOK
  RestartsWithinMax
  AttemptInv
PROPERTIES
  CreatesCurrent
  DeletesOnlyObsolete
  RestartNeedsFailure
  TerminalStable
  StartsInOrder
CHECK_DEADLOCK FALSE
