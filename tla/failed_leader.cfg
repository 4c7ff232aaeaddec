SPECIFICATION Spec
CONSTANTS
  Jobs = {"a", "b"}
  Followers <- OneFollower
  Priority <- SamePriority
  Domains = {"x", "y"}
  MaxPods = 2
  MaxFaults = 1
PROPERTIES
  DeletesOnlyMisplaced
CHECK_DEADLOCK FALSE
