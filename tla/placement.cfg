SPECIFICATION FairSpec
CONSTANTS
  Jobs = {"a", "b"}
  Followers <- OneFollower
  Priority <- SamePriority
  Domains = {"x", "y"}
  MaxPods = 2
  MaxFaults = 1
INVARIANTS
  TypeOK
  LeaderDomainIsExclusive
  PinnedToOwnLeader
PROPERTIES
  FollowersJoinLeader
CHECK_DEADLOCK FALSE
