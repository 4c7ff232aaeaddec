SPECIFICATION FairSpec
CONSTANTS
  TTLs <- UnsetOrUpToTwo
  MaxEdits = 2
  MaxTime = 4
PROPERTIES
  NotDeletedEarly
  ExpiredIsDeleted
CHECK_DEADLOCK FALSE
