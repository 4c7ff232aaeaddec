SPECIFICATION FairSpec
CONSTANTS
  Jobs = {1}
  Configs <- Gangs
  Template <- GangTemplate
  Policy <- GangPolicy
  Gated <- GatedFields
  Sizes = {1, 2}
  Created <- ActiveOrSuspended
  MaxEdits = 3
  ScaleCost = 2
INVARIANTS
  TypeOK
PROPERTIES
  Settles
  DeadlineEnforcedUnlessHeld
CHECK_DEADLOCK FALSE
