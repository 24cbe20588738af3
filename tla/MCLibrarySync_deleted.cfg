SPECIFICATION FairSpec
CONSTANTS
  MaxChanges = 2
  MaxDeletions = 1
PROPERTY DeletionReachesTemplate
CHECK_DEADLOCK FALSE
