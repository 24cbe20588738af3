SPECIFICATION FairSpec
CONSTANTS
  MaxChanges = 3
  MaxDeletions = 1
PROPERTY CatchesUp
CHECK_DEADLOCK FALSE
