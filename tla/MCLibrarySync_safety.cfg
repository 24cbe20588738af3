SPECIFICATION FairSpec
CONSTANTS
  MaxChanges = 5
  MaxDeletions = 2
INVARIANTS TypeOK ImportsWhatWasChecked NoUpdateMissed
PROPERTY CatchesUpByGeneration
CHECK_DEADLOCK FALSE
