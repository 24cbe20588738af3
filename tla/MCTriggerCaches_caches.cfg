SPECIFICATION FairSpec
CONSTANTS
  Objects <- MCObjects
  NoObject = NoObject
  OwnNamespace = "own"
  Definitions <- MCDefinitions
  InitSpecs <- MCSpecs
  InitClusters <- MCClusters
  MaxStates = 3
  MaxExtras = 1
INVARIANTS TypeOK ReadAfterTrigger OfflineAgrees NoEventLost
PROPERTIES NeverGoesBack DerivedFollow DeletionsFollow
CHECK_DEADLOCK FALSE
