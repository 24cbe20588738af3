SPECIFICATION FairSpec
CONSTANTS
  Keys = {k1}
  Configs = {c1, cbad}
  BadConfigs = {cbad}
  Triggering = {}
  Templates = {t1, tbad}
  BadTemplates = {tbad}
  InitStatuses = {"WaitingForCacheSync"}
  Insts = {i1, i2, i3}
  NoInst = NoInst
  MaxChanges = 2
  MaxFaults = 1
INVARIANT SettledAtRest
PROPERTIES Converges ManagerReturns
CHECK_DEADLOCK FALSE
