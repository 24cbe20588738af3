SPECIFICATION Spec
CONSTANTS
  Keys = {k1}
  Configs = {c1, c2}
  BadConfigs = {}
  Triggering = {c1}
  Templates = {t1}
  BadTemplates = {}
  InitStatuses = {"Ready"}
  Insts = {i1, i2, i3}
  NoInst = NoInst
  MaxChanges = 2
  MaxFaults = 1
INVARIANTS TypeOK SingleLiveController RendersOwnConfig SettledMapMatchesCache
PROPERTY DeliversInOrder
CHECK_DEADLOCK FALSE
