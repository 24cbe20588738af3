SPECIFICATION Spec
CONSTANTS
  Keys = {k1}
  Configs = {c1, c2}
  BadConfigs = {}
  Triggering = {}
  Templates = {t1}
  BadTemplates = {}
  InitStatuses = {"Ready"}
  Insts = {i1, i2, i3}
  NoInst = NoInst
  MaxChanges = 2
  MaxFaults = 0
INVARIANT RunsAsItsServiceAccount
CHECK_DEADLOCK FALSE
