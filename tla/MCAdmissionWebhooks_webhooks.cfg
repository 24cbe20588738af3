SPECIFICATION FairSpec
CONSTANTS
  Admissions = {a}
  ClusterAdmissions = {c}
  Replicas = {r1, r2}
  FirstLeaders = {r1}
  NoReplica = NoReplica
  MaxChanges = 1
  MaxFaults = 1
INVARIANTS TypeOK AnswersWithItsRules NothingIsLost
PROPERTIES NeverGoesBack AnswersSettle Settles
CHECK_DEADLOCK FALSE
