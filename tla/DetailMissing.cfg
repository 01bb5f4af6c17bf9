SPECIFICATION Spec
CONSTANTS
  None = None
  ReplicaSet = {s1}
  Pod = {q1}
  MaxBorn = 1
  MaxChanges = 0
  MaxLogs = 1
CHECK_DEADLOCK FALSE
INVARIANT
  MissingSourcesReported
