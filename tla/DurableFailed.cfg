SPECIFICATION Spec
CONSTANTS
  None = None
  Op = {o1}
  Worker = {w1}
  Request = {q1}
  Actor = {a1}
  Replicas = {r1, r2}
  Template = {t1}
  Action = {"scale"}
  Denying = {}
  PlanWindow = 1
  ClaimDuration = 1
  ExecutionWindow = 1
  Skew = 0
  MaxTime = 0
  MaxRv = 1
  MaxVersion = 4
  MaxOrphans = 1
SYMMETRY Symmetry
CHECK_DEADLOCK FALSE
INVARIANTS
  FailedHasNoEffect
