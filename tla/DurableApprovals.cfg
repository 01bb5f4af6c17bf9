SPECIFICATION ApprovalSpec
CONSTANTS
  None = None
  Op = {o1, o2}
  Worker = {w1, w2}
  Request = {q1, q2}
  Actor = {a1, a2}
  Replicas = {r1, r2}
  Template = {t1}
  Action = {"scale"}
  Denying = {w2}
  PlanWindow = 1
  ClaimDuration = 1
  ExecutionWindow = 1
  Skew = 0
  MaxTime = 2
  MaxRv = 2
  MaxVersion = 4
  MaxOrphans = 1
SYMMETRY Symmetry
CHECK_DEADLOCK FALSE
INVARIANTS
  EffectWasApproved
  AckedApproverIsRecorded
PROPERTIES
  KeepsItsPromises
