SPECIFICATION EffectSpec
CONSTANTS
  None = None
  Op = {o1}
  Worker = {w1, w2}
  Request = {q1}
  Actor = {a1}
  Replicas = {r1, r2}
  Template = {t1, t2}
  Action = {"scale", "restart"}
  Denying = {}
  PlanWindow = 0
  ClaimDuration = 1
  ExecutionWindow = 1
  Skew = 1
  MaxTime = 2
  MaxRv = 2
  MaxVersion = 4
  MaxOrphans = 1
SYMMETRY Symmetry
CHECK_DEADLOCK FALSE
INVARIANTS
  TypeOK
  AtMostOneEffect
  NoLostAnnotations
  SuccessWasObserved
PROPERTIES
  ClaimsAreFenced
  TerminalIsFinal
  EffectIsReviewedIntent
