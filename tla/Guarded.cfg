SPECIFICATION PartSpec
CONSTANTS
  None = None
  Plan = {o1, o2, o3}
  Asked <- Allowed
  Execution = {x1, x2}
  Process = {p1, p2}
  User = {u1}
  Template = {t1, t2}
  Production = TRUE
  Namespaces = {"kubevista"}
  MinReplicas = 1
  MaxReplicas = 6
  MaxPlans = 2
  MaxAudit = 1
  TTL = 2
  MaxTime = 4
  MaxVersion = 1
  MaxCrashes = 1
  Absent = Absent
  PodTemplate <- Templates
  HistoryLimit = 1
  MaxRevision = 4
  MaxRv = 7
  Key = {Image, Args, Labels}
  Scalar = {1, 2}
  Image = Image
  Args = Args
  Labels = Labels
CHECK_DEADLOCK FALSE
INVARIANTS
  TypeOK
  SingleUse
  EffectAsReviewed
  AnswersAreTrue
  MemoryIsKept
  NothingIsHidden
PROPERTIES
  ImplementsReviewedChange
  RestoresPrevious
