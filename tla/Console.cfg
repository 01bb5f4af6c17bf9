SPECIFICATION MCSpec
CONSTANTS
  Workload = {w1, w2}
  Draft = {d1, d2}
  None = None
  MaxOpens = 2
  MaxPosts = 3
  View = {"workloads", "events"}
  Workloads = "workloads"
  MaxVersion = 2
  MaxMoves = 2
  MaxFailures = 1
  Slots = 2
  ClusterCap = 2
  MaxChanges = 6
  Investigator = {"r1", "r2"}
  Found <- Collections
  Limit <- SourceLimits
  MaxEvidence = 24
  MaxHypotheses = 3
  Output <- Outputs
CHECK_DEADLOCK FALSE
INVARIANTS
  Types
  ConfirmedIsApplied
  OneRequestAtATime
  ToldInOrder
  InvestigationsAreHonest
PROPERTIES
  Converges
  StreamsEnd
  SlotIsReturned
