SPECIFICATION MCSpec
CONSTANTS
  None = None
  ReplicaSet = {s1}
  Pod = {q1, q2}
  MaxBorn = 2
  MaxDetailChanges = 3
  MaxLogs = 1
  Deployment = {1, 2, 3}
  MaxItems = 2
  MaxEvents = 2
  MaxRetained = 3
  MaxOverviewChanges = 2
  MaxAbsent = 1
  MaxTopologyChanges = 2
SYMMETRY Symmetry
CHECK_DEADLOCK FALSE
INVARIANTS
  Types
  EvidenceIsReal
  WhatStaysIsShown
