SPECIFICATION Spec
CONSTANTS
  Workload = {w1, w2}
  Draft = {d1, d2}
  None = None
  MaxOpens = 2
  MaxPosts = 4
CHECK_DEADLOCK FALSE
INVARIANT
  DrawerShowsSelected
