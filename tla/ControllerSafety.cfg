SPECIFICATION ModeSpec
CONSTANTS
  None = None
  Former = Former
  Op = {o1}
  Process = {p1, p2}
  ActiveActive = FALSE
  MaxOutages = 1
  MaxCrashes = 1
  MaxDeletions = 1
SYMMETRY Symmetry
CHECK_DEADLOCK FALSE
INVARIANTS
  TypeOK
  SettlesOwnClaim
  NothingForgotten
