SPECIFICATION EndsSpec
CONSTANTS
  None = None
  Former = Former
  Op = {o1}
  Process = {p1, p2}
  ActiveActive = FALSE
  MaxOutages = 1
  MaxCrashes = 1
  MaxDeletions = 1
CHECK_DEADLOCK FALSE
PROPERTIES
  OperationsEnd
  WorkEndsWithoutOutages
