SPECIFICATION FairSpec
CONSTANTS
  None = None
  Former = Former
  Op = {o1}
  Process = {p1}
  ActiveActive = FALSE
  MaxOutages = 1
  MaxCrashes = 0
  MaxDeletions = 1
CHECK_DEADLOCK FALSE
PROPERTIES
  WorkGoesToReview
