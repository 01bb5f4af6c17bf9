SPECIFICATION MCSpec
CONSTANTS
  Count = {1, 2, 3}
  Temporary = 2
  MaxChanges = 4
  Modes <- Scenarios
  Jitter = {0, 1, 2}
  MaxEdits = 2
  MaxFaults = 2
CHECK_DEADLOCK FALSE
INVARIANTS
  Types
  RestoresWhatMatches
  ExitStatusIsTrue
  UndisturbedItRestores
  OnlyHealthyIsPromoted
  TrafficIsRestored
