CONSTANTS
  FirstYear = 2027
  TicksPerDay = 5
  Horizon = 24
  Instant <- Instants
  Ahead = 33
  Start <- Tasks
  EditDue <- Edited
  EditRepeat <- Repeats
  MaxEdits = 1
SPECIFICATION Spec
INVARIANT TypeOK
INVARIANT WalkIsShort
INVARIANT ReturnsToItsDay
PROPERTY OpensTheFirstAfter
