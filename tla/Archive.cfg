SPECIFICATION Spec
CONSTANTS
  None = None
  Bad = Bad
  Cutoffs = {2, 4}
  Captures = {1, 2, 3}
  Readables = {{2}, {1,2}}
  Placeholders = {3}
  IndexRows = 2
  Unwell = {4}
  Searching = {2}
  Retrying = {2}
  MaxTasks = 1
  MaxPending = 1
  MaxBusy = 2
INVARIANTS StrictlyBefore AbsenceIsReal  NothingWaitsAlone
