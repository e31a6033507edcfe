SPECIFICATION Spec
CONSTANTS
  MaxLaunches = 3
  MaxCrashes = 2
  MaxBreaks = 2
  MaxUnsaved = 1
  MaxPipe = 2
INVARIANTS
  OneRunner
  StopEndsTheJob
  PausedCanResume
PROPERTIES
  SavedPausesHold
\* At its bounds a job may be over, or wait for the user for ever.
CHECK_DEADLOCK FALSE
