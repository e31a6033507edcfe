SPECIFICATION FairSpec
CONSTANTS
  MaxLaunches = 3
  MaxCrashes = 1
  MaxBreaks = 1
  MaxUnsaved = 0
  MaxPipe = 1
PROPERTIES
  StopFinishes
  InterruptedContinues
\* At its bounds a job may be over, or wait for the user for ever.
CHECK_DEADLOCK FALSE
