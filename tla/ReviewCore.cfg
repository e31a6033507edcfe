SPECIFICATION FairSpec
CONSTANTS
  Limit = 1
  Selections <- AllStages
  MaxProofs = 3
  MaxPipe = 3
  MaxFaults = 1
  MaxPauses = 1
INVARIANTS
  AcceptedIsReviewed
  PointersAreRead
  RoundMatchesEdits
  FeedbackKept
  NewestReviewed
PROPERTY
  AcceptedIsPublished
CHECK_DEADLOCK FALSE
