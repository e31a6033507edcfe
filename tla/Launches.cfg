SPECIFICATION FairSpec
CONSTANTS
  Jobs = {a, b}
  Kinds = {"live", "review", "web"}
  Limit = 1
  Wait = 1
  Spacing = 1
  MaxAsks = 3
  MaxFaults = 2
  Watched = {a}
INVARIANTS AloneUnlessRaced HoldsAreRechecked ReviewedHasReview
PROPERTIES StartsChecked NobodyWaitsForever
\* The server may have nothing to do.
CHECK_DEADLOCK FALSE
