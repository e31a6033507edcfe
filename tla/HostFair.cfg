SPECIFICATION FairSpec
CONSTANTS
  r1 = r1
  r2 = r2
  Requests = {r1, r2}
  Stale = stale
  Lanes = 2
  Interval = 1
  MaxCooldown = 1
  Deadlines = {2, 9}
  Never = 9
  Asked = {1}
  MaxWall = 0
  ClockFaults = {"boot"}
  MaxDamage = 0
  MaxFaults = 1
INVARIANTS NoOvertaking
PROPERTIES
  EachStarts
