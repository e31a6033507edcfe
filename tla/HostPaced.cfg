SPECIFICATION Spec
CONSTANTS
  r1 = r1
  r2 = r2
  Requests = {r1, r2}
  Stale = stale
  Lanes = 2
  Interval = 1
  MaxCooldown = 2
  Deadlines = {2, 9}
  Never = 9
  Asked = {1, 3}
  MaxWall = 4
  ClockFaults = {"wall"}
  MaxDamage = 1
  MaxFaults = 0
PROPERTIES Paced
SYMMETRY Alike
