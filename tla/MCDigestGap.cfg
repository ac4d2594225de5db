CONSTANTS
  HoursPerDay = 4
  Hours = {0}
  Zones <- GapZones
  LastHour = 19
  MaxJumps = 0
  MaxStops = 0
SPECIFICATION Spec
INVARIANTS
  OncePerDay
CHECK_DEADLOCK FALSE
