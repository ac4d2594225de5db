CONSTANTS
  HoursPerDay = 4
  Hours <- MCHours
  Zones <- MCZones
  LastHour = 19
  MaxJumps = 1
  MaxStops = 2
SPECIFICATION Spec
INVARIANTS
  TypeOK
  OncePerDay
  EveryDay
  OnTime
CHECK_DEADLOCK FALSE
