CONSTANTS
  Requests = {r1, r2}
  Sessions = {s1, s2}
  Visitors = {v1, v2}
  s1 = s1
  s2 = s2
  v1 = v1
  v2 = v2
  NoId = NoId
  Incoming <- MCIncoming
  NotifierEnabled = TRUE
  MaxStops = 1
SPECIFICATION Spec
INVARIANT
  OncePerSession
CHECK_DEADLOCK FALSE
