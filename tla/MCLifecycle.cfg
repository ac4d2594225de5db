CONSTANTS
  Requests = {r1, r2}
  Configs <- MCConfigs
SPECIFICATION FairSpec
INVARIANTS
  TypeOK
  AnsweredBeforeTheEnd
  PoolIsClosed
PROPERTIES
  StopsWhenAsked
CHECK_DEADLOCK FALSE
