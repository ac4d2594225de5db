CONSTANTS
  Incoming <- MCIncoming
  Ranges <- MCRanges
  Lists <- MCLists
  Sections = {1, 3}
  NoDay = 0
  Day <- MCDay
  MaxRows = 3
  MaxLate = 1
  MaxRangeDays = 3
  MaxLimit = 2
  DefaultLimit = 1
  MaxExportRows = 2
  TopRows = 2
SPECIFICATION Spec
INVARIANTS
  TypeOK
  PartsFitTotals
  PeriodsTile
  PagingMissesNothing
  DetailFits
  LiveAndExportFit
CHECK_DEADLOCK FALSE
