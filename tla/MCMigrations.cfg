CONSTANTS
  Instances = {old, new}
  old = old
  new = new
  Versions = {1, 2, 3}
  Embedded <- MCEmbedded
  MayBreak = {2}
  NoOne = NoOne
  Orphan = Orphan
  MaxFaults = 3
SPECIFICATION FairSpec
INVARIANTS
  OneMigrator
  ExactlyOnce
  ReadyIsMigrated
  SnapshotIsCurrent
PROPERTIES
  RunsOnceInOrder
  EveryoneGetsReady
CHECK_DEADLOCK FALSE
