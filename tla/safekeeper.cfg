SPECIFICATION SuiteSpec
CONSTANTS
  c1 = c1
  c2 = c2
  r1 = r1
INVARIANTS
  WalOnDiskIsSound
  BackupAndRemovalLoseNothing
  EvictionLosesNothing
  ShardsGetTheirWal
PROPERTIES
  FlushLsnSurvives
CHECK_DEADLOCK FALSE
