SPECIFICATION SuiteSpec
CONSTANTS
  c1 = c1
  c2 = c2
  r1 = r1
  Safekeepers = {1, 2}
  Late = {}
  Quorum = 2
  Computes = {}
  SegSize = 1
  MaxLsn = 2
  FirstFlush = 1
  ParallelJobs = 1
  MaxLag = 1
  MaxReelectLag = 1
  TimelineId = 1
  MaxRestarts = 1
  MaxFails = 0
  MaxSilence = 0
  MaxSaves = 1
  MaxReads = 0
PROPERTIES
  WalIsOffloaded
  AllIsDelivered
CHECK_DEADLOCK FALSE
