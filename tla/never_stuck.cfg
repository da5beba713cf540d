SPECIFICATION LiveSpec
CONSTANTS
  s1 = s1
  s2 = s2
  s3 = s3
  s4 = s4
  s5 = s5
  p1 = p1
  p2 = p2
  p3 = p3
  Safekeepers = {s1, s2, s3}
  Proposers = {p1, p2, p3}
  SyncProposers = {p1, p2}
  Conf <- OneConf
  Links <- LiveLinks
  StartLsn = 1
  SegmentEnds = {}
  MaxTerm = 4
  MaxLsn = 3
  MaxSendSize = 2
  MaxInFlight = 1
  Scenarios = {"never_stuck", "sole_compute", "sole_crash"}
PROPERTIES
  NeverStuck
  SoleComputeCommits
CHECK_DEADLOCK FALSE
