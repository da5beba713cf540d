SPECIFICATION MCSpec
CONSTANTS
  s1 = s1
  s2 = s2
  s3 = s3
  s4 = s4
  s5 = s5
  p1 = p1
  p2 = p2
  p3 = p3
  Safekeepers = {s1, s2, s3, s4, s5}
  Proposers = {p1, p2}
  SyncProposers = {p1}
  Conf <- OneConf
  Links <- FourOfFive
  StartLsn = 1
  SegmentEnds = {}
  MaxTerm = 3
  MaxLsn = 3
  MaxSendSize = 1
  MaxInFlight = 1
  Scenarios = {"late_elected"}
INVARIANTS
  NeverTruncatesCommitted
CHECK_DEADLOCK FALSE
