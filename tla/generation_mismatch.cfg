SPECIFICATION MCSpec
CONSTANTS
  s1 = s1
  s2 = s2
  s3 = s3
  s4 = s4
  s5 = s5
  p1 = p1
  p2 = p2
  p3 = p3
  Safekeepers = {s1, s2, s3}
  Proposers = {p1, p2}
  SyncProposers = {}
  Conf <- JointConf
  Links <- OnlyP1
  StartLsn = 1
  SegmentEnds = {}
  MaxTerm = 1
  MaxLsn = 2
  MaxSendSize = 2
  MaxInFlight = 1
  Scenarios = {"mismatch"}
INVARIANTS
  ResponsesMatchGeneration
CHECK_DEADLOCK FALSE
