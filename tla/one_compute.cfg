SPECIFICATION MCSpec
CONSTANTS
  s1 = s1
  s2 = s2
  s3 = s3
  s4 = s4
  s5 = s5
  p1 = p1
  p2 = p2
  p3 = p3
  Safekeepers = {s1, s2, s3}
  Proposers = {p1, p2}
  SyncProposers = {p2}
  Conf <- JointConf
  Links <- AllLinks
  StartLsn = 1
  SegmentEnds = {}
  MaxTerm = 3
  MaxLsn = 3
  MaxSendSize = 1
  MaxInFlight = 1
  Scenarios = {"reconnects", "elections", "joint"}
INVARIANTS
  TypeOK
  ElectionSafety
  NeverTruncatesCommitted
  AcknowledgedIsFlushed
  CommitHasItsQuorum
CHECK_DEADLOCK FALSE
