SPECIFICATION SuiteSpec
CONSTANTS
  Tasks = {"t1", "t2", "t3"}
  MaxNum = 2
INVARIANTS
  NobodyForgotten
  PrimitivesAreSound
PROPERTIES
  WaitsReturn
  FlushesEnd
  ReconciliationSettles
CHECK_DEADLOCK FALSE
