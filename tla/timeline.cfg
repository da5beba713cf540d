SPECIFICATION SuiteSpec
INVARIANTS
  FlushesAreSound
  LayerMapServesReads
  GarbageIsUnused
PROPERTIES
  OkMeansFlushed
CHECK_DEADLOCK FALSE
