SPECIFICATION SuiteSpec
INVARIANTS
  UploadsAreInOrder
  DeletionsAreValid
  OneWriterOfAShard
  ComputeIsServed
PROPERTIES
  IndexGoesForward
  ListsGoLast
CHECK_DEADLOCK FALSE
