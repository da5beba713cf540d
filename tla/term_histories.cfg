SPECIFICATION Spec
CONSTANTS
  StartLsn = 1
  MaxTerm = 4
  MaxLsn = 4
INVARIANTS
  CommonPointIsDivergence
  BothSidesAgree
CHECK_DEADLOCK FALSE
