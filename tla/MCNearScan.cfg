SPECIFICATION ScanSpec
CONSTANTS
  MaxPos = 4
  MaxLen = 3
  MaxDistance = 2
  Inputs <- MCInputs
  Distances <- MCDistances
INVARIANT
  PassedOutOfReach
PROPERTY
  ImplementsFilter
CHECK_DEADLOCK FALSE
