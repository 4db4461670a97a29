SPECIFICATION ProgramSpec
CONSTANTS
  MaxPos = 4
  MaxLen = 3
  MaxDistance = 2
  MaxDays = 2
  MaxPrograms = 2
  Inputs <- MCInputs
  Distances <- MCDistances
  Ranges <- MCRanges
INVARIANTS
  NothingNeededBehind
  NeighboursComplete
  RowsAreDated
  GrandTotalsMeanNearPairs
PROPERTIES
  EveryCallImplementsFilter
CHECK_DEADLOCK FALSE
