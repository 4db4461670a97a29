SPECIFICATION PairSpec
CONSTANTS
  Expressions = {1, 2, 3}
  Lefts = {l1, l2}
  Rights = {r1, r2}
  MaxPos = 2
  MaxMatches = 3
  Distance = 1
  MaxPrograms = 2
  NumFiles = 1
  TopFilters = {0, 2}
  Windows <- MCWindows
  Programs <- MCPrograms
SYMMETRY WindowSymmetry
INVARIANTS
  CountsNested
  DiagonalCovers
  CountsMeanWhatTheySay
  ZeroKeysRemoved
  GraphShowsTheTop
CHECK_DEADLOCK FALSE
