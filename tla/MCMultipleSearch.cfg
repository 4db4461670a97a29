SPECIFICATION Spec
CONSTANTS
  Strings = {1, 2}
  NumFiles = 2
  Lefts = {l1, l2}
  Rights = {r1, r2}
  MaxPrograms = 2
  MaxMatches = 2
  Windows <- MCWindows
  SearchLists <- MCSearchLists
  Files <- MCFiles
SYMMETRY WindowSymmetry
INVARIANTS
  CountedAsIfAlone
  TotalLineAddsUp
  ExcerptsShowContexts
CHECK_DEADLOCK FALSE
