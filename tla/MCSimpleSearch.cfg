SPECIFICATION Spec
CONSTANTS
  Lefts = {l1, l2}
  Rights = {r1, r2}
  Chars = {1, 2}
  MaxLen = 2
  MaxNames = 3
  MaxPrograms = 2
  MaxMatches = 2
  num_excerpts = 1
  Windows <- MCWindows
  Files <- MCFiles
  Queries <- MCQueries
  Titles <- MCTitles
SYMMETRY WindowSymmetry
INVARIANTS
  RowsAccountForTheRange
  ExcerptsAreNew
  ContextsAreDistinct
  SelectsByPrefix
CHECK_DEADLOCK FALSE
