SPECIFICATION HotSpec
CONSTANTS
  M = 5
  A = 3
  Width = 32
  Letters = {1, 4}
  Spaces = {2}
  MinSize = 1
  LEFT_HASH_WIDTH = 1
  RIGHT_HASH_WIDTH = 3
  min_count = 1
  min_percent_increase = 1
  MaxLen = 3
  MaxLoads = 2
  Texts <- MCTexts
INVARIANTS
  HashIsTheFormula
  EveryWordHasAContext
  NeverOvercounted
  TokensAreWords
CHECK_DEADLOCK FALSE
