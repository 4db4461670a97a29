SPECIFICATION ExcerptSpec
CONSTANTS
  Characters = {"i", "n", " ", "*"}
  Separators = {" ", "<", "/", ">"}
  excerpt_size = 2
  Open <- MCOpen
  Close <- MCClose
  MaxText = 5
  SearchStrings <- WordsAndPhrase
  Texts <- MCTexts
  PatternLists <- TwoPatterns
INVARIANTS
  PositionsAreMatchesInOrder
  EveryDescribedWordOnce
  MarkupReadsBack
  MatchesAreRed
PROPERTY
  ExcerptTermination
CHECK_DEADLOCK FALSE
