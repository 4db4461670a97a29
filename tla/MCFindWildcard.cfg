SPECIFICATION ExcerptSpec
CONSTANTS
  Characters = {"i", "n", " ", "*"}
  Separators = {" ", "<", "/", ">"}
  excerpt_size = 2
  Open <- MCOpen
  Close <- MCClose
  MaxText = 4
  SearchStrings <- Words
  Texts <- MCTexts
  PatternLists <- OnePattern
INVARIANT
  WildcardsFindTheirWords
CHECK_DEADLOCK FALSE
