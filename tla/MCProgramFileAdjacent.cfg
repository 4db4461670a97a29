SPECIFICATION ProgramSpec
CONSTANTS
  MaxLen = 7
  MaxFile = 1
  MaxEnds = 0
  read_size = 12
  Texts <- RealTexts
  Files <- MCFiles
PROPERTIES
  OnlyTextBeforeAdded
CHECK_DEADLOCK FALSE
