SPECIFICATION ProgramSpec
CONSTANTS
  MaxLen = 7
  MaxFile = 5
  MaxEnds = 2
  read_size = 10
  Texts <- SeparatedTexts
  Files <- MCFiles
INVARIANTS
  TimestampsStripped
  ProgramsAsWritten
  CorruptOnlyIfOversized
PROPERTY
  ProgramTermination
CHECK_DEADLOCK FALSE
