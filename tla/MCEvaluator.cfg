SPECIFICATION FairEvalSpec
CONSTANTS
  MaxPieces = 5
  Words <- MCWords
  Expressions <- MCExpressions
  Near <- MCNear
  NotNear <- MCNotNear
  Number <- MCNumber
  DefaultDistance = 2
  LocationMaps <- MCLocationMaps
INVARIANTS
  ExpressionGetsItsMeaning
  ListsAscending
  ParenthesesMatched
PROPERTY
  Termination
CHECK_DEADLOCK FALSE
