SPECIFICATION DataSpec
CONSTANTS
  RhsCount = 7
  Events = {"e1", "e2"}
  AltOf <- MCAltOf
  EventOf <- MCEventOf
  Clustered = {2, 5, 7}
  Conditional = {1, 4}
  Acting = {3, 6}
  ByteBits = 8
  Alphabet = 2
  PatternTables <- MCPatternTables
  Texts <- MCTexts
INVARIANTS
  RememberedInOrder
  BitmapsAgree
PROPERTIES
  FirstMatchWins
  Implements
  DetectReturns
  FollowsText
  ReportsTrue
