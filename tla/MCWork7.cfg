SPECIFICATION Spec
CONSTANTS
  RhsCount = 7
  Events = {"e"}
  AltOf <- MCAltOf
  EventOf <- MCEventOf
  Clustered = {7}
  Conditional = {}
  Acting = {}
  ByteBits = 8
  Works = {"w1", "w2"}
  Buffers = {"b1", "b2", "b3", "b4"}
INVARIANTS
  FinalisersMatch
  NothingLeft
  PatternsOfThisWork
PROPERTIES
  EngineGoes
CHECK_DEADLOCK FALSE
