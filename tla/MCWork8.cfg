SPECIFICATION ClearSpec
CONSTANTS
  RhsCount = 8
  Events = {"e"}
  AltOf <- MCAltOf
  EventOf <- MCEventOf
  Clustered = {8}
  Conditional = {}
  Acting = {}
  ByteBits = 8
  Works = {"w1", "w2"}
  Buffers = {"b1", "b2", "b3", "b4"}
INVARIANTS
  PatternsOfThisWork
CHECK_DEADLOCK FALSE
