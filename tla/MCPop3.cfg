SPECIFICATION Spec
CONSTANTS
  Commands <- MCCommands
  Bodies <- MCBodies
  MaxRequests = 3
INVARIANTS
  QueueInOrder
  PairedAsMeant
  SessionTrue
  AlarmsJust
  RefusalsKnown
CHECK_DEADLOCK FALSE
