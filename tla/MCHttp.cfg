SPECIFICATION Spec
CONSTANTS
  Requests <- MCRequests
  Responses <- MCResponses
  MaxRequests = 2
  MaxInterim = 1
  OutBuffer = 2
INVARIANTS
  FramingClean
  BodiesAsSent
  TransactionsAsMeant
  RefusalsKnown
CHECK_DEADLOCK FALSE
