SPECIFICATION Spec
CONSTANTS
  Pages <- MCPages
  Checks <- MCChecks
  MaxHtml = 20
INVARIANTS
  TreeAsWritten
  NodesAccounted
  PlainArgumentsClean
CHECK_DEADLOCK FALSE
