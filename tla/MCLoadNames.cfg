SPECIFICATION Spec
CONSTANTS
  Names <- MCNames
  Inputs <- MCInputs
  Cells = {1, 2, 3, 4, 5}
  LineOf <- MCLineOf
  Step = 1
INVARIANTS
  RefusedIfParsed
CHECK_DEADLOCK FALSE
