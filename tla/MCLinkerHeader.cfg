SPECIFICATION Spec
CONSTANTS
  Names <- MCNames
  ReadAs <- MCReadAs
  Inputs <- MCInputs
INVARIANTS
  HeaderIsRight
CHECK_DEADLOCK FALSE
