SPECIFICATION FairSpec
CONSTANTS
  StackTop <- MCStackTop
  Loaded <- MCLoaded
  BiosEntry = 200
  Handlers <- MCHandlers
  FillReturn = 203
INVARIANTS
  EntersMoved
  StackSurvives
  LeavesTheRest
PROPERTIES
  IsEntered
CHECK_DEADLOCK FALSE
