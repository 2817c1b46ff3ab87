SPECIFICATION FairSpec
CONSTANTS
  Sources <- MCSources
  Literals <- MCLiterals
  Limit = 3
INVARIANTS
  GlobalsAgree
  InSourceOrder
  KeepsTakenBranches
  OperandsReplaced
  MacrosWhole
PROPERTY Terminates
CHECK_DEADLOCK FALSE
