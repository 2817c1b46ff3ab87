SPECIFICATION Spec
CONSTANTS
  Names <- MCNames
  ReadAs <- MCReadAs
  Inputs <- MCInputs
INVARIANTS
  DisjointWhenLinked
  SymbolsFollow
  LinkedCorrectly
  RelocatedContiguous
  LinksWhatItCan
CHECK_DEADLOCK FALSE
