SPECIFICATION FairSpec
CONSTANTS
  NibbleBits = 3
  NibbleValues = 8
  Opcode <- MCOpcode
  RamSize <- MCRamSize
  Images <- MCImages
  ReadClaims <- MCReadClaims
  WriteClaims <- MCWriteClaims
  Foreign = {0, 5}
  IoBus = FALSE
  VersionWord = 8392705
  IdentWord = 7654321
PROPERTIES ImplementsIsa Shadowed KeepsExecuting
CHECK_DEADLOCK FALSE
