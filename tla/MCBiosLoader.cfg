SPECIFICATION FairLoaderSpec
CONSTANTS
  Programs <- MCPrograms
  Stream <- MCStream
  PipeCap = 3
  StackTop = 4
  StackDepth = 2
  StackWord = 99
  Stalls = {0, 1, 3}
INVARIANTS
  NoStaleFinish
  SeenReadyHolds
  LoadedPrefix
  EntersIntact
PROPERTIES
  DeliversWords
  EveryProgramEntered
