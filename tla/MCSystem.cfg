SPECIFICATION SystemSpec
CONSTANTS
  Stream <- MCStream
  PipeCap = 5
  Shades = 2
  WordSize = 2
  WindowWords = 1
  DefaultWidth = 2
  DefaultHeight = 2
  VramWords = 6
  RegisterWords = 3
  Garbage = {2}
  WriteAdvanced = 3
  WriteCompat = 2
  ControlStores <- MCControlStores
  SizeStores <- MCSizeStores
  PaletteStores <- MCPaletteStores
  ScreenStores <- MCScreenStores
  ScreenWords <- MCScreenWords
ACTION_CONSTRAINT ReadsThenDraws
INVARIANTS DevicesTypeOK ReadyIsWhole InFrame FrameShowsVram LikeVga AlphaKept
 
