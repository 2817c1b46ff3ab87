SPECIFICATION HlviSpec
CONSTANTS
  NibbleBits = 3
  NibbleValues = 8
  Opcode <- MCOpcode
  Cells <- MCCells
  CpuWords <- MCCpuWords
  Places <- MCPlaces
  Starts <- MCStarts
  Lines <- MCLines
  Pic = TRUE
INVARIANTS DoesWhatItSays DisassemblesBack
PROPERTY Completes
CHECK_DEADLOCK FALSE
