SPECIFICATION Spec
CONSTANTS
  NibbleBits = 1
  NibbleValues = 2
  Calls <- MCCalls
INVARIANT MemcpyCopiesAllBytes
CHECK_DEADLOCK FALSE
