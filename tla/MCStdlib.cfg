SPECIFICATION Spec
CONSTANTS
  NibbleBits = 1
  NibbleValues = 2
  Calls <- MCCalls
PROPERTY DoesItsPart
CHECK_DEADLOCK FALSE
