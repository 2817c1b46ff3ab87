SPECIFICATION Spec
CONSTANTS
  Inputs <- MCInputs
  Spelling <- MCSpelling
  ByteValues = 8
INVARIANTS
  FieldsMeanSymbols
  KeptIsTheRest
  AcceptsWhatItCan
  ObjectReadsBack
  ReadersFindTheCode
CHECK_DEADLOCK FALSE
