\* Words of four values; room for a stack of two words above a base of 0.
CONSTANTS
  H = 2
  LIMIT = 2
  BLOCK = 2
  PID = 1
SPECIFICATION MachineSpec
INVARIANTS
  MachineTypeOK
  ConversionsAgree
  StackAboveBase
  RetriesSame
PROPERTIES
  ImplementsStack
CHECK_DEADLOCK FALSE
