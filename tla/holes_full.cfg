\* Programs that fill the address space before there are PROCS of them.
CONSTANTS
  PROCS = 4
  VADDR_SIZE = 12
  WORD_RANGE = 12
  Sizes = {4}
SPECIFICATION HoleSpec
INVARIANTS
  NoOverlap
CHECK_DEADLOCK FALSE
