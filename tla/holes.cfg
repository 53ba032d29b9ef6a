\* Programs of one size, and an address space for one more than can exist.
CONSTANTS
  PROCS = 5
  VADDR_SIZE = 13
  WORD_RANGE = 13
  Sizes = {2}
SPECIFICATION HoleSpec
INVARIANTS
  HoleTypeOK
  NoOverlap
  InBounds
  HolesDisjoint
  NothingLost
CHECK_DEADLOCK FALSE
