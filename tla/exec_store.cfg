\* As paging.cfg, with programs that execute EX.
CONSTANTS
  PG_COUNT = 3
  FRAME_COUNT = 2
  Vals = {0, 1}
  Blank = 0
  MaxRefs = 3
  MaxOps = 2
SPECIFICATION PageExecSpec
PROPERTIES
  ImplementsFlatMem
CHECK_DEADLOCK FALSE
