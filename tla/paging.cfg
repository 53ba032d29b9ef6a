\* Two frames for three pages; instructions hold up to three references.
CONSTANTS
  PG_COUNT = 3
  FRAME_COUNT = 2
  Vals = {0, 1}
  Blank = 0
  MaxRefs = 3
  MaxOps = 2
SPECIFICATION PageSpec
INVARIANTS
  PageTypeOK
  FramesExclusive
  RefsStayValid
  CountsMatchRefs
  FailsOnlyIfAllInUse
PROPERTIES
  ImplementsFlatMem
CHECK_DEADLOCK FALSE
