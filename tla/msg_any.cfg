\* Programs that also receive from anybody (RC **), without semaphores.
CONSTANTS
  Pids = {p1, p2, p3}
  NoPid = NoPid
  None = None
  Sems = {}
  MaxSem = 1
  SetVals = {}
  AnyPid = AnyPid
  RecvFrom = {p1, p2, p3, AnyPid}
SPECIFICATION IpcSpec
PROPERTIES
  BlockedUntilReceived
CHECK_DEADLOCK FALSE
