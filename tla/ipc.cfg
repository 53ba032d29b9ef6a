\* Programs whose RC always names the sender and whose SI never raises a
\* semaphore.
CONSTANTS
  Pids = {p1, p2, p3}
  NoPid = NoPid
  None = None
  Sems = {s1, s2}
  MaxSem = 2
  SetVals = {0}
  AnyPid = AnyPid
  RecvFrom = {p1, p2, p3}
SPECIFICATION IpcFairSpec
INVARIANTS
  IpcTypeOK
  SleepersQueued
  NoLostWakeup
  OneQueueEach
  OnlySleepersResumed
  NoMissedRendezvous
PROPERTIES
  FirstComeFirstWoken
  BlockedUntilReceived
  FreeSemTaken
  Delivered
CHECK_DEADLOCK FALSE
