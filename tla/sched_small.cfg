\* Virtual runtimes that never wrap: the arithmetic is exact.
CONSTANTS
  PROCS = 3
  SCHED_GRANULARITY = 2
  SCHED_LATENCY = 1
  INT_RANGE = 64
  MaxVruntime = 4
  MaxRunning = 3
SPECIFICATION SchedFairSpec
INVARIANTS
  SchedTypeOK
  RunQueueOK
  TreeSorted
  OverrunBound
  MinVruntimeLag
PROPERTIES
  ChargesKept
  ImplementsRunSet
  EveryoneAdvances
CHECK_DEADLOCK FALSE
