\* Virtual runtimes that never wrap, large enough to run far ahead.
CONSTANTS
  PROCS = 2
  SCHED_GRANULARITY = 2
  SCHED_LATENCY = 1
  INT_RANGE = 64
  MaxVruntime = 9
  MaxRunning = 2
SPECIFICATION SchedSpec
PROPERTIES
  SleeperCredit
CHECK_DEADLOCK FALSE
