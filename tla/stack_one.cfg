\* The instance of machine.cfg.
CONSTANTS
  H = 2
  LIMIT = 2
  BLOCK = 2
  PID = 1
SPECIFICATION MachineSpec
PROPERTIES
  FewerThanTwoRefused
CHECK_DEADLOCK FALSE
