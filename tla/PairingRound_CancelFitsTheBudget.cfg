SPECIFICATION Spec
CONSTANTS
  Endpoint = {e1}
  MaxDevices = 0
  MaxIdentity = 2
  CommandTimeout = 10
  ShutdownDeadline = 13
INVARIANTS CancelFitsTheBudget
CHECK_DEADLOCK FALSE
