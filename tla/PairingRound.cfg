SPECIFICATION Spec
CONSTANTS
  Endpoint = {e1, e2, e3}
  MaxDevices = 3
  MaxIdentity = 2
  CommandTimeout = 10
  ShutdownDeadline = 13
INVARIANTS NothingIsLeft AttributionIsRight EachDeviceOnce
PROPERTIES KilledOnlyForCause CancelIsPrompt AttemptEnds
CHECK_DEADLOCK FALSE
