SPECIFICATION Spec
CONSTANTS
  Device = {A}
  None = None
  Command = {c1}
  Poll = {}
  MaxSessions = 1
INVARIANT ReclaimLeavesNothing
CHECK_DEADLOCK FALSE
