SPECIFICATION FairSpec
CONSTANTS
  Device = {A}
  None = None
  Command = {c1}
  Poll = {}
  MaxSessions = 1
PROPERTY StopIsNotLost
CHECK_DEADLOCK FALSE
