SPECIFICATION FairSpec
CONSTANTS
  FORWARD_PORT_ATTEMPTS = 2
  PollBudget = 1
  MaxStops = 2
INVARIANTS
  NothingLeftBehind
  SupervisorInv
PROPERTIES
  OrderlyExit
  BlameIsRight
  ImplementsLifecycle
  StopEndsSession
  LinkDeathEndsSession
