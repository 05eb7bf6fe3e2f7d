SPECIFICATION Spec
CONSTANTS
  PairCall = {p1}
  MaxGen = 2
  Serial = {A}
  StartCall = {s1, s2}
  NoSerial = NoSerial
  MaxId = 2
  Ladder = 1
  SessionBudget = 2
  PairBudget = 3
  ExitBudget = 4
SYMMETRY CallSymmetry
INVARIANTS PairingInv LiveIsReachable ExitedIsGone ShutdownInv DrainedAreDown ExitIsNeverStuck
PROPERTIES CancelStands
CHECK_DEADLOCK FALSE
