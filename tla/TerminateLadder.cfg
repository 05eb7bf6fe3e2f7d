SPECIFICATION FairSpec
CONSTANTS
  N = 3
  IntPolls = 1
  TermPolls = 1
INVARIANTS LadderInv
PROPERTIES KillReachesHelpers LadderReturns
