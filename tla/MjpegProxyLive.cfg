SPECIFICATION FairSpec
CONSTANTS
  Downstream = {d1}
  MaxFrames = 2
PROPERTIES StopReturns StopReleasesWriters
CHECK_DEADLOCK FALSE
