SPECIFICATION FairSpec
CONSTANTS
  Gui = {g1, g2}
  LastPort = 2
  Silence = 1
  Beat = 2
  Window = 6
  Calm = TRUE
  Throttle = FALSE
  MaxStarts = 3
  MaxForeign = 2
  MaxMissed = 1
  Free = Free
  Foreign = Foreign
INVARIANTS TypeOK AtMostOneUI RunningIsListed
PROPERTIES LeavesForBrother OpenTabKeepsUI ClosedTabEnds
