SPECIFICATION FairSpec
CONSTANTS
  MaxDaemons = 2
  Command = {c1, c2}
  Node = {n1}
  Pid = {i1, i2}
  Port = {p1, p2}
  OneAtATime = TRUE
  MaxSeq = 2
  MaxAccidents = 1
  Free = Free
  Foreign = Foreign
  NoOne = NoOne
INVARIANTS TypeOK PublishedIsHeld InfoOfNewest
PROPERTIES ReadsOwnWrites CommandsEnd
CHECK_DEADLOCK FALSE
ACTION_CONSTRAINT FirstIsAny
