SPECIFICATION FairSpec
CONSTANTS
  Daemon = {d1}
  Command = {c1}
  Name = {n1, n2}
  Folder = {f1, f2}
  Path = {p1, p2}
  n1 = n1
  f1 = f1
  p1 = p1
  Folders0 <- MCFolders
  Configs0 <- MCConfigs
  MaxEdits = 2
  MaxFaults = 1
  None = None
INVARIANTS TypeOK RunIsFresh AtMostOnceMore
PROPERTIES ClearsWhatWasListed RunsAgain
