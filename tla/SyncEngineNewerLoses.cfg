\* One machine, two-way, one upload fails.
SPECIFICATION Spec
CONSTANTS
  a1 = a1  a2 = a2  a3 = a3  c1 = c1  c2 = c2  d1 = d1  d2 = d2  f1 = f1  f2 = f2
  NoPath = NoPath  NoConfig = NoConfig
  Path = {f1, f2}
  Folder = {d1}
  Edited = {d1}
  Config = {c1}
  Actor = {a1}
  Daemons = {a1}
  ConfigsOf <- OneMachine
  FolderOf <- OneFolder
  Direction <- TwoWay
  SendFilter <- NoFilter1
  ReceiveFilter <- NoFilter1
  StreamPush = FALSE
  StreamPull = FALSE
  QuietUser = TRUE
  MaxEdits = 3
  MaxFailures = 1
PROPERTIES NewerWins
