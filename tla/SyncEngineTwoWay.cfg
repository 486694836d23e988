\* Two machines, both two-way, with downloads and uploads that can tear files.
SPECIFICATION FairSpec
CONSTANTS
  a1 = a1  a2 = a2  a3 = a3  c1 = c1  c2 = c2  d1 = d1  d2 = d2  f1 = f1  f2 = f2
  NoPath = NoPath  NoConfig = NoConfig
  Path = {f1, f2}
  Folder = {d1, d2}
  Edited = {d1, d2}
  Config = {c1, c2}
  Actor = {a1, a2}
  Daemons = {a1, a2}
  ConfigsOf <- OneConfigEach
  FolderOf <- TwoFolders
  Direction <- TwoWayBoth
  SendFilter <- NoFilter2
  ReceiveFilter <- NoFilter2
  StreamPush = TRUE
  StreamPull = TRUE
  QuietUser = FALSE
  MaxEdits = 2
  MaxFailures = 1
INVARIANTS Provenance
PROPERTIES SameFilesEverywhere
