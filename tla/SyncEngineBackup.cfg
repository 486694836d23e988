\* Two machines share a store both ways, each with a file of its own.
SPECIFICATION Spec
CONSTANTS
  a1 = a1  a2 = a2  a3 = a3  c1 = c1  c2 = c2  d1 = d1  d2 = d2  f1 = f1  f2 = f2
  NoPath = NoPath  NoConfig = NoConfig
  Path = {f1, f2}
  Folder = {d1, d2}
  Edited = {d1, d2}
  Config = {c1, c2}
  Actor = {a1, a2}
  Daemons = {a1, a2}
  ConfigsOf <- OneConfigEach
  FolderOf <- TwoFolders
  Direction <- TwoWayBoth
  SendFilter <- OwnFile
  ReceiveFilter <- OtherFile
  StreamPush = FALSE
  StreamPull = TRUE
  QuietUser = FALSE
  MaxEdits = 3
  MaxFailures = 2
INVARIANTS TypeOK EveryListedFileTried AckedPushIsStored RemoteIntact
PROPERTIES LoopsRunToTheEnd KeepsBackupPromise
