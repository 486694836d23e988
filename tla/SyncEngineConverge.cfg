\* Backup by the daemon and by the Sync button at once, and restore, with downloads
\* that truncate: the sides agree once edits and failures stop.
SPECIFICATION FairSpec
CONSTANTS
  a1 = a1  a2 = a2  a3 = a3  c1 = c1  c2 = c2  d1 = d1  d2 = d2  f1 = f1  f2 = f2
  NoPath = NoPath  NoConfig = NoConfig
  Path = {f1, f2}
  Folder = {d1, d2}
  Edited = {d1}
  Config = {c1, c2}
  Actor = {a1, a2, a3}
  Daemons = {a1, a2}
  ConfigsOf <- WithButton
  FolderOf <- TwoFolders
  Direction <- Restore
  SendFilter <- NoFilter2
  ReceiveFilter <- OneFile2
  StreamPush = FALSE
  StreamPull = TRUE
  QuietUser = FALSE
  MaxEdits = 2
  MaxFailures = 1
PROPERTIES Convergence
