\* One machine backs up, another restores, over each of the transports, with a transfer
\* that breaks off.
SPECIFICATION FairSpec
CONSTANTS
  p1 = p1  p2 = p2  q1 = q1  m1 = m1  m2 = m2  g1 = g1
  Path = {p1, p2, q1}
  BaseName <- OneSubfolder
  Group = {g1}
  Machine = {m1, m2}
  GroupOf <- OneProject
  Topologies <- Restore
  Edited = {m1}
  Kinds = {"mock", "s3", "ftp", "webdav", "mfs", "mysql", "http", "email", "hybrid"}
  MaxEdits = 2
  MaxFailures = 1
INVARIANTS TypeOK ContentsKeepNames
PROPERTIES Restored
