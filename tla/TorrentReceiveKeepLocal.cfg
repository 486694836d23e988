\* One poller and one local edit: "keep_local" is the default.
SPECIFICATION Spec
CONSTANTS
  Path = {f1}
  Poller = {p1}
  Calm = TRUE
  MaxSeq = 1
  MaxEdits = 1
  MaxFailures = 0
  NoPath = NoPath
PROPERTIES KeepsLocal
