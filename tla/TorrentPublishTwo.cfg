\* The daemon and the Sync button publish from one staging directory.
SPECIFICATION Spec
CONSTANTS
  Path = {f1}
  Actor = {a1, a2}
  Daemons = {a1}
  Deletions = TRUE
  Reverts = TRUE
  CopyErrors = TRUE
  LossyPut = TRUE
  SlowTicks = FALSE
  MaxEdits = 2
  MaxFailures = 1
  MaxClock = 2
  NoPath = NoPath
  NoManifest = NoManifest
INVARIANTS AnnouncedIsSeeded
