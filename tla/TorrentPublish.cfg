\* Crashes and errors at every step of the publishing cycle of one actor.
SPECIFICATION FairSpec
CONSTANTS
  Path = {f1, f2}
  Actor = {a1}
  Daemons = {a1}
  Deletions = FALSE
  Reverts = FALSE
  CopyErrors = FALSE
  LossyPut = FALSE
  SlowTicks = TRUE
  MaxEdits = 3
  MaxFailures = 2
  MaxClock = 9
  NoPath = NoPath
  NoManifest = NoManifest
INVARIANTS TypeOK AnnouncedFilesAreWhole AnnouncedIsDownloadable
PROPERTIES OnlyPublishedIsSkipped LatestContentAnnounced
