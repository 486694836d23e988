\* Two pollers of a daemon, two snapshots, an edit and a failure or kill.
SPECIFICATION FairSpec
CONSTANTS
  Path = {f1, f2}
  Poller = {p1, p2}
  Calm = TRUE
  MaxSeq = 2
  MaxEdits = 1
  MaxFailures = 1
  NoPath = NoPath
INVARIANTS TypeOK Provenance SkippedWasAdded NoReturnToOlder
PROPERTIES LatestMerged
