\* Six trees, both modes, with and without --auto-continue; one read error,
\* one other fault, and one interrupt or crash.
SPECIFICATION HeadlessFairSpec
CONSTANTS
  None = None
  ScanIds = {s1}
  Drives = {}
  FileSizes = {1, 2, 3}
  MaxFileSize = 2
  HashMaxFileSize = 1
  YaraMaxFileSize = 1
  YaraEnabled = TRUE
  ProgressEvery = 2
  MaxFiles = 3
  MaxHits = 3
  MaxFaults = 2
  MaxRestarts = 1
  Trees <- SmallTrees
  MaxErrors = 1
INVARIANTS
  HeadlessTypeOK
  WalkExact
  DetectionsExact
  WatcherAlive
  PrintsFinalStatus
PROPERTIES
  WalkSpec
  CommandReturns
\* The command ends.
CHECK_DEADLOCK FALSE
