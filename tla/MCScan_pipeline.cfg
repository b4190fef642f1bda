\* One scan of up to three files of every size class, two YARA matches in an
\* answer, two faults and one crash or interrupt: what the pipeline does with
\* each file, and what it leaves in the history and on disk.
SPECIFICATION FairSpec
CONSTANTS
  None = None
  ScanIds = {s1}
  Drives = {d1}
  FileSizes = {1, 2, 3}
  MaxFileSize = 2
  HashMaxFileSize = 1
  YaraMaxFileSize = 1
  YaraEnabled = TRUE
  ProgressEvery = 2
  MaxFiles = 3
  MaxHits = 2
  MaxFaults = 2
  MaxRestarts = 1
INVARIANTS
  StateMatchesTask
  FilesAccounted
  ReportBacked
  ThreatsAnnounced
  FiguresShown
  OutcomeJustified
PROPERTIES
  EndAnnounced
  FiguresGrow
  LedgerSpec
  ScanAdvances
  RowClosed
