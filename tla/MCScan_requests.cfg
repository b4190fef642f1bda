\* Two scans one after the other on two drives, one file each: what requests,
\* drive events, one fault and one crash or interrupt do between them.
SPECIFICATION Spec
CONSTANTS
  None = None
  ScanIds = {s1, s2}
  Drives = {d1, d2}
  FileSizes = {1, 3}
  MaxFileSize = 2
  HashMaxFileSize = 1
  YaraMaxFileSize = 1
  YaraEnabled = TRUE
  ProgressEvery = 1
  MaxFiles = 1
  MaxHits = 1
  MaxFaults = 1
  MaxRestarts = 1
SYMMETRY Interchangeable
INVARIANTS
  TypeOK
  SingleScan
  CompletionAnnounced
  NothingLeftOpen
PROPERTIES
  CancelNotForgotten
  AnswerKept
  DriveHeld
  EndedStays
