\* No fault: the process crashes once, and is started again.
SPECIFICATION FairSpec
CONSTANTS
  None = None
  ScanIds = {s1}
  Drives = {d1}
  FileSizes = {1}
  MaxFileSize = 1
  HashMaxFileSize = 1
  YaraMaxFileSize = 1
  YaraEnabled = TRUE
  ProgressEvery = 1
  MaxFiles = 1
  MaxHits = 1
  MaxFaults = 0
  MaxRestarts = 1
PROPERTY
  IncompleteRecorded
