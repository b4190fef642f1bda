\* No fault, no restart: a drive event arrives while the operator is being asked.
SPECIFICATION Spec
CONSTANTS
  None = None
  ScanIds = {s1}
  Drives = {d1}
  FileSizes = {1}
  MaxFileSize = 1
  HashMaxFileSize = 1
  YaraMaxFileSize = 1
  YaraEnabled = TRUE
  ProgressEvery = 1
  MaxFiles = 1
  MaxHits = 1
  MaxFaults = 0
  MaxRestarts = 0
INVARIANT
  PromptAnswerable
