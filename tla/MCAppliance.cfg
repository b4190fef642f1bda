\* Two drives, one plugged in after the other or beside it, one scan, and one
\* crash or interrupt of the engine.
SPECIFICATION ApplianceSpec
CONSTANTS
  None = None
  Devices = {d1, d2}
  Drives = {d1, d2}
  MaxPlugs = 2
  Answers = {"continue"}
  ScanIds = {s1}
  FileSizes = {1}
  MaxFileSize = 1
  HashMaxFileSize = 0
  YaraMaxFileSize = 0
  YaraEnabled = FALSE
  ProgressEvery = 2
  MaxFiles = 0
  MaxHits = 0
  MaxFaults = 0
  MaxRestarts = 1
SYMMETRY Interchangeable
INVARIANTS
  ApplianceTypeOK
  DriveFollows
