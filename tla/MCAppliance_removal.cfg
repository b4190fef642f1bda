\* Two drives, plugged in one beside the other; the engine does not end.
SPECIFICATION ApplianceSpec
CONSTANTS
  None = None
  Devices = {d1, d2}
  Drives = {d1, d2}
  MaxPlugs = 2
  Answers = {"continue"}
  ScanIds = {s1}
  FileSizes = {1}
  MaxFileSize = 1
  HashMaxFileSize = 0
  YaraMaxFileSize = 0
  YaraEnabled = FALSE
  ProgressEvery = 2
  MaxFiles = 0
  MaxHits = 0
  MaxFaults = 0
  MaxRestarts = 0
INVARIANT
  RemovedIsUnmounted
