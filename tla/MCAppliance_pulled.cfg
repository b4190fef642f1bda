\* One drive, pulled out during a scan; the engine does not end.
SPECIFICATION ApplianceSpec
CONSTANTS
  None = None
  Devices = {d1}
  Drives = {d1}
  MaxPlugs = 1
  Answers = {"continue"}
  ScanIds = {s1}
  FileSizes = {1}
  MaxFileSize = 1
  HashMaxFileSize = 0
  YaraMaxFileSize = 0
  YaraEnabled = FALSE
  ProgressEvery = 2
  MaxFiles = 1
  MaxHits = 0
  MaxFaults = 0
  MaxRestarts = 0
INVARIANT
  PulledOutNotCompleted
