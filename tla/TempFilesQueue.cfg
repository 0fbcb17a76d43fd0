SPECIFICATION Spec
CONSTANTS
  FileAreas = {"a", "b"}
  FirstArea = "a"
  FileRequests = {1, 2}
  Syncs = {1}
  MaxShares = 60
  MaxDownloads = 20
  MaxFileSteps = 4
PROPERTY SyncStaysQueued
CHECK_DEADLOCK FALSE
